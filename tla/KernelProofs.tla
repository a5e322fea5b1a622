---------------------------- MODULE KernelProofs ----------------------------
(***************************************************************************)
(* Theorems about the kernel, for any keys, test suites and screen, and    *)
(* any number of ticks and key presses.                                    *)
(***************************************************************************)
EXTENDS Kernel, SequenceTheorems, WellFoundedInduction, TLAPS

-----------------------------------------------------------------------------
(***************************************************************************)
(* Operations.                                                             *)
(***************************************************************************)
Devices == {"WRITER", "SERIAL1"}

\* What is printed: to the screen character by character, to the host word by word.
Words ==
    {".", "B", "P", "H", "i", "!", "c", "s", "o", "x", "L", "bs", "\n"}
        \cup {"Running", "[ok]", "[failed]", "Error"} \cup TestNames \cup Keys
Texts == Seq(Words)

Named(names) == [op : names]
Locking(names) == [op : {"lock", "unlock"}, lock : names]

Printing(devices) ==
    Named({"without_interrupts", "restore_interrupts"}) \cup Locking(devices)
        \cup [op : {"write"}, device : devices, text : Texts, pos : Nat]
Exiting == [op : {"exit"}, code : {"Success", "Failed"}]

\* After a panic, in a failed test and elsewhere; in tests; before interrupts are
\* enabled, once they are, and in a handler.
FinalOps == Printing({"SERIAL1"}) \cup Exiting \cup Named({"hlt"})
PanicOps == Printing(Devices) \cup Exiting \cup Named({"hlt"})
TestOps ==
    Named({"panic", "int3", "overflow_stack"}) \cup [op : {"assert_row"}, char : Words]
        \cup [op : {"for_test"}, suite : Seq(TestNames)]
StartOps ==
    Printing({"WRITER"}) \cup Locking({"PICS"})
        \cup Named({"load_tss", "load_idt", "initialize_pics"})
RunOps(program) == PanicOps \cup IF program = "main" THEN {} ELSE TestOps
PlainOps == PanicOps \cup Locking({"PICS"}) \cup [op : {"end_of_interrupt"}, vector : Nat]
HandlerOps == PlainOps \cup Locking({"KEYBOARD"}) \cup Named({"read_scancode", "panic"})
Ops == StartOps \cup TestOps \cup HandlerOps \cup Named({"enable_interrupts"})

\* The locks a flow holds, the keyboard's left out, and "mask" when it has switched
\* interrupts off: before an operation and after it.
Idle == {}

Before(op) ==
    CASE op.op = "restore_interrupts" \/ (op.op = "lock" /\ op.lock \in Devices) -> {"mask"}
      [] op.op = "unlock" /\ op.lock \in Devices -> {op.lock, "mask"}
      [] op.op = "write" -> {op.device, "mask"}
      [] op.op = "assert_row" -> {"WRITER", "mask"}
      [] op.op \in {"initialize_pics", "end_of_interrupt"} \/ op = Unlock("PICS") ->
             {"PICS"}
      [] OTHER -> Idle

After(op) ==
    CASE op.op = "without_interrupts" \/ (op.op = "unlock" /\ op.lock \in Devices) -> {"mask"}
      [] op.op = "lock" /\ op.lock \in Devices -> {op.lock, "mask"}
      [] op = Lock("PICS") -> {"PICS"}
      [] op.op = "restore_interrupts" \/ op = Unlock("PICS") -> Idle
      [] OTHER -> Before(op)

\* The operations fit together: each leaves what the next one finds, the last nothing.
Chained(t) ==
    /\ \A k \in 1..Len(t) - 1 : Before(t[k + 1]) = After(t[k])
    /\ t # <<>> => After(t[Len(t)]) = Idle

Now(t) == IF t = <<>> THEN Idle ELSE Before(t[1])

\* A piece of code that leaves everything as it found it.
Block(t, ops) == t \in Seq(ops) /\ Chained(t) /\ Now(t) = Idle

-----------------------------------------------------------------------------
LEMMA Positions ==
    ASSUME NEW S, NEW s \in Seq(S), NEW t \in Seq(S)
    PROVE  /\ s \o t \in Seq(S) /\ Len(s \o t) = Len(s) + Len(t) /\ Len(s) \in Nat /\ Len(t) \in Nat
           /\ \A k \in 1..Len(s) : (s \o t)[k] = s[k]
           /\ \A k \in Len(s) + 1..Len(s) + Len(t) : (s \o t)[k] = t[k - Len(s)]
    BY ConcatProperties, LenProperties

LEMMA Joined ==
    ASSUME NEW S, NEW s \in Seq(S), NEW t \in Seq(S), Chained(s), Chained(t), Now(t) = Idle
    PROVE  /\ s \o t \in Seq(S) /\ Chained(s \o t)
           /\ Now(s \o t) = Now(s)
<1> DEFINE u == s \o t
<1>1. /\ u \in Seq(S) /\ Len(u) = Len(s) + Len(t) /\ Len(s) \in Nat /\ Len(t) \in Nat
      /\ \A k \in 1..Len(s) : u[k] = s[k]
      /\ \A k \in Len(s) + 1..Len(s) + Len(t) : u[k] = t[k - Len(s)]
    BY Positions
<1> HIDE DEF u
<1>2. \A r \in Seq(S) : r = <<>> <=> Len(r) = 0
    OBVIOUS
<1>3. ASSUME NEW k \in 1..Len(u) - 1 PROVE Before(u[k + 1]) = After(u[k])
    <2>1. CASE k < Len(s)
        <3>1. k \in 1..Len(s) - 1 /\ k \in 1..Len(s) /\ k + 1 \in 1..Len(s)
            BY <1>1, <2>1
        <3> QED
            BY <1>1, <3>1 DEF Chained
    <2>2. CASE k = Len(s)
        <3>1. k \in 1..Len(s) /\ s # <<>> /\ t # <<>> /\ k + 1 - Len(s) = 1
              /\ k + 1 \in Len(s) + 1..Len(s) + Len(t)
            BY <1>1, <1>2, <1>3, <2>2
        <3>2. u[k] = s[Len(s)] /\ u[k + 1] = t[1]
            BY <1>1, <2>2, <3>1
        <3>3. After(s[Len(s)]) = Idle /\ Before(t[1]) = Idle
            BY <3>1 DEF Chained, Now
        <3> QED
            BY <3>2, <3>3
    <2>3. CASE k > Len(s)
        <3> DEFINE m == k - Len(s)
        <3>1. m \in 1..Len(t) - 1 /\ k + 1 - Len(s) = m + 1
              /\ k \in Len(s) + 1..Len(s) + Len(t) /\ k + 1 \in Len(s) + 1..Len(s) + Len(t)
            BY <1>1, <1>3, <2>3
        <3>2. u[k] = t[m] /\ u[k + 1] = t[m + 1]
            BY <1>1, <3>1
        <3> QED
            BY <3>1, <3>2 DEF Chained
    <2> QED
        BY <1>1, <2>1, <2>2, <2>3
<1>4. ASSUME u # <<>> PROVE After(u[Len(u)]) = Idle
    <2>1. CASE t = <<>>
        <3>1. Len(t) = 0 /\ Len(u) = Len(s) /\ s # <<>> /\ Len(s) \in 1..Len(s)
            BY <1>1, <1>2, <1>4, <2>1
        <3> QED
            BY <1>1, <3>1 DEF Chained
    <2>2. CASE t # <<>>
        <3>1. Len(u) \in Len(s) + 1..Len(s) + Len(t) /\ Len(u) - Len(s) = Len(t)
            BY <1>1, <1>2, <2>2
        <3> QED
            BY <1>1, <2>2, <3>1 DEF Chained
    <2> QED
        BY <2>1, <2>2
<1>5. Chained(u)
    BY <1>3, <1>4 DEF Chained
<1>6. Now(u) = Now(s)
    <2>1. CASE s = <<>>
        <3>1. u = t
            BY <2>1 DEF u
        <3> QED
            BY <2>1, <3>1 DEF Now
    <2>2. CASE s # <<>>
        <3>1. 1 \in 1..Len(s) /\ u # <<>>
            BY <1>1, <1>2, <2>2
        <3> QED
            BY <1>1, <2>2, <3>1 DEF Now
    <2> QED
        BY <2>1, <2>2
<1> QED
    BY <1>1, <1>5, <1>6 DEF u

LEMMA BlocksJoined ==
    ASSUME NEW S, NEW s, NEW t, Block(s, S), Block(t, S)
    PROVE  Block(s \o t, S)
    BY Joined DEF Block

\* What is left when the first operation has been done.
LEMMA Advanced ==
    ASSUME NEW S, NEW t \in Seq(S), t # <<>>, Chained(t)
    PROVE  /\ t[1] \in S /\ Head(t) = t[1] /\ Tail(t) \in Seq(S) /\ Chained(Tail(t))
           /\ Now(Tail(t)) = After(t[1])
           /\ Len(Tail(t)) = Len(t) - 1 /\ Len(t) \in Nat /\ Len(t) >= 1
           /\ \A k \in 1..Len(t) - 1 : Tail(t)[k] = t[k + 1]
<1> DEFINE u == Tail(t)
<1>1. /\ u \in Seq(S) /\ Len(u) = Len(t) - 1 /\ Len(t) \in Nat /\ Len(t) >= 1
      /\ \A k \in 1..Len(u) : u[k] = t[k + 1]
      /\ t[1] \in S /\ Head(t) = t[1]
    <2>1. Len(t) \in Nat /\ Len(t) >= 1 /\ t[1] \in S /\ Head(t) = t[1]
        OBVIOUS
    <2> QED
        BY <2>1, HeadTailProperties
<1> HIDE DEF u
<1>2. u = <<>> <=> Len(u) = 0
    BY <1>1
<1>3. ASSUME NEW k \in 1..Len(u) - 1 PROVE Before(u[k + 1]) = After(u[k])
    <2>1. k \in 1..Len(u) /\ k + 1 \in 1..Len(u) /\ k + 1 \in 1..Len(t) - 1
        BY <1>1
    <2>2. u[k] = t[k + 1] /\ u[k + 1] = t[(k + 1) + 1]
        BY <1>1, <2>1
    <2> QED
        BY <2>1, <2>2 DEF Chained
<1>4. ASSUME u # <<>> PROVE After(u[Len(u)]) = Idle
    <2>1. Len(u) \in 1..Len(u) /\ Len(u) + 1 = Len(t)
        BY <1>1, <1>2, <1>4
    <2> QED
        BY <1>1, <2>1 DEF Chained
<1>5. Now(u) = After(t[1])
    <2>1. CASE u = <<>>
        <3>1. Len(t) = 1
            BY <1>1, <1>2, <2>1
        <3> QED
            BY <2>1, <3>1 DEF Now, Chained
    <2>2. CASE u # <<>>
        <3>1. 1 \in 1..Len(u) /\ 1 \in 1..Len(t) - 1 /\ u[1] = t[1 + 1]
            BY <1>1, <1>2, <2>2
        <3> QED
            BY <2>2, <3>1 DEF Now, Chained
    <2> QED
        BY <2>1, <2>2
<1> QED
    BY <1>1, <1>3, <1>4, <1>5 DEF Chained, u
-----------------------------------------------------------------------------
(***************************************************************************)
(* The pieces of code.                                                     *)
(***************************************************************************)
\* Operations that neither take a lock nor switch interrupts off.
Neutral == {"load_tss", "load_idt", "enable_interrupts", "hlt", "exit", "panic", "int3",
            "overflow_stack", "for_test", "read_scancode"}

LEMMA Situations ==
    /\ \A op : op.op \in Neutral => Before(op) = Idle /\ After(op) = Idle
    /\ \A op : op.op = "without_interrupts" => Before(op) = Idle /\ After(op) = {"mask"}
    /\ \A op : op.op = "restore_interrupts" => Before(op) = {"mask"} /\ After(op) = Idle
    /\ \A op : op.op = "write" => /\ Before(op) = {op.device, "mask"}
                                 /\ After(op) = {op.device, "mask"}
    /\ \A op : op.op = "assert_row" => /\ Before(op) = {"WRITER", "mask"}
                                      /\ After(op) = {"WRITER", "mask"}
    /\ \A op : op.op \in {"initialize_pics", "end_of_interrupt"} =>
            Before(op) = {"PICS"} /\ After(op) = {"PICS"}
<1>1. \A op : op.op \in Neutral => Before(op) = Idle /\ After(op) = Idle
    BY DEF Neutral, Before, After, Lock, Unlock
<1>2. \A op : op.op = "without_interrupts" => Before(op) = Idle /\ After(op) = {"mask"}
    BY DEF Before, After, Lock, Unlock
<1>3. \A op : op.op = "restore_interrupts" => Before(op) = {"mask"} /\ After(op) = Idle
    BY DEF Before, After, Lock, Unlock
<1>4. \A op : op.op = "write" => /\ Before(op) = {op.device, "mask"}
                               /\ After(op) = {op.device, "mask"}
    BY DEF Before, After, Lock, Unlock
<1>5. \A op : op.op = "assert_row" => /\ Before(op) = {"WRITER", "mask"}
                                    /\ After(op) = {"WRITER", "mask"}
    BY DEF Before, After, Lock, Unlock
<1>6. \A op : op.op \in {"initialize_pics", "end_of_interrupt"} =>
            Before(op) = {"PICS"} /\ After(op) = {"PICS"}
    BY DEF Before, After, Lock, Unlock
<1> QED
    BY <1>1, <1>2, <1>3, <1>4, <1>5, <1>6

LEMMA LockSituations ==
    /\ \A d \in Devices : /\ Before(Lock(d)) = {"mask"} /\ After(Lock(d)) = {d, "mask"}
                          /\ Before(Unlock(d)) = {d, "mask"} /\ After(Unlock(d)) = {"mask"}
    /\ Before(Lock("PICS")) = Idle /\ After(Lock("PICS")) = {"PICS"}
    /\ Before(Unlock("PICS")) = {"PICS"} /\ After(Unlock("PICS")) = Idle
    /\ Before(Lock("KEYBOARD")) = Idle /\ After(Lock("KEYBOARD")) = Idle
    /\ Before(Unlock("KEYBOARD")) = Idle /\ After(Unlock("KEYBOARD")) = Idle
<1>1. \A d \in Devices : /\ Before(Lock(d)) = {"mask"} /\ After(Lock(d)) = {d, "mask"}
                        /\ Before(Unlock(d)) = {d, "mask"} /\ After(Unlock(d)) = {"mask"}
    <2> SUFFICES ASSUME NEW d \in Devices
                 PROVE  /\ Before(Lock(d)) = {"mask"} /\ After(Lock(d)) = {d, "mask"}
                        /\ Before(Unlock(d)) = {d, "mask"} /\ After(Unlock(d)) = {"mask"}
        OBVIOUS
    <2>1. /\ Lock(d).op = "lock" /\ Lock(d).lock = d
          /\ Unlock(d).op = "unlock" /\ Unlock(d).lock = d
          /\ Lock("PICS").op = "lock" /\ Lock("PICS").lock = "PICS"
          /\ Unlock("PICS").op = "unlock" /\ Unlock("PICS").lock = "PICS" /\ "PICS" \notin Devices
        BY DEF Lock, Unlock, Devices
    <2>2. Before(Lock(d)) = {"mask"}
        BY <2>1 DEF Before
    <2>3. After(Lock(d)) = {d, "mask"}
        BY <2>1 DEF After
    <2>4. Before(Unlock(d)) = {d, "mask"}
        BY <2>1 DEF Before
    <2>5. After(Unlock(d)) = {"mask"}
        BY <2>1 DEF After
    <2> QED
        BY <2>2, <2>3, <2>4, <2>5
<1>2. /\ Before(Lock("PICS")) = Idle /\ After(Lock("PICS")) = {"PICS"}
      /\ Before(Unlock("PICS")) = {"PICS"} /\ After(Unlock("PICS")) = Idle
    BY DEF Before, After, Lock, Unlock, Devices
<1>3. /\ Before(Lock("KEYBOARD")) = Idle /\ After(Lock("KEYBOARD")) = Idle
      /\ Before(Unlock("KEYBOARD")) = Idle /\ After(Unlock("KEYBOARD")) = Idle
    BY DEF Before, After, Lock, Unlock, Devices
<1> QED
    BY <1>1, <1>2, <1>3

LEMMA PrintIsABlock ==
    ASSUME NEW d \in Devices, NEW text \in Texts
    PROVE  Block(print(d, text), Printing({d}))
<1> DEFINE t == print(d, text)
           w == Write(d, text)
           mask == Op("without_interrupts")
           unmask == Op("restore_interrupts")
<1>1. t = <<mask, Lock(d), w, Unlock(d), unmask>>
    BY DEF print
<1>2. mask \in Printing({d}) /\ unmask \in Printing({d}) /\ w \in Printing({d})
    BY DEF Printing, Named, Op, Write
<1>3. Lock(d) \in Printing({d}) /\ Unlock(d) \in Printing({d})
    BY DEF Printing, Locking, Lock, Unlock
<1>4. /\ Before(mask) = Idle /\ After(mask) = {"mask"}
      /\ Before(w) = {d, "mask"} /\ After(w) = {d, "mask"}
      /\ Before(unmask) = {"mask"} /\ After(unmask) = Idle
    <2>1. mask.op = "without_interrupts" /\ unmask.op = "restore_interrupts"
          /\ w.op = "write" /\ w.device = d
        BY DEF Op, Write
    <2> HIDE DEF mask, unmask, w
    <2> QED
        BY <2>1, Situations
<1>5. /\ Before(Lock(d)) = {"mask"} /\ After(Lock(d)) = {d, "mask"}
      /\ Before(Unlock(d)) = {d, "mask"} /\ After(Unlock(d)) = {"mask"}
    BY LockSituations
<1> HIDE DEF mask, unmask, w, t
<1>6. t \in Seq(Printing({d})) /\ Len(t) = 5
    BY <1>1, <1>2, <1>3
<1>7. \A k \in 1..Len(t) - 1 : Before(t[k + 1]) = After(t[k])
    <2>1. \A k \in 1..Len(t) - 1 : k \in {1, 2, 3, 4}
        BY <1>6
    <2>2. /\ Before(t[2]) = After(t[1]) /\ Before(t[3]) = After(t[2]) /\ Before(t[4]) = After(t[3])
          /\ Before(t[5]) = After(t[4])
        BY <1>1, <1>4, <1>5
    <2> QED
        BY <2>1, <2>2
<1>8. t # <<>> /\ After(t[5]) = Idle /\ Before(t[1]) = Idle
    BY <1>1, <1>4
<1> QED
    BY <1>6, <1>7, <1>8 DEF Block, Now, Chained, t

LEMMA SectionIsABlock ==
    ASSUME NEW S, Locking({"PICS"}) \subseteq S,
           NEW op \in S, op.op \in {"initialize_pics", "end_of_interrupt"}
    PROVE  Block(<<Lock("PICS"), op, Unlock("PICS")>>, S)
<1> DEFINE t == <<Lock("PICS"), op, Unlock("PICS")>>
<1>1. Lock("PICS") \in S /\ Unlock("PICS") \in S
    BY DEF Locking, Lock, Unlock
<1>2. /\ Before(t[1]) = Idle /\ After(t[1]) = {"PICS"}
      /\ Before(t[2]) = {"PICS"} /\ After(t[2]) = {"PICS"}
      /\ Before(t[3]) = {"PICS"} /\ After(t[3]) = Idle
    BY Situations, LockSituations
<1>3. t \in Seq(S) /\ Len(t) = 3
    BY <1>1
<1> HIDE DEF t
<1>4. \A k \in 1..Len(t) - 1 : k \in {1, 2}
    BY <1>3
<1> QED
    BY <1>2, <1>3, <1>4 DEF Block, Now, Chained, t

LEMMA OneIsABlock ==
    ASSUME NEW S, NEW op \in S, op.op \in Neutral
    PROVE  Block(<<op>>, S)
    BY Situations DEF Block, Chained, Now

LEMMA WiderBlock ==
    ASSUME NEW S, NEW R, S \subseteq R, NEW t, Block(t, S)
    PROVE  Block(t, R)
<1>1. t \in Seq(R)
    BY DEF Block
<1> QED
    BY <1>1 DEF Block

LEMMA NothingIsABlock == \A S : Block(<<>>, S)
    BY DEF Block, Chained, Now

-----------------------------------------------------------------------------
(***************************************************************************)
(* The inductive invariant.                                                *)
(***************************************************************************)
Frame == [todo : Seq(Ops), flags : BOOLEAN, saved : BOOLEAN]

Masked(t) == "mask" \in Now(t)
Held(t) == Now(t) \ {"mask"}

\* The lock of KEYBOARD is taken by the first operation of a handler and dropped by
\* its last, with prints and other locks in between.
KeyboardHandled(t) ==
    \A k \in 1..Len(t) : t[k] \notin PlainOps =>
        \/ t[k].op = "panic" /\ Len(t) = 1
        \/ /\ t[Len(t)] = Unlock("KEYBOARD") /\ t[k].op # "panic"
           /\ t[k] = Lock("KEYBOARD") => k = 1
           /\ t[k] = Unlock("KEYBOARD") => k = Len(t)
KeyboardHeld(t) == t # <<>> /\ t[Len(t)] = Unlock("KEYBOARD") /\ t[1] # Lock("KEYBOARD")

StateOK ==
    /\ frames \in Seq(Frame) /\ enabled \in BOOLEAN
    /\ pic \in [offset : Nat, irr : SUBSET {0, 1}, isr : SUBSET {0, 1}]
    /\ exit \in {"none", "Success", "Failed"}
    /\ entry \in {"main", "main_test", "lib_test"}

CodeOK == \A n \in 1..Len(frames) : Chained(frames[n].todo)

Ready == {"tss", "idt"} \subseteq tables /\ pic.offset = PIC_1_OFFSET

\* Before init has ended: what is not in place is still to come, and comes before
\* interrupts are enabled.
Ahead(t, k, name) == \E m \in 1..k - 1 : t[m] = Op(name)
Starting ==
    LET t == frames[1].todo IN
    /\ Len(frames) = 1 /\ ~enabled /\ locks = Held(t)
    /\ Masked(t) => ~frames[1].saved
    /\ \E k \in 1..Len(t) :
        /\ t[k] = Op("enable_interrupts")
        /\ \A m \in 1..k - 1 : t[m] \in StartOps
        /\ \A m \in k + 1..Len(t) : t[m] \in RunOps(entry)
        /\ "tss" \in tables \/ Ahead(t, k, "load_tss")
        /\ "idt" \in tables \/ Ahead(t, k, "load_idt")
        /\ pic.offset = PIC_1_OFFSET \/ Ahead(t, k, "initialize_pics")

\* After init, with no handler running: a lock is held only with interrupts off.
Running ==
    LET t == frames[1].todo IN
    /\ Len(frames) = 1 /\ Ready /\ locks = Held(t)
    /\ t \in Seq(RunOps(entry))
    /\ Masked(t) => ~enabled

\* A handler has interrupted a flow that holds no lock, and is itself not interrupted.
Handling ==
    LET t == frames[2].todo IN
    /\ Len(frames) = 2 /\ Ready /\ ~enabled
    /\ frames[1].todo \in Seq(RunOps(entry)) /\ Now(frames[1].todo) = Idle
    /\ t \in Seq(HandlerOps) /\ KeyboardHandled(t)
    /\ Masked(t) => ~frames[2].saved
    /\ locks = Held(t) \cup IF KeyboardHeld(t) THEN {"KEYBOARD"} ELSE {}

\* A test failed with WRITER locked: it stays locked, and is not asked for again.
Failed ==
    LET t == frames[1].todo IN
    /\ Len(frames) = 1 /\ ~enabled
    /\ t \in Seq(FinalOps)
    /\ Masked(t) => ~frames[1].saved
    /\ locks = Held(t) \cup {"WRITER"}

IInv == StateOK /\ CodeOK /\ (Starting \/ Running \/ Handling \/ Failed)

-----------------------------------------------------------------------------
(***************************************************************************)
(* The functions of the kernel.                                            *)
(***************************************************************************)
LEMMA Wider ==
    /\ Printing({"SERIAL1"}) \subseteq FinalOps /\ FinalOps \subseteq PanicOps
    /\ Printing({"WRITER"}) \subseteq PanicOps
    /\ PanicOps \subseteq HandlerOps /\ \A program : PanicOps \subseteq RunOps(program)
    /\ StartOps \subseteq Ops /\ HandlerOps \subseteq Ops /\ \A program : RunOps(program) \subseteq Ops
<1>1. Printing({"SERIAL1"}) \subseteq Printing(Devices) /\ Printing({"WRITER"}) \subseteq Printing(Devices)
    BY DEF Printing, Locking, Devices
<1>2. Printing({"SERIAL1"}) \subseteq FinalOps /\ Printing(Devices) \subseteq PanicOps
    BY DEF FinalOps, PanicOps
<1>3. FinalOps \subseteq PanicOps
    BY <1>1 DEF FinalOps, PanicOps
<1>4. PanicOps \subseteq HandlerOps /\ \A program : PanicOps \subseteq RunOps(program)
    BY DEF RunOps, HandlerOps, PlainOps
<1>5. StartOps \subseteq Ops /\ HandlerOps \subseteq Ops
    BY DEF Ops
<1>6. \A program : RunOps(program) \subseteq Ops
    BY <1>4, <1>5 DEF RunOps, Ops
<1> QED
    BY <1>1, <1>2, <1>3, <1>4, <1>5, <1>6

LEMMA PrintlnIsABlock ==
    ASSUME NEW text \in Texts
    PROVE  Block(println(text), Printing({"WRITER"})) /\ Block(println(text), PanicOps)
    BY PrintIsABlock, WiderBlock, Wider DEF println, Devices

LEMMA OneWord == \A S : \A w \in S : <<w>> \in Seq(S)
    OBVIOUS
LEMMA TwoWords == \A S : \A w \in S : \A v \in S : <<w, v>> \in Seq(S)
    OBVIOUS

LEMMA NothingTyped == <<>> \in Texts
    BY DEF Texts

LEMMA SerialIsABlock ==
    ASSUME NEW word \in Words
    PROVE  Block(serial_print(word), FinalOps)
<1>1. <<word>> \in Texts
    BY OneWord DEF Texts
<1> QED
    BY <1>1, PrintIsABlock, WiderBlock, Wider DEF serial_print, Devices

LEMMA HaltIsABlock == Block(hlt_loop, FinalOps)
<1>1. Op("hlt") \in FinalOps /\ Op("hlt").op \in Neutral
    BY DEF FinalOps, Named, Op, Neutral
<1> QED
    BY <1>1, OneIsABlock DEF hlt_loop

LEMMA ExitIsABlock == \A code \in {"Success", "Failed"} : Block(exit_qemu(code), FinalOps)
<1> SUFFICES ASSUME NEW code \in {"Success", "Failed"}
             PROVE  Block(exit_qemu(code), FinalOps)
    OBVIOUS
<1> DEFINE op == [op |-> "exit", code |-> code]
<1>1. op \in FinalOps /\ op.op \in Neutral
    BY DEF FinalOps, Exiting, Neutral
<1>2. exit_qemu(code) = <<op>>
    BY DEF exit_qemu
<1> HIDE DEF op
<1> QED
    BY <1>1, <1>2, OneIsABlock

LEMMA PanicIsABlock ==
    Block(panic, PanicOps) /\ (entry # "main" => Block(panic, FinalOps))
<1>1. Block(test_panic_handler, FinalOps)
    <2>1. Block(serial_print("[failed]"), FinalOps) /\ Block(serial_print("Error"), FinalOps)
        BY SerialIsABlock DEF Words
    <2>2. Block(exit_qemu("Failed"), FinalOps) /\ Block(hlt_loop, FinalOps)
        BY HaltIsABlock, ExitIsABlock
    <2>3. Block(serial_print("[failed]") \o serial_print("Error"), FinalOps)
        BY <2>1, BlocksJoined
    <2>4. Block(serial_print("[failed]") \o serial_print("Error") \o exit_qemu("Failed"), FinalOps)
        BY <2>2, <2>3, BlocksJoined
    <2> QED
        BY <2>2, <2>4, BlocksJoined DEF test_panic_handler
<1>2. Block(println(<<"P", "\n">>) \o hlt_loop, PanicOps)
    <2>1. "P" \in Words /\ "\n" \in Words
        BY DEF Words
    <2>2. <<"P", "\n">> \in Texts
        BY <2>1, TwoWords DEF Texts
    <2> QED
        BY <2>2, PrintlnIsABlock, HaltIsABlock, WiderBlock, Wider, BlocksJoined
<1> QED
    BY <1>1, <1>2, WiderBlock, Wider DEF panic

\* The texts a key is turned into.
LEMMA DecodedIsText == \A state, code : Decoded(state, code) \in Texts
<1> SUFFICES ASSUME NEW code, code \in Keys
             PROVE  Types(code) \in Texts
    BY NothingTyped DEF Decoded
<1>1. /\ code \in Words /\ "\n" \in Words /\ "L" \in Words /\ "bs" \in Words
    BY DEF Words
<1> QED
    BY <1>1, OneWord DEF Types, Texts

\* An operation of no concern to the keyboard's lock.
LEMMA PlainIsNotKeyboard ==
    /\ Lock("KEYBOARD") \notin PlainOps /\ Unlock("KEYBOARD") \notin PlainOps
    /\ Op("panic") \notin PlainOps /\ Op("read_scancode") \notin PlainOps
<1>1. \A op \in PlainOps :
        /\ op.op \notin {"panic", "read_scancode"}
        /\ op.op \in {"lock", "unlock"} => op.lock # "KEYBOARD"
    BY DEF PlainOps, PanicOps, Printing, Exiting, Named, Locking, Devices
<1>2. /\ Lock("KEYBOARD").op = "lock" /\ Lock("KEYBOARD").lock = "KEYBOARD"
      /\ Unlock("KEYBOARD").op = "unlock" /\ Unlock("KEYBOARD").lock = "KEYBOARD"
      /\ Op("panic").op = "panic" /\ Op("read_scancode").op = "read_scancode"
    BY DEF Lock, Unlock, Op
<1> QED
    BY <1>1, <1>2

LEMMA PlainIsHandled ==
    ASSUME NEW t \in Seq(PlainOps)
    PROVE  KeyboardHandled(t) /\ ~KeyboardHeld(t)
<1>1. \A k \in 1..Len(t) : t[k] \in PlainOps
    OBVIOUS
<1>2. t # <<>> => Len(t) \in 1..Len(t)
    OBVIOUS
<1>3. KeyboardHandled(t)
    BY <1>1 DEF KeyboardHandled
<1>4. ~KeyboardHeld(t)
    BY <1>1, <1>2, PlainIsNotKeyboard DEF KeyboardHeld
<1> QED
    BY <1>3, <1>4

LEMMA EndOfInterruptIsABlock ==
    ASSUME NEW vector \in Nat
    PROVE  Block(notify_end_of_interrupt(vector), PlainOps)
<1> DEFINE eoi == [op |-> "end_of_interrupt", vector |-> vector]
<1>1. /\ notify_end_of_interrupt(vector) = <<Lock("PICS"), eoi, Unlock("PICS")>>
      /\ eoi.op = "end_of_interrupt" /\ eoi \in PlainOps /\ Locking({"PICS"}) \subseteq PlainOps
    BY DEF notify_end_of_interrupt, PlainOps
<1> HIDE DEF eoi
<1> QED
    BY <1>1, SectionIsABlock

LEMMA KeyboardHandlerIsABlock ==
    /\ Block(keyboard_handler, HandlerOps)
    /\ KeyboardHandled(keyboard_handler) /\ ~KeyboardHeld(keyboard_handler)
<1> DEFINE lock == Lock("KEYBOARD")
           unlock == Unlock("KEYBOARD")
           read == Op("read_scancode")
           end == notify_end_of_interrupt(InterruptIndex.Timer)
           s == <<lock, read>>
           t == (s \o end) \o <<unlock>>
<1>1. keyboard_handler = t
    BY DEF keyboard_handler
<1>2. Block(end, PlainOps)
    BY EndOfInterruptIsABlock DEF InterruptIndex, PIC_1_OFFSET
<1>3. lock \in HandlerOps /\ unlock \in HandlerOps /\ read \in HandlerOps
    BY DEF HandlerOps, Locking, Lock, Unlock, Named, Op
<1>4. /\ Before(lock) = Idle /\ After(lock) = Idle /\ Before(unlock) = Idle /\ After(unlock) = Idle
      /\ Before(read) = Idle /\ After(read) = Idle
    <2>1. read.op \in Neutral
        BY DEF Op, Neutral
    <2>2. Before(read) = Idle /\ After(read) = Idle
        BY <2>1, Situations
    <2> QED
        BY <2>2, LockSituations
<1>5. lock # unlock
    BY DEF Lock, Unlock
<1>6. end \in Seq(PlainOps)
    BY <1>2 DEF Block
<1>7. PlainOps \subseteq HandlerOps
    BY DEF HandlerOps
<1> HIDE DEF lock, unlock, read, end
<1>8. Block(s, HandlerOps) /\ Block(<<unlock>>, HandlerOps)
    <2>1. s \in Seq(HandlerOps) /\ Len(s) = 2 /\ s[1] = lock /\ s[2] = read
        BY <1>3
    <2> HIDE DEF s
    <2>2. Block(s, HandlerOps)
        BY <1>4, <2>1 DEF Block, Chained, Now
    <2>3. Block(<<unlock>>, HandlerOps)
        BY <1>3, <1>4 DEF Block, Chained, Now
    <2> QED
        BY <2>2, <2>3
<1>9. Block(t, HandlerOps)
    <2>1. Block(end, HandlerOps)
        BY <1>2, <1>7, WiderBlock
    <2> HIDE DEF s
    <2>2. Block(s \o end, HandlerOps)
        BY <1>8, <2>1, BlocksJoined
    <2> QED
        BY <1>8, <2>2, BlocksJoined
<1>10. /\ Len(t) \in Nat /\ Len(t) >= 3 /\ t[1] = lock /\ t[2] = read /\ t[Len(t)] = unlock
       /\ \A k \in 1..Len(t) : k \in {1, 2, Len(t)} \/ t[k] \in PlainOps
    <2>1. /\ s \o end \in Seq(HandlerOps) /\ Len(s \o end) = 2 + Len(end) /\ Len(end) \in Nat
          /\ \A k \in 1..2 : (s \o end)[k] = s[k]
          /\ \A k \in 3..2 + Len(end) : (s \o end)[k] = end[k - 2]
        <3>1. s \in Seq(HandlerOps) /\ Len(s) = 2
            BY <1>3
        <3>2. end \in Seq(HandlerOps)
            BY <1>6, <1>7
        <3> HIDE DEF s
        <3>3. /\ s \o end \in Seq(HandlerOps) /\ Len(s \o end) = Len(s) + Len(end) /\ Len(end) \in Nat
              /\ \A k \in 1..Len(s) : (s \o end)[k] = s[k]
              /\ \A k \in Len(s) + 1..Len(s) + Len(end) : (s \o end)[k] = end[k - Len(s)]
            BY <3>1, <3>2, Positions
        <3> HIDE DEF end
        <3> QED
            BY <3>1, <3>3
    <2>2. /\ Len(t) = 3 + Len(end) /\ t[3 + Len(end)] = unlock
          /\ \A k \in 1..2 + Len(end) : t[k] = (s \o end)[k]
        <3> DEFINE u == s \o end
        <3>1. u \in Seq(HandlerOps) /\ Len(u) = 2 + Len(end) /\ <<unlock>> \in Seq(HandlerOps)
            BY <1>3, <2>1
        <3>2. Len(<<unlock>>) = 1 /\ <<unlock>>[1] = unlock
            OBVIOUS
        <3> DEFINE v == <<unlock>>
        <3> HIDE DEF u, v
        <3>3. /\ Len(u \o v) = 3 + Len(end) /\ \A k \in 1..Len(u) : (u \o v)[k] = u[k]
              /\ \A k \in Len(u) + 1..Len(u) + Len(v) : (u \o v)[k] = v[k - Len(u)]
            BY <2>1, <3>1, <3>2, ConcatProperties DEF v
        <3>4. 3 + Len(end) \in Len(u) + 1..Len(u) + Len(v) /\ 3 + Len(end) - Len(u) = 1
            BY <2>1, <3>1, <3>2 DEF v
        <3> QED
            BY <2>1, <3>1, <3>2, <3>3, <3>4 DEF u, v
    <2>3. \A k \in 3..2 + Len(end) : end[k - 2] \in PlainOps
        BY <1>6, <2>1
    <2>4. s[1] = lock /\ s[2] = read
        OBVIOUS
    <2> HIDE DEF s, t
    <2> QED
        BY <2>1, <2>2, <2>3, <2>4
<1> HIDE DEF s, t
<1>11. KeyboardHandled(t)
    <2>1. /\ read # lock /\ read # unlock /\ lock # unlock
          /\ read.op # "panic" /\ lock.op # "panic" /\ unlock.op # "panic"
        BY DEF read, lock, unlock, Op, Lock, Unlock
    <2>2. lock = Lock("KEYBOARD") /\ unlock = Unlock("KEYBOARD")
        BY DEF lock, unlock
    <2> QED
        BY <1>10, <2>1, <2>2 DEF KeyboardHandled
<1>12. ~KeyboardHeld(t)
    BY <1>10 DEF KeyboardHeld, lock
<1> QED
    BY <1>1, <1>9, <1>11, <1>12

LEMMA HandlersAreBlocks ==
    \A vector \in DOMAIN IDT :
        Block(IDT[vector], HandlerOps) /\ KeyboardHandled(IDT[vector]) /\ ~KeyboardHeld(IDT[vector])
<1>1. PlainOps \subseteq HandlerOps /\ PanicOps \subseteq PlainOps
    BY DEF HandlerOps, PlainOps
<1>2. ASSUME NEW t, Block(t, PlainOps)
      PROVE  Block(t, HandlerOps) /\ KeyboardHandled(t) /\ ~KeyboardHeld(t)
    BY <1>1, <1>2, WiderBlock, PlainIsHandled DEF Block
<1>3. Block(timer_interrupt_handler, PlainOps)
    <2>1. <<".">> \in Texts
        BY OneWord DEF Texts, Words
    <2>2. Block(println(<<".">>), PlainOps)
        BY <1>1, <2>1, PrintlnIsABlock, WiderBlock
    <2>3. Block(notify_end_of_interrupt(InterruptIndex.Timer), PlainOps)
        BY EndOfInterruptIsABlock DEF InterruptIndex, PIC_1_OFFSET
    <2> QED
        BY <2>2, <2>3, BlocksJoined DEF timer_interrupt_handler
<1>4. Block(breakpoint_handler, PlainOps)
    <2>1. "B" \in Words /\ "\n" \in Words
        BY DEF Words
    <2>2. <<"B", "\n">> \in Texts
        BY <2>1, TwoWords DEF Texts
    <2> QED
        BY <1>1, <2>2, PrintlnIsABlock, WiderBlock DEF breakpoint_handler
<1>5. /\ Block(double_fault_handler, HandlerOps)
      /\ KeyboardHandled(double_fault_handler) /\ ~KeyboardHeld(double_fault_handler)
    <2> DEFINE op == Op("panic")
    <2>1. op \in HandlerOps /\ op.op \in Neutral /\ op # Unlock("KEYBOARD")
        BY DEF HandlerOps, Named, Op, Neutral, Unlock
    <2>2. double_fault_handler = <<op>>
        BY DEF double_fault_handler
    <2>3. Block(<<op>>, HandlerOps)
        <3> HIDE DEF op
        <3> QED
            BY <2>1, OneIsABlock
    <2>4. KeyboardHandled(<<op>>) /\ ~KeyboardHeld(<<op>>)
        <3>1. Len(<<op>>) = 1 /\ <<op>>[1] = op /\ op.op = "panic"
            BY DEF Op
        <3> HIDE DEF op
        <3> QED
            BY <2>1, <3>1 DEF KeyboardHandled, KeyboardHeld
    <2> QED
        BY <2>2, <2>3, <2>4
<1>6. \A vector \in DOMAIN IDT :
        IDT[vector] \in {timer_interrupt_handler, breakpoint_handler, double_fault_handler, keyboard_handler}
    BY DEF IDT
<1> QED
    BY <1>2, <1>3, <1>4, <1>5, <1>6, KeyboardHandlerIsABlock

LEMMA OutputIsABlock ==
    ASSUME NEW program, program # "main", NEW char \in Words
    PROVE  Block(println_output(char), RunOps(program))
<1> DEFINE text == <<"\n", "o", "\n">>
           mask == Op("without_interrupts")
           unmask == Op("restore_interrupts")
           lock == Lock("WRITER")
           unlock == Unlock("WRITER")
           w == Write("WRITER", text)
           row == [op |-> "assert_row", char |-> char]
           S == RunOps(program)
<1>1. println_output(char) = <<mask, lock, w, row, unlock, unmask>>
    BY DEF println_output
<1>2. text \in Texts
    <2>1. "\n" \in Words /\ "o" \in Words
        BY DEF Words
    <2> QED
        BY <2>1 DEF Texts
<1> HIDE DEF text
<1>3. mask \in S /\ unmask \in S /\ lock \in S /\ unlock \in S /\ w \in S
    <2>1. mask \in Printing({"WRITER"}) /\ unmask \in Printing({"WRITER"}) /\ w \in Printing({"WRITER"})
        BY <1>2 DEF Printing, Named, Op, Write
    <2>2. lock \in Printing({"WRITER"}) /\ unlock \in Printing({"WRITER"})
        BY DEF Printing, Locking, Lock, Unlock
    <2> QED
        BY <2>1, <2>2, Wider
<1>4. row \in S
    BY DEF RunOps, TestOps
<1>5. /\ Before(mask) = Idle /\ After(mask) = {"mask"}
      /\ Before(w) = {"WRITER", "mask"} /\ After(w) = {"WRITER", "mask"}
      /\ Before(row) = {"WRITER", "mask"} /\ After(row) = {"WRITER", "mask"}
      /\ Before(unmask) = {"mask"} /\ After(unmask) = Idle
    <2>1. mask.op = "without_interrupts" /\ unmask.op = "restore_interrupts"
          /\ w.op = "write" /\ w.device = "WRITER" /\ row.op = "assert_row"
        BY DEF Op, Write
    <2> HIDE DEF mask, unmask, w, row
    <2> QED
        BY <2>1, Situations
<1>6. /\ Before(lock) = {"mask"} /\ After(lock) = {"WRITER", "mask"}
      /\ Before(unlock) = {"WRITER", "mask"} /\ After(unlock) = {"mask"}
    BY LockSituations DEF Devices
<1> DEFINE t == <<mask, lock, w, row, unlock, unmask>>
<1> HIDE DEF mask, unmask, w, row, lock, unlock, S
<1>7. t \in Seq(S) /\ Len(t) = 6
    BY <1>3, <1>4
<1>8. /\ t[1] = mask /\ t[2] = lock /\ t[3] = w /\ t[4] = row /\ t[5] = unlock /\ t[6] = unmask
      /\ t # <<>>
    OBVIOUS
<1> HIDE DEF t
<1>9. \A k \in 1..Len(t) - 1 : Before(t[k + 1]) = After(t[k])
    <2>1. \A k \in 1..Len(t) - 1 :
            \/ (k = 1 /\ k + 1 = 2) \/ (k = 2 /\ k + 1 = 3) \/ (k = 3 /\ k + 1 = 4)
            \/ (k = 4 /\ k + 1 = 5) \/ (k = 5 /\ k + 1 = 6)
        BY <1>7
    <2>2. /\ Before(t[2]) = After(t[1]) /\ Before(t[3]) = After(t[2]) /\ Before(t[4]) = After(t[3])
          /\ Before(t[5]) = After(t[4]) /\ Before(t[6]) = After(t[5])
        BY <1>5, <1>6, <1>8
    <2> QED
        BY <2>1, <2>2
<1>10. t # <<>> /\ After(t[6]) = Idle /\ Before(t[1]) = Idle
    BY <1>5, <1>8
<1>11. Block(t, S)
    BY <1>7, <1>9, <1>10 DEF Block, Now, Chained
<1> QED
    BY <1>1, <1>11 DEF t, S

\* The turns of the test runner.
LEMMA TestsAreBlocks ==
    ASSUME NEW program, program # "main", NEW suite \in Seq(TestNames)
    PROVE  Block(for_test(suite), RunOps(program)) /\ Block(test_runner(suite), RunOps(program))
<1> DEFINE S == RunOps(program)
<1>1. FinalOps \subseteq S /\ PanicOps \subseteq S /\ Printing({"WRITER"}) \subseteq S /\ TestOps \subseteq S
    BY Wider DEF RunOps
<1>2. ASSUME NEW op \in TestOps, op.op \in Neutral PROVE Block(<<op>>, S)
    BY <1>1, <1>2, OneIsABlock
<1>3. ASSUME NEW word \in Words PROVE Block(serial_print(word), S)
    BY <1>1, SerialIsABlock, WiderBlock
<1>4. ASSUME NEW test \in TestNames PROVE Block(TestBody(test), S)
    <2>1. Block(<<>>, S)
        BY NothingIsABlock
    <2>2. Block(println(<<"s", "\n">>), S)
        <3>1. "s" \in Words /\ "\n" \in Words
            BY DEF Words
        <3>2. <<"s", "\n">> \in Texts
            BY <3>1, TwoWords DEF Texts
        <3> QED
            BY <1>1, <3>2, PrintlnIsABlock, WiderBlock
    <2>3. Block(println_output("o"), S) /\ Block(println_output("x"), S)
        BY OutputIsABlock DEF Words
    <2>4. ASSUME NEW name \in {"int3", "panic", "overflow_stack"} PROVE Block(<<Op(name)>>, S)
        <3>1. Op(name) \in TestOps /\ Op(name).op \in Neutral
            BY DEF TestOps, Named, Op, Neutral
        <3> QED
            BY <1>2, <3>1
    <2> HIDE DEF S
    <2>5. TestBody(test) \in {<<>>, println(<<"s", "\n">>), println_output("o"), println_output("x"),
                              <<Op("int3")>>, <<Op("panic")>>, <<Op("overflow_stack")>>}
        BY <1>4 DEF TestBody, TestNames
    <2> QED
        BY <2>1, <2>2, <2>3, <2>4, <2>5
<1>5. ASSUME NEW test \in TestNames PROVE Block(run(test), S)
    <2>1. test \in Words /\ "[ok]" \in Words
        BY DEF Words
    <2>2. Block(serial_print(test), S) /\ Block(serial_print("[ok]"), S)
        BY <1>3, <2>1
    <2>3. Block(serial_print(test) \o TestBody(test), S)
        BY <1>4, <2>2, BlocksJoined
    <2> QED
        BY <2>2, <2>3, BlocksJoined DEF run
<1>6. Block(for_test(suite), S)
    <2>1. CASE suite = <<>>
        BY <2>1, NothingIsABlock DEF for_test
    <2>2. CASE suite # <<>>
        <3> DEFINE again == [op |-> "for_test", suite |-> Tail(suite)]
        <3>1. Head(suite) \in TestNames /\ Tail(suite) \in Seq(TestNames)
            BY <2>2
        <3>2. again \in TestOps /\ again.op \in Neutral
            BY <3>1 DEF TestOps, Neutral
        <3>3. for_test(suite) = run(Head(suite)) \o <<again>>
            BY <2>2 DEF for_test
        <3> HIDE DEF again, S
        <3>4. Block(<<again>>, S) /\ Block(run(Head(suite)), S)
            BY <1>2, <1>5, <3>1, <3>2
        <3> QED
            BY <3>3, <3>4, BlocksJoined
    <2> QED
        BY <2>1, <2>2
<1>7. Block(test_runner(suite), S)
    <2>1. Block(serial_print("Running"), S)
        BY <1>3 DEF Words
    <2>2. Block(exit_qemu("Success"), S)
        BY <1>1, ExitIsABlock, WiderBlock
    <2>3. Block(serial_print("Running") \o for_test(suite), S)
        BY <1>6, <2>1, BlocksJoined
    <2> QED
        BY <2>2, <2>3, BlocksJoined DEF test_runner
<1> QED
    BY <1>6, <1>7

-----------------------------------------------------------------------------
(***************************************************************************)
(* The code of _start.                                                     *)
(***************************************************************************)
Starts(t, program) ==
    /\ t \in Seq(Ops) /\ Chained(t) /\ Now(t) = Idle
    /\ \E k \in 1..Len(t) :
        /\ t[k] = Op("enable_interrupts")
        /\ \A m \in 1..k - 1 : t[m] \in StartOps
        /\ \A m \in k + 1..Len(t) : t[m] \in RunOps(program)
        /\ Ahead(t, k, "load_tss") /\ Ahead(t, k, "load_idt") /\ Ahead(t, k, "initialize_pics")

LEMMA InitStarts == \A program : Starts(init, program)
<1> DEFINE pics == Op("initialize_pics")
           enable == Op("enable_interrupts")
           lock == Lock("PICS")
           unlock == Unlock("PICS")
           tss == Op("load_tss")
           idt == Op("load_idt")
           t == (<<tss>> \o <<idt>>) \o <<lock, pics, unlock, enable>>
<1>1. init = t
    BY DEF init, gdt_init, init_idt
<1>2. tss \in StartOps /\ idt \in StartOps /\ lock \in StartOps /\ pics \in StartOps /\ unlock \in StartOps
    BY DEF StartOps, Named, Locking, Op, Lock, Unlock
<1>3. enable \in Ops
    BY DEF Ops, Named, Op
<1>4. /\ Before(tss) = Idle /\ After(tss) = Idle /\ Before(idt) = Idle /\ After(idt) = Idle
      /\ Before(enable) = Idle /\ After(enable) = Idle
      /\ Before(pics) = {"PICS"} /\ After(pics) = {"PICS"}
    <2>1. /\ tss.op \in Neutral /\ idt.op \in Neutral /\ enable.op \in Neutral
          /\ pics.op = "initialize_pics"
        BY DEF Op, Neutral
    <2> HIDE DEF tss, idt, enable, pics
    <2> QED
        BY <2>1, Situations
<1>5. /\ Before(lock) = Idle /\ After(lock) = {"PICS"}
      /\ Before(unlock) = {"PICS"} /\ After(unlock) = Idle
    BY LockSituations
<1>6. StartOps \subseteq Ops
    BY Wider
<1>7. enable = Op("enable_interrupts") /\ tss = Op("load_tss") /\ idt = Op("load_idt")
      /\ pics = Op("initialize_pics")
    OBVIOUS
<1> HIDE DEF tss, idt, enable, pics, lock, unlock
<1>8. t \in Seq(Ops) /\ Len(t) = 6
    BY <1>2, <1>3, <1>6
<1>9. /\ t[1] = tss /\ t[2] = idt /\ t[3] = lock /\ t[4] = pics /\ t[5] = unlock /\ t[6] = enable
      /\ t # <<>>
    OBVIOUS
<1> HIDE DEF t
<1>10. Chained(t) /\ Now(t) = Idle
    <2>1. \A k \in 1..Len(t) - 1 : Before(t[k + 1]) = After(t[k])
        <3>1. \A k \in 1..Len(t) - 1 :
                \/ (k = 1 /\ k + 1 = 2) \/ (k = 2 /\ k + 1 = 3) \/ (k = 3 /\ k + 1 = 4)
                \/ (k = 4 /\ k + 1 = 5) \/ (k = 5 /\ k + 1 = 6)
            BY <1>8
        <3>2. /\ Before(t[2]) = After(t[1]) /\ Before(t[3]) = After(t[2]) /\ Before(t[4]) = After(t[3])
              /\ Before(t[5]) = After(t[4]) /\ Before(t[6]) = After(t[5])
            BY <1>4, <1>5, <1>9
        <3> QED
            BY <3>1, <3>2
    <2>2. t # <<>> /\ After(t[6]) = Idle /\ Before(t[1]) = Idle
        BY <1>4, <1>9
    <2> QED
        BY <1>8, <2>1, <2>2 DEF Chained, Now
<1>11. ASSUME NEW program PROVE Starts(t, program)
    <2>1. 6 \in 1..Len(t) /\ t[6] = Op("enable_interrupts")
        BY <1>7, <1>8, <1>9
    <2>2. \A m \in 1..6 - 1 : t[m] \in StartOps
        <3>1. \A m \in 1..6 - 1 : m = 1 \/ m = 2 \/ m = 3 \/ m = 4 \/ m = 5
            OBVIOUS
        <3> QED
            BY <1>2, <1>9, <3>1
    <2>3. \A m \in 6 + 1..Len(t) : t[m] \in RunOps(program)
        BY <1>8
    <2>4. Ahead(t, 6, "load_tss") /\ Ahead(t, 6, "load_idt") /\ Ahead(t, 6, "initialize_pics")
        <3>1. 1 \in 1..6 - 1 /\ 2 \in 1..6 - 1 /\ 4 \in 1..6 - 1
            OBVIOUS
        <3> QED
            BY <1>7, <1>9, <3>1 DEF Ahead
    <2> QED
        BY <1>8, <1>10, <2>1, <2>2, <2>3, <2>4 DEF Starts
<1> QED
    BY <1>1, <1>11

LEMMA PrintsThenStarts ==
    ASSUME NEW program, NEW p, Block(p, StartOps), NEW t, Starts(t, program)
    PROVE  Starts(p \o t, program)
<1>1. PICK k \in 1..Len(t) :
        /\ t[k] = Op("enable_interrupts")
        /\ \A m \in 1..k - 1 : t[m] \in StartOps
        /\ \A m \in k + 1..Len(t) : t[m] \in RunOps(program)
        /\ Ahead(t, k, "load_tss") /\ Ahead(t, k, "load_idt") /\ Ahead(t, k, "initialize_pics")
    BY DEF Starts
<1> DEFINE u == p \o t
           n == Len(p)
<1>2. p \in Seq(StartOps) /\ p \in Seq(Ops) /\ Chained(p) /\ Now(p) = Idle
    BY WiderBlock, Wider DEF Block
<1>3. t \in Seq(Ops) /\ Chained(t) /\ Now(t) = Idle
    BY DEF Starts
<1>4. u \in Seq(Ops) /\ Chained(u) /\ Now(u) = Idle
    BY <1>2, <1>3, Joined
<1>5. /\ Len(u) = n + Len(t) /\ n \in Nat /\ Len(t) \in Nat
      /\ \A m \in 1..n : u[m] = p[m]
      /\ \A m \in n + 1..n + Len(t) : u[m] = t[m - n]
    BY <1>2, <1>3, Positions
<1>6. \A m \in 1..n : p[m] \in StartOps
    BY <1>2
<1> HIDE DEF u, n
<1>7. \A m \in 1..Len(t) : n + m \in n + 1..n + Len(t) /\ u[n + m] = t[m]
    <2> SUFFICES ASSUME NEW m \in 1..Len(t)
                 PROVE  n + m \in n + 1..n + Len(t) /\ u[n + m] = t[m]
        OBVIOUS
    <2>1. n + m \in n + 1..n + Len(t) /\ (n + m) - n = m
        BY <1>5
    <2> QED
        BY <1>5, <2>1
<1>8. n + k \in 1..Len(u) /\ u[n + k] = Op("enable_interrupts")
    <2>1. n + k \in 1..Len(u)
        BY <1>5
    <2> QED
        BY <1>1, <1>7, <2>1
<1>9. \A m \in 1..(n + k) - 1 : u[m] \in StartOps
    <2> SUFFICES ASSUME NEW m \in 1..(n + k) - 1 PROVE u[m] \in StartOps
        OBVIOUS
    <2>1. CASE m <= n
        <3>1. m \in 1..n
            BY <1>5, <2>1
        <3> QED
            BY <1>5, <1>6, <3>1
    <2>2. CASE m > n
        <3>1. m \in n + 1..n + Len(t) /\ m - n \in 1..k - 1
            BY <1>5, <2>2
        <3> QED
            BY <1>1, <1>5, <3>1
    <2> QED
        BY <1>5, <2>1, <2>2
<1>10. \A m \in (n + k) + 1..Len(u) : u[m] \in RunOps(program)
    <2> SUFFICES ASSUME NEW m \in (n + k) + 1..Len(u) PROVE u[m] \in RunOps(program)
        OBVIOUS
    <2>1. m \in n + 1..n + Len(t) /\ m - n \in k + 1..Len(t)
        BY <1>5
    <2> QED
        BY <1>1, <1>5, <2>1
<1>11. ASSUME NEW name, Ahead(t, k, name) PROVE Ahead(u, n + k, name)
    <2>1. PICK m \in 1..k - 1 : t[m] = Op(name)
        BY <1>11 DEF Ahead
    <2>2. m \in 1..Len(t) /\ n + m \in 1..(n + k) - 1
        BY <1>5
    <2>3. u[n + m] = Op(name)
        BY <1>7, <2>1, <2>2
    <2> QED
        BY <2>2, <2>3 DEF Ahead
<1>12. Ahead(u, n + k, "load_tss") /\ Ahead(u, n + k, "load_idt")
       /\ Ahead(u, n + k, "initialize_pics")
    BY <1>1, <1>11
<1>13. Starts(u, program)
    BY <1>4, <1>8, <1>9, <1>10, <1>12 DEF Starts
<1> QED
    BY <1>13 DEF u

LEMMA StartsThenRuns ==
    ASSUME NEW program, NEW t, Starts(t, program), NEW q, Block(q, RunOps(program))
    PROVE  Starts(t \o q, program)
<1>1. PICK k \in 1..Len(t) :
        /\ t[k] = Op("enable_interrupts")
        /\ \A m \in 1..k - 1 : t[m] \in StartOps
        /\ \A m \in k + 1..Len(t) : t[m] \in RunOps(program)
        /\ Ahead(t, k, "load_tss") /\ Ahead(t, k, "load_idt") /\ Ahead(t, k, "initialize_pics")
    BY DEF Starts
<1> DEFINE u == t \o q
<1>2. q \in Seq(RunOps(program)) /\ q \in Seq(Ops) /\ Chained(q) /\ Now(q) = Idle
    BY WiderBlock, Wider DEF Block
<1>3. t \in Seq(Ops) /\ Chained(t) /\ Now(t) = Idle
    BY DEF Starts
<1>4. u \in Seq(Ops) /\ Chained(u) /\ Now(u) = Idle
    BY <1>2, <1>3, Joined
<1>5. /\ Len(u) = Len(t) + Len(q) /\ Len(t) \in Nat /\ Len(q) \in Nat
      /\ \A m \in 1..Len(t) : u[m] = t[m]
      /\ \A m \in Len(t) + 1..Len(t) + Len(q) : u[m] = q[m - Len(t)]
    BY <1>2, <1>3, Positions
<1>6. \A m \in 1..Len(q) : q[m] \in RunOps(program)
    BY <1>2
<1> HIDE DEF u
<1>7. \A m \in 1..k : m \in 1..Len(t) /\ u[m] = t[m]
    BY <1>5
<1>8. k \in 1..Len(u) /\ k \in 1..k /\ \A m \in 1..k - 1 : m \in 1..k
    BY <1>5
<1>9. \A m \in k + 1..Len(u) : u[m] \in RunOps(program)
    <2> SUFFICES ASSUME NEW m \in k + 1..Len(u) PROVE u[m] \in RunOps(program)
        OBVIOUS
    <2>1. CASE m <= Len(t)
        <3>1. m \in k + 1..Len(t) /\ m \in 1..Len(t)
            BY <1>5, <2>1
        <3> QED
            BY <1>1, <1>5, <3>1
    <2>2. CASE m > Len(t)
        <3>1. m \in Len(t) + 1..Len(t) + Len(q) /\ m - Len(t) \in 1..Len(q)
            BY <1>5, <2>2
        <3> QED
            BY <1>5, <1>6, <3>1
    <2> QED
        BY <1>5, <2>1, <2>2
<1>10. ASSUME NEW name, Ahead(t, k, name) PROVE Ahead(u, k, name)
    BY <1>7, <1>8, <1>10 DEF Ahead
<1>11. Ahead(u, k, "load_tss") /\ Ahead(u, k, "load_idt") /\ Ahead(u, k, "initialize_pics")
    BY <1>1, <1>10
<1>12. Starts(u, program)
    BY <1>1, <1>4, <1>7, <1>8, <1>9, <1>11 DEF Starts
<1> QED
    BY <1>12 DEF u

LEMMA EveryStart ==
    ASSUME NEW program \in {"main", "main_test", "lib_test"}, NEW suite \in Seq(TestNames)
    PROVE  Starts(start(program, suite), program)
<1> DEFINE S == RunOps(program)
           hi == println(<<"H", "i", "!", "\n">>)
           crash == println(<<"c", "\n">>)
<1>1. Starts(init, program)
    BY InitStarts
<1>2. Starts(hi \o init, program)
    <2>1. <<"H", "i", "!", "\n">> \in Texts
        <3>1. "H" \in Words /\ "i" \in Words /\ "!" \in Words /\ "\n" \in Words
            BY DEF Words
        <3> QED
            BY <3>1 DEF Texts
    <2>2. Printing({"WRITER"}) \subseteq StartOps
        BY DEF StartOps
    <2>3. Block(hi, StartOps)
        BY <2>1, <2>2, PrintlnIsABlock, WiderBlock
    <2> QED
        BY <1>1, <2>3, PrintsThenStarts
<1>3. Block(crash, S) /\ Block(hlt_loop, S)
    <2>1. "c" \in Words /\ "\n" \in Words
        BY DEF Words
    <2>2. <<"c", "\n">> \in Texts
        BY <2>1, TwoWords DEF Texts
    <2>3. FinalOps \subseteq S /\ PanicOps \subseteq S
        BY Wider
    <2> QED
        BY <2>2, <2>3, PrintlnIsABlock, HaltIsABlock, WiderBlock
<1>4. program # "main" => Block(test_runner(suite), S)
    BY TestsAreBlocks
<1> HIDE DEF hi, crash
<1>5. CASE program = "main"
    <2>1. start(program, suite) = ((hi \o init) \o crash) \o hlt_loop
        BY <1>5 DEF start, hi, crash
    <2>2. Starts((hi \o init) \o crash, program)
        BY <1>2, <1>3, StartsThenRuns
    <2> QED
        BY <1>3, <2>1, <2>2, StartsThenRuns
<1>6. CASE program = "main_test"
    <2>1. start(program, suite) = (((hi \o init) \o test_runner(suite)) \o crash) \o hlt_loop
        BY <1>6 DEF start, hi, crash
    <2>2. Starts((hi \o init) \o test_runner(suite), program)
        BY <1>2, <1>4, <1>6, StartsThenRuns
    <2>3. Starts(((hi \o init) \o test_runner(suite)) \o crash, program)
        BY <1>3, <2>2, StartsThenRuns
    <2> QED
        BY <1>3, <2>1, <2>3, StartsThenRuns
<1>7. CASE program = "lib_test"
    <2>1. start(program, suite) = (init \o test_runner(suite)) \o hlt_loop
        BY <1>7 DEF start
    <2>2. Starts(init \o test_runner(suite), program)
        BY <1>1, <1>4, <1>7, StartsThenRuns
    <2> QED
        BY <1>3, <2>1, <2>2, StartsThenRuns
<1> QED
    BY <1>5, <1>6, <1>7

-----------------------------------------------------------------------------
(***************************************************************************)
(* One operation.                                                          *)
(***************************************************************************)
LEMMA Kinds ==
    /\ \A op \in FinalOps : op.op \in {"without_interrupts", "restore_interrupts", "lock", "unlock",
                                       "write", "exit", "hlt"}
    /\ \A op \in PanicOps : op.op \in {"without_interrupts", "restore_interrupts", "lock", "unlock",
                                       "write", "exit", "hlt"}
    /\ \A op \in TestOps : op.op \in {"panic", "int3", "overflow_stack", "assert_row", "for_test"}
    /\ \A op \in StartOps : op.op \in {"without_interrupts", "restore_interrupts", "lock", "unlock",
                                       "write", "load_tss", "load_idt", "initialize_pics"}
    /\ \A op \in HandlerOps : op.op \in {"without_interrupts", "restore_interrupts", "lock", "unlock",
                                         "write", "exit", "hlt", "end_of_interrupt", "read_scancode",
                                         "panic"}
<1>1. \A devices, op : op \in Printing(devices) =>
        op.op \in {"without_interrupts", "restore_interrupts", "lock", "unlock", "write"}
    BY DEF Printing, Named, Locking
<1>2. /\ \A op \in Exiting : op.op = "exit"
      /\ \A names : \A op \in Named(names) : op.op \in names
      /\ \A names : \A op \in Locking(names) : op.op \in {"lock", "unlock"}
    BY DEF Exiting, Named, Locking
<1>3. \A op \in FinalOps : op.op \in {"without_interrupts", "restore_interrupts", "lock", "unlock",
                                      "write", "exit", "hlt"}
    BY <1>1, <1>2 DEF FinalOps
<1>4. \A op \in PanicOps : op.op \in {"without_interrupts", "restore_interrupts", "lock", "unlock",
                                      "write", "exit", "hlt"}
    BY <1>1, <1>2 DEF PanicOps
<1>5. \A op \in TestOps : op.op \in {"panic", "int3", "overflow_stack", "assert_row", "for_test"}
    BY <1>2 DEF TestOps
<1>6. \A op \in StartOps : op.op \in {"without_interrupts", "restore_interrupts", "lock", "unlock",
                                      "write", "load_tss", "load_idt", "initialize_pics"}
    BY <1>1, <1>2 DEF StartOps
<1>7. \A op \in HandlerOps : op.op \in {"without_interrupts", "restore_interrupts", "lock", "unlock",
                                        "write", "exit", "hlt", "end_of_interrupt", "read_scancode",
                                        "panic"}
    BY <1>2, <1>4 DEF HandlerOps, PlainOps
<1> QED
    BY <1>3, <1>4, <1>5, <1>6, <1>7

\* Which locks are asked for.
LEMMA LockNames ==
    /\ \A op \in FinalOps : op.op \in {"lock", "unlock"} => op.lock = "SERIAL1"
    /\ \A op \in StartOps : op.op \in {"lock", "unlock"} => op.lock \in {"WRITER", "PICS"}
    /\ \A op \in PanicOps \cup TestOps : op.op \in {"lock", "unlock"} => op.lock \in Devices
    /\ \A op \in PlainOps : op.op \in {"lock", "unlock"} => op.lock \in Devices \cup {"PICS"}
    /\ \A op \in Ops : op.op \in {"lock", "unlock"} =>
            op = [op |-> op.op, lock |-> op.lock] /\ op.lock \in Devices \cup {"PICS", "KEYBOARD"}
<1>1. \A devices, op : op \in Printing(devices) /\ op.op \in {"lock", "unlock"} => op \in Locking(devices)
    BY DEF Printing, Named, Locking
<1>2. \A names : \A op \in Locking(names) :
        op.op \in {"lock", "unlock"} /\ op.lock \in names /\ op = [op |-> op.op, lock |-> op.lock]
    BY DEF Locking
<1>3. \A op \in Exiting : op.op = "exit"
    BY DEF Exiting
<1>4. \A names : \A op \in Named(names) : op.op \in names
    BY DEF Named
<1>5. \A op \in FinalOps : op.op \in {"lock", "unlock"} => op \in Locking({"SERIAL1"})
    BY <1>1, <1>3, <1>4 DEF FinalOps
<1>6. \A op \in PanicOps : op.op \in {"lock", "unlock"} => op \in Locking(Devices)
    BY <1>1, <1>3, <1>4 DEF PanicOps
<1>7. \A op \in TestOps : op.op \notin {"lock", "unlock"}
    BY Kinds
<1>8. \A op \in StartOps : op.op \in {"lock", "unlock"} =>
        op \in Locking({"WRITER"}) \/ op \in Locking({"PICS"})
    BY <1>1, <1>3, <1>4 DEF StartOps
<1>9. \A op \in PlainOps : op.op \in {"lock", "unlock"} =>
        op \in Locking(Devices) \/ op \in Locking({"PICS"})
    BY <1>6 DEF PlainOps
<1>10. \A op \in Ops : op.op \in {"lock", "unlock"} =>
        \/ op \in Locking(Devices) \/ op \in Locking({"PICS"}) \/ op \in Locking({"KEYBOARD"})
        \/ op \in Locking({"WRITER"})
    BY <1>4, <1>7, <1>8, <1>9 DEF Ops, HandlerOps
<1> QED
    BY <1>2, <1>5, <1>6, <1>7, <1>8, <1>9, <1>10 DEF Devices

\* What an operation does to the flow's locks and to its mask.
LEMMA LocksFollow ==
    ASSUME NEW op \in Ops, op.op \in {"lock", "unlock"} => op.lock # "KEYBOARD"
    PROVE  /\ op.op = "lock" => Before(op) \ {"mask"} = {} /\ After(op) \ {"mask"} = {op.lock}
           /\ op.op = "unlock" => Before(op) \ {"mask"} = {op.lock} /\ After(op) \ {"mask"} = {}
           /\ op.op \notin {"lock", "unlock"} => Before(op) \ {"mask"} = After(op) \ {"mask"}
<1>1. ASSUME op.op = "lock"
      PROVE  Before(op) \ {"mask"} = {} /\ After(op) \ {"mask"} = {op.lock}
    <2>1. op = Lock(op.lock) /\ op.lock \in Devices \cup {"PICS"} /\ op.lock # "mask"
        BY <1>1, LockNames DEF Lock, Devices
    <2>2. CASE op.lock \in Devices
        <3>1. Before(op) = {"mask"} /\ After(op) = {op.lock, "mask"}
            BY <2>1, <2>2, LockSituations
        <3> QED
            BY <2>1, <3>1
    <2>3. CASE op.lock = "PICS"
        <3>1. Before(op) = {} /\ After(op) = {"PICS"}
            BY <2>1, <2>3, LockSituations DEF Idle
        <3> QED
            BY <2>1, <2>3, <3>1
    <2> QED
        BY <2>1, <2>2, <2>3
<1>2. ASSUME op.op = "unlock"
      PROVE  Before(op) \ {"mask"} = {op.lock} /\ After(op) \ {"mask"} = {}
    <2>1. op = Unlock(op.lock) /\ op.lock \in Devices \cup {"PICS"} /\ op.lock # "mask"
        BY <1>2, LockNames DEF Unlock, Devices
    <2>2. CASE op.lock \in Devices
        <3>1. Before(op) = {op.lock, "mask"} /\ After(op) = {"mask"}
            BY <2>1, <2>2, LockSituations
        <3> QED
            BY <2>1, <3>1
    <2>3. CASE op.lock = "PICS"
        <3>1. Before(op) = {"PICS"} /\ After(op) = {}
            BY <2>1, <2>3, LockSituations DEF Idle
        <3> QED
            BY <2>1, <2>3, <3>1
    <2> QED
        BY <2>1, <2>2, <2>3
<1>3. ASSUME op.op \notin {"lock", "unlock"} PROVE Before(op) \ {"mask"} = After(op) \ {"mask"}
    <2>1. \A x : Unlock(x).op = "unlock" /\ Lock(x).op = "lock"
        BY DEF Lock, Unlock
    <2>2. CASE op.op = "without_interrupts"
        BY <2>2, Situations DEF Idle
    <2>3. CASE op.op = "restore_interrupts"
        BY <2>3, Situations DEF Idle
    <2>4. CASE op.op \notin {"without_interrupts", "restore_interrupts"}
        BY <1>3, <2>1, <2>4 DEF After
    <2> QED
        BY <2>2, <2>3, <2>4
<1> QED
    BY <1>1, <1>2, <1>3

LEMMA MaskFollows ==
    ASSUME NEW op \in Ops
    PROVE  /\ op.op = "without_interrupts" => "mask" \notin Before(op) /\ "mask" \in After(op)
           /\ op.op = "restore_interrupts" => "mask" \in Before(op) /\ "mask" \notin After(op)
           /\ op.op \notin {"without_interrupts", "restore_interrupts"} =>
                ("mask" \in Before(op) <=> "mask" \in After(op))
<1>1. CASE op.op \in {"without_interrupts", "restore_interrupts"}
    BY <1>1, Situations DEF Idle
<1>2. CASE op.op \in {"lock", "unlock"}
    <2>1. op \in {Lock(op.lock), Unlock(op.lock)} /\ op.lock \in Devices \cup {"PICS", "KEYBOARD"}
        BY <1>2, LockNames DEF Lock, Unlock
    <2>2. CASE op.lock \in Devices
        BY <1>2, <2>1, <2>2, LockSituations
    <2>3. CASE op.lock \in {"PICS", "KEYBOARD"}
        BY <1>2, <2>1, <2>3, LockSituations DEF Idle
    <2> QED
        BY <1>2, <2>1, <2>2, <2>3
<1>3. CASE op.op \notin {"without_interrupts", "restore_interrupts", "lock", "unlock"}
    <2>1. \A x : Unlock(x).op = "unlock" /\ Lock(x).op = "lock"
        BY DEF Lock, Unlock
    <2>2. Before(op) = After(op)
        BY <1>3, <2>1 DEF After
    <2> QED
        BY <1>3, <2>2
<1> QED
    BY <1>1, <1>2, <1>3

LEMMA TopFrame ==
    ASSUME StateOK, CodeOK, Len(frames) \in {1, 2}
    PROVE  LET t == frames[Len(frames)].todo IN
           /\ Top = frames[Len(frames)] /\ Top \in Frame /\ Len(frames) \in 1..Len(frames)
           /\ t \in Seq(Ops) /\ Chained(t)
           /\ t # <<>> => /\ NextOp = t[1] /\ Rest = Tail(t) /\ t[1] \in Ops
                          /\ Now(t) = Before(t[1])
<1> DEFINE n == Len(frames)
           t == frames[n].todo
<1>1. n \in 1..n /\ frames \in Seq(Frame)
    BY DEF StateOK
<1>2. frames[n] \in Frame /\ Top = frames[n]
    BY <1>1 DEF Top, Last
<1>3. t \in Seq(Ops) /\ Chained(t)
    BY <1>1, <1>2 DEF CodeOK, Frame
<1>4. t # <<>> => t[1] \in Ops /\ Head(t) = t[1]
    BY <1>3
<1> QED
    BY <1>1, <1>2, <1>3, <1>4 DEF NextOp, Rest, Now

\* The top frame with other code.
LEMMA Continued ==
    ASSUME StateOK, Len(frames) \in {1, 2}, NEW u \in Seq(Ops)
    PROVE  LET n == Len(frames)
               f == Continue(u) IN
           /\ f \in Seq(Frame) /\ Len(f) = n
           /\ f[n].todo = u /\ f[n].saved = frames[n].saved
           /\ \A i \in 1..n : i # n => f[i] = frames[i]
<1> DEFINE n == Len(frames)
           f == Continue(u)
           g == [frames[n] EXCEPT !.todo = u]
<1>1. frames \in Seq(Frame)
    BY DEF StateOK
<1>2. n \in 1..n /\ frames[n] \in Frame
    <2>1. n = 1 \/ n = 2
        OBVIOUS
    <2> HIDE DEF n
    <2>2. n \in 1..n
        BY <2>1
    <2> QED
        BY <1>1, <2>2 DEF n
<1>3. g \in Frame /\ g.todo = u /\ g.saved = frames[n].saved
    BY <1>2 DEF Frame
<1>4. f = [frames EXCEPT ![n] = g]
    BY DEF Continue
<1> HIDE DEF g, f
<1>5. f \in Seq(Frame) /\ Len(f) = n /\ f[n] = g /\ \A i \in 1..n : i # n => f[i] = frames[i]
    BY <1>1, <1>2, <1>3, <1>4
<1> QED
    BY <1>3, <1>5 DEF f

SameKind(op, other) ==
    /\ other.op = "write"
    /\ op \in Ops => other \in Ops
    /\ op \in FinalOps => other \in FinalOps
    /\ op \in StartOps => other \in StartOps
    /\ op \in PlainOps => other \in PlainOps
    /\ op \in HandlerOps => other \in HandlerOps
    /\ \A program : op \in RunOps(program) => other \in RunOps(program)

\* What may be left of a flow's code after an operation: the rest of it, or the
\* rest of a message and the rest of it.
Remains(t, u) ==
    /\ u \in Seq(Ops) /\ Chained(u) /\ Now(u) = After(t[1])
    /\ \/ Len(u) = Len(t) - 1 /\ \A k \in 1..Len(t) - 1 : u[k] = t[k + 1]
       \/ /\ t[1].op = "write" /\ SameKind(t[1], u[1])
          /\ Len(u) = Len(t) /\ \A k \in 2..Len(t) : u[k] = t[k]

LEMMA NextByte ==
    ASSUME NEW op \in Ops, op.op = "write", NEW other, other = [op EXCEPT !.pos = @ + 1]
    PROVE  /\ SameKind(op, other)
           /\ Before(other) = After(op) /\ After(other) = After(op)
<1>1. /\ \A devices : op \in Printing(devices) =>
            op \in [op : {"write"}, device : devices, text : Texts, pos : Nat]
      /\ op \notin Exiting /\ op \notin TestOps
      /\ \A names : op \notin Locking(names)
      /\ \A names : "write" \notin names => op \notin Named(names)
      /\ op \notin [op : {"end_of_interrupt"}, vector : Nat]
    <2>1. \A devices : op \in Printing(devices) =>
            op \in [op : {"write"}, device : devices, text : Texts, pos : Nat]
        BY DEF Printing, Named, Locking
    <2>2. op \notin Exiting /\ \A names : op \notin Locking(names)
        BY DEF Exiting, Locking
    <2>3. op \notin TestOps
        BY Kinds
    <2>4. \A names : "write" \notin names => op \notin Named(names)
        BY DEF Named
    <2>5. op \notin [op : {"end_of_interrupt"}, vector : Nat]
        OBVIOUS
    <2> QED
        BY <2>1, <2>2, <2>3, <2>4, <2>5
<1>2. \A devices : op \in Printing(devices) => other \in Printing(devices)
    <2> SUFFICES ASSUME NEW devices, op \in Printing(devices)
                 PROVE  other \in Printing(devices)
        OBVIOUS
    <2>1. op \in [op : {"write"}, device : devices, text : Texts, pos : Nat]
        BY <1>1
    <2>2. other \in [op : {"write"}, device : devices, text : Texts, pos : Nat]
        BY <2>1
    <2> QED
        BY <2>2 DEF Printing
<1>3. op \in FinalOps => other \in FinalOps
    BY <1>1, <1>2 DEF FinalOps
<1>4. op \in PanicOps => other \in PanicOps
    BY <1>1, <1>2 DEF PanicOps
<1>5. op \in StartOps => other \in StartOps
    BY <1>1, <1>2 DEF StartOps
<1>6. op \in PlainOps => other \in PlainOps
    BY <1>1, <1>4 DEF PlainOps
<1>7. op \in HandlerOps => other \in HandlerOps
    BY <1>1, <1>6 DEF HandlerOps
<1>8. \A program : op \in RunOps(program) => other \in RunOps(program)
    BY <1>1, <1>4 DEF RunOps
<1>9. op \in StartOps \/ op \in HandlerOps
    BY <1>1 DEF Ops
<1>10. other.op = "write" /\ other.device = op.device
    <2>1. \A devices : op \in Printing(devices) => other.op = "write" /\ other.device = op.device
        BY <1>1
    <2>2. \E devices : op \in Printing(devices)
        BY <1>1, <1>9 DEF StartOps, HandlerOps, PlainOps, PanicOps
    <2> QED
        BY <2>1, <2>2
<1>11. other \in Ops
    BY <1>5, <1>7, <1>9 DEF Ops
<1>12. SameKind(op, other)
    BY <1>3, <1>5, <1>6, <1>7, <1>8, <1>10, <1>11 DEF SameKind
<1>13. Before(op) = {op.device, "mask"} /\ After(op) = {op.device, "mask"}
    BY Situations
<1>14. Before(other) = {other.device, "mask"} /\ After(other) = {other.device, "mask"}
    BY <1>10, Situations
<1> QED
    BY <1>10, <1>12, <1>13, <1>14

LEMMA MessageGoesOn ==
    ASSUME NEW t \in Seq(Ops), t # <<>>, Chained(t), t[1].op = "write",
           NEW v, v = [t[1] EXCEPT !.pos = @ + 1]
    PROVE  Remains(t, <<v>> \o Tail(t))
<1> DEFINE u == <<v>> \o Tail(t)
<1>1. t[1] \in Ops /\ Len(t) \in Nat /\ Len(t) >= 1
    OBVIOUS
<1>2. SameKind(t[1], v) /\ Before(v) = After(t[1]) /\ After(v) = After(t[1]) /\ v \in Ops
    <2>1. SameKind(t[1], v) /\ Before(v) = After(t[1]) /\ After(v) = After(t[1])
        BY <1>1, NextByte
    <2> QED
        BY <1>1, <2>1 DEF SameKind
<1>3. /\ Tail(t) \in Seq(Ops) /\ Chained(Tail(t)) /\ Now(Tail(t)) = After(t[1])
      /\ Len(Tail(t)) = Len(t) - 1 /\ \A k \in 1..Len(t) - 1 : Tail(t)[k] = t[k + 1]
    BY Advanced
<1>4. u \in Seq(Ops) /\ Len(u) = Len(t) /\ u[1] = v /\ \A k \in 2..Len(t) : u[k] = t[k]
    <2>1. <<v>> \in Seq(Ops) /\ Len(<<v>>) = 1 /\ <<v>>[1] = v
        BY <1>2
    <2> DEFINE s == <<v>>
               r == Tail(t)
    <2> HIDE DEF s, r
    <2>2. /\ s \o r \in Seq(Ops) /\ Len(s \o r) = 1 + Len(r)
          /\ \A k \in 1..1 : (s \o r)[k] = s[k]
          /\ \A k \in 1 + 1..1 + Len(r) : (s \o r)[k] = r[k - 1]
        BY <1>3, <2>1, Positions DEF s, r
    <2>3. \A k \in 2..Len(t) : (s \o r)[k] = t[k]
        <3> SUFFICES ASSUME NEW k \in 2..Len(t) PROVE (s \o r)[k] = t[k]
            OBVIOUS
        <3>1. k \in 1 + 1..1 + Len(r) /\ k - 1 \in 1..Len(t) - 1 /\ (k - 1) + 1 = k
            BY <1>1, <1>3 DEF r
        <3>2. (s \o r)[k] = r[k - 1]
            BY <2>2, <3>1
        <3> QED
            BY <1>3, <3>1, <3>2 DEF r
    <2>4. Len(s \o r) = Len(t) /\ (s \o r)[1] = v
        BY <1>1, <1>3, <2>1, <2>2 DEF s, r
    <2> QED
        BY <2>2, <2>3, <2>4 DEF s, r
<1> HIDE DEF u
<1>5. Chained(u)
    <2>1. ASSUME NEW k \in 1..Len(u) - 1 PROVE Before(u[k + 1]) = After(u[k])
        <3>1. CASE k = 1
            <4>1. 2 \in 2..Len(t) /\ 1 \in 1..Len(t) - 1 /\ k + 1 = 2
                BY <1>1, <1>4, <2>1, <3>1
            <4>2. Before(t[2]) = After(t[1])
                BY <4>1 DEF Chained
            <4> QED
                BY <1>2, <1>4, <3>1, <4>1, <4>2
        <3>2. CASE k # 1
            <4>1. k \in 2..Len(t) /\ k + 1 \in 2..Len(t) /\ k \in 1..Len(t) - 1
                BY <1>1, <1>4, <2>1, <3>2
            <4> QED
                BY <1>4, <4>1 DEF Chained
        <3> QED
            BY <3>1, <3>2
    <2>2. u # <<>> => After(u[Len(u)]) = Idle
        <3>1. CASE Len(t) = 1
            BY <1>2, <1>4, <3>1 DEF Chained
        <3>2. CASE Len(t) # 1
            <4>1. Len(t) \in 2..Len(t)
                <5> DEFINE n == Len(t)
                <5>1. n \in Nat /\ n >= 1 /\ n # 1
                    BY <1>1, <3>2
                <5> HIDE DEF n
                <5>2. n \in 2..n
                    BY <5>1
                <5> QED
                    BY <5>2 DEF n
            <4> QED
                BY <1>4, <4>1 DEF Chained
        <3> QED
            BY <3>1, <3>2
    <2> QED
        BY <2>1, <2>2 DEF Chained
<1>6. Now(u) = After(t[1])
    <2>1. u # <<>>
        BY <1>1, <1>4
    <2> QED
        BY <1>2, <1>4, <2>1 DEF Now
<1>7. Remains(t, u)
    BY <1>2, <1>4, <1>5, <1>6 DEF Remains
<1> QED
    BY <1>7 DEF u

LEMMA RestRemains ==
    ASSUME NEW t \in Seq(Ops), t # <<>>, Chained(t)
    PROVE  Remains(t, Tail(t))
    BY Advanced DEF Remains

-----------------------------------------------------------------------------
(***************************************************************************)
(* One step of the flow on top, whatever it is doing.                      *)
(***************************************************************************)
Flow ==
    \/ WithoutInterrupts \/ RestoreInterrupts \/ Acquire \/ Release \/ WriteOne
    \/ LoadTables \/ InitializePics \/ EnableInterrupts \/ EndOfInterrupt

\* What such a step does to the code, to the interrupt flag, to the locks and to
\* what init puts in place.
GoesOn ==
    LET n == Len(frames) IN
    /\ frames' \in Seq(Frame) /\ Len(frames') = n
    /\ \A i \in 1..n : i # n => frames'[i] = frames[i]
    /\ Remains(frames[n].todo, frames'[n].todo)
Flagged(op) ==
    LET n == Len(frames) IN
    /\ enabled' \in BOOLEAN
    /\ op.op = "without_interrupts" => ~enabled' /\ (frames'[n].saved => enabled)
    /\ op.op = "restore_interrupts" => (enabled' => frames[n].saved)
    /\ op.op # "without_interrupts" => (frames'[n].saved => frames[n].saved)
    /\ op.op \notin {"without_interrupts", "restore_interrupts", "enable_interrupts"} => (enabled' => enabled)
LocksTaken(op) ==
    /\ op.op = "lock" => locks' = locks \cup {op.lock}
    /\ op.op = "unlock" => locks' = locks \ {op.lock}
    /\ op.op \notin {"lock", "unlock"} => locks' = locks
SetUp(op) ==
    /\ op.op = "load_tss" => "tss" \in tables'
    /\ op.op = "load_idt" => "idt" \in tables'
    /\ op.op = "initialize_pics" => pic'.offset = PIC_1_OFFSET
    /\ tables \subseteq tables' /\ (pic.offset = PIC_1_OFFSET => pic'.offset = PIC_1_OFFSET)
    /\ pic' \in [offset : Nat, irr : SUBSET {0, 1}, isr : SUBSET {0, 1}]

LEMMA ContinuedFrames ==
    ASSUME StateOK, CodeOK, Len(frames) \in {1, 2}, NEW u \in Seq(Ops),
           frames[Len(frames)].todo # <<>>, Remains(frames[Len(frames)].todo, u),
           frames' = Continue(u)
    PROVE  GoesOn /\ frames'[Len(frames)].saved = frames[Len(frames)].saved
<1> DEFINE f == Continue(u)
<1>1. /\ f \in Seq(Frame) /\ Len(f) = Len(frames)
      /\ f[Len(frames)].todo = u /\ f[Len(frames)].saved = frames[Len(frames)].saved
      /\ \A i \in 1..Len(frames) : i # Len(frames) => f[i] = frames[i]
    BY Continued
<1>2. frames' = f
    OBVIOUS
<1> HIDE DEF f
<1> QED
    BY <1>1, <1>2 DEF GoesOn

LEMMA FlowSteps ==
    ASSUME StateOK, CodeOK, Len(frames) \in {1, 2}, Flow
    PROVE  LET t == frames[Len(frames)].todo IN
           /\ t # <<>> /\ t \in Seq(Ops) /\ t[1] \in Ops /\ Now(t) = Before(t[1])
           /\ t[1].op \in {"without_interrupts", "restore_interrupts", "lock", "unlock", "write",
                           "load_tss", "load_idt", "initialize_pics", "enable_interrupts",
                           "end_of_interrupt"}
           /\ GoesOn /\ Flagged(t[1]) /\ LocksTaken(t[1]) /\ SetUp(t[1])
           /\ entry' = entry /\ exit' = exit
<1> DEFINE n == Len(frames)
           t == frames[n].todo
           op == t[1]
<1>1. /\ Top = frames[n] /\ frames[n] \in Frame /\ n \in 1..n /\ t \in Seq(Ops) /\ Chained(t)
      /\ t # <<>> => /\ NextOp = op /\ Rest = Tail(t) /\ op \in Ops /\ Now(t) = Before(op)
    BY TopFrame
<1>2. ASSUME NEW name, At(name)
      PROVE  /\ t # <<>> /\ NextOp = op /\ Rest = Tail(t) /\ op \in Ops /\ Now(t) = Before(op)
             /\ op.op = name /\ Rest \in Seq(Ops) /\ Remains(t, Rest)
    <2>1. t # <<>>
        BY <1>1, <1>2 DEF At
    <2>2. Remains(t, Tail(t)) /\ Tail(t) \in Seq(Ops)
        BY <1>1, <2>1, RestRemains, Advanced
    <2> QED
        BY <1>1, <1>2, <2>1, <2>2 DEF At
<1>3. /\ enabled \in BOOLEAN /\ pic \in [offset : Nat, irr : SUBSET {0, 1}, isr : SUBSET {0, 1}]
      /\ frames \in Seq(Frame)
    BY DEF StateOK
<1>4. ASSUME NEW name, At(name), frames' = Continue(Rest)
      PROVE  GoesOn /\ frames'[n].saved = frames[n].saved
    BY <1>2, <1>4, ContinuedFrames
<1>5. CASE WithoutInterrupts
    <2>1. At("without_interrupts") /\ enabled' = FALSE
          /\ frames' = [frames EXCEPT ![n] = [@ EXCEPT !.todo = Rest, !.saved = enabled]]
          /\ UNCHANGED <<entry, tables, locks, pic, exit>>
        BY <1>5 DEF WithoutInterrupts
    <2>2. /\ t # <<>> /\ op \in Ops /\ Now(t) = Before(op) /\ op.op = "without_interrupts"
          /\ Rest \in Seq(Ops) /\ Remains(t, Rest)
        BY <1>2, <2>1
    <2> DEFINE g == [frames[n] EXCEPT !.todo = Rest, !.saved = enabled]
    <2>3. g \in Frame /\ g.todo = Rest /\ g.saved = enabled
        BY <1>1, <1>3, <2>2 DEF Frame
    <2>4. frames' = [frames EXCEPT ![n] = g]
        BY <2>1
    <2> HIDE DEF g
    <2>5. /\ frames' \in Seq(Frame) /\ Len(frames') = n /\ frames'[n] = g
          /\ \A i \in 1..n : i # n => frames'[i] = frames[i]
        BY <1>1, <1>3, <2>3, <2>4
    <2>6. GoesOn
        BY <2>2, <2>3, <2>5 DEF GoesOn
    <2>7. Flagged(op)
        BY <2>1, <2>2, <2>3, <2>5 DEF Flagged
    <2>8. LocksTaken(op) /\ SetUp(op)
        BY <1>3, <2>1, <2>2 DEF LocksTaken, SetUp
    <2> QED
        BY <1>1, <2>1, <2>2, <2>6, <2>7, <2>8
<1>6. CASE RestoreInterrupts
    <2>1. At("restore_interrupts") /\ enabled' = frames[n].saved /\ frames' = Continue(Rest)
          /\ UNCHANGED <<entry, tables, locks, pic, exit>>
        BY <1>1, <1>6 DEF RestoreInterrupts
    <2>2. /\ t # <<>> /\ op \in Ops /\ Now(t) = Before(op) /\ op.op = "restore_interrupts"
        BY <1>2, <2>1
    <2>3. GoesOn /\ frames'[n].saved = frames[n].saved
        BY <1>4, <2>1
    <2>4. frames[n].saved \in BOOLEAN
        BY <1>1 DEF Frame
    <2>5. Flagged(op)
        BY <2>1, <2>2, <2>3, <2>4 DEF Flagged
    <2>6. LocksTaken(op) /\ SetUp(op)
        BY <1>3, <2>1, <2>2 DEF LocksTaken, SetUp
    <2> QED
        BY <1>1, <2>1, <2>2, <2>3, <2>5, <2>6
<1>7. ASSUME NEW name, At(name), frames' = Continue(Rest), enabled' = enabled,
             name \notin {"without_interrupts", "restore_interrupts"}
      PROVE  /\ t # <<>> /\ op \in Ops /\ Now(t) = Before(op) /\ op.op = name /\ NextOp = op
             /\ GoesOn /\ Flagged(op)
    <2>1. t # <<>> /\ op \in Ops /\ Now(t) = Before(op) /\ op.op = name /\ NextOp = op
        BY <1>2, <1>7
    <2>2. GoesOn /\ frames'[n].saved = frames[n].saved
        BY <1>4, <1>7
    <2>3. Flagged(op)
        BY <1>3, <1>7, <2>1, <2>2 DEF Flagged
    <2> QED
        BY <2>1, <2>2, <2>3
<1>8. CASE Acquire
    <2>1. At("lock") /\ frames' = Continue(Rest) /\ enabled' = enabled
          /\ locks' = locks \cup {NextOp.lock} /\ UNCHANGED <<entry, tables, pic, exit>>
        BY <1>8 DEF Acquire
    <2>2. /\ t # <<>> /\ op \in Ops /\ Now(t) = Before(op) /\ op.op = "lock" /\ NextOp = op
          /\ GoesOn /\ Flagged(op)
        BY <1>7, <2>1
    <2>3. LocksTaken(op) /\ SetUp(op)
        BY <1>3, <2>1, <2>2 DEF LocksTaken, SetUp
    <2> QED
        BY <1>1, <2>1, <2>2, <2>3
<1>9. CASE Release
    <2>1. At("unlock") /\ frames' = Continue(Rest) /\ enabled' = enabled
          /\ locks' = locks \ {NextOp.lock} /\ UNCHANGED <<entry, tables, pic, exit>>
        BY <1>9 DEF Release
    <2>2. /\ t # <<>> /\ op \in Ops /\ Now(t) = Before(op) /\ op.op = "unlock" /\ NextOp = op
          /\ GoesOn /\ Flagged(op)
        BY <1>7, <2>1
    <2>3. LocksTaken(op) /\ SetUp(op)
        BY <1>3, <2>1, <2>2 DEF LocksTaken, SetUp
    <2> QED
        BY <1>1, <2>1, <2>2, <2>3
<1>10. CASE WriteOne
    <2> DEFINE v == [op EXCEPT !.pos = @ + 1]
               u == <<v>> \o Rest
    <2>1. At("write") /\ UNCHANGED <<entry, enabled, tables, locks, pic, exit>>
        BY <1>10 DEF WriteOne
    <2>2. t # <<>> /\ op \in Ops /\ Now(t) = Before(op) /\ op.op = "write" /\ NextOp = op
          /\ Rest = Tail(t) /\ Rest \in Seq(Ops) /\ Remains(t, Rest)
        BY <1>2, <2>1
    <2>3. frames' \in {Continue(Rest), Continue(u)}
        BY <1>10, <2>2 DEF WriteOne
    <2>4. Remains(t, u) /\ u \in Seq(Ops)
        <3>1. Remains(t, <<v>> \o Tail(t))
            BY <1>1, <2>2, MessageGoesOn
        <3> QED
            BY <2>2, <3>1 DEF Remains
    <2> HIDE DEF u, v
    <2>5. GoesOn /\ frames'[n].saved = frames[n].saved
        BY <2>2, <2>3, <2>4, ContinuedFrames
    <2>6. Flagged(op)
        BY <1>3, <2>1, <2>2, <2>5 DEF Flagged
    <2>7. LocksTaken(op) /\ SetUp(op)
        BY <1>3, <2>1, <2>2 DEF LocksTaken, SetUp
    <2> QED
        BY <1>1, <2>1, <2>2, <2>5, <2>6, <2>7
<1>11. CASE LoadTables
    <2>1. PICK name \in {"load_tss", "load_idt"} :
            /\ At(name) /\ (name = "load_tss" => tables' = tables \cup {"tss"})
            /\ name = "load_idt" => tables' = tables \cup {"idt"}
        BY <1>11 DEF LoadTables
    <2>2. frames' = Continue(Rest) /\ enabled' = enabled /\ UNCHANGED <<entry, locks, pic, exit>>
        BY <1>11 DEF LoadTables
    <2>3. /\ t # <<>> /\ op \in Ops /\ Now(t) = Before(op) /\ op.op = name
          /\ GoesOn /\ Flagged(op)
        BY <1>7, <2>1, <2>2
    <2>4. LocksTaken(op) /\ SetUp(op)
        BY <1>3, <2>1, <2>2, <2>3 DEF LocksTaken, SetUp
    <2> QED
        BY <1>1, <2>1, <2>2, <2>3, <2>4
<1>12. CASE InitializePics
    <2>1. PICK irr \in {{}, pic.irr} : pic' = [offset |-> PIC_1_OFFSET, irr |-> irr, isr |-> {}]
        BY <1>12 DEF InitializePics
    <2>2. At("initialize_pics") /\ frames' = Continue(Rest) /\ enabled' = enabled
          /\ UNCHANGED <<entry, tables, locks, exit>>
        BY <1>12 DEF InitializePics
    <2>3. /\ t # <<>> /\ op \in Ops /\ Now(t) = Before(op) /\ op.op = "initialize_pics"
          /\ GoesOn /\ Flagged(op)
        BY <1>7, <2>2
    <2>4. LocksTaken(op)
        BY <2>2, <2>3 DEF LocksTaken
    <2>5. SetUp(op)
        BY <1>3, <2>1, <2>2, <2>3 DEF SetUp, PIC_1_OFFSET
    <2> QED
        BY <1>1, <2>2, <2>3, <2>4, <2>5
<1>13. CASE EnableInterrupts
    <2>1. At("enable_interrupts") /\ enabled' = TRUE /\ frames' = Continue(Rest)
          /\ UNCHANGED <<entry, tables, locks, pic, exit>>
        BY <1>13 DEF EnableInterrupts
    <2>2. t # <<>> /\ op \in Ops /\ Now(t) = Before(op) /\ op.op = "enable_interrupts"
        BY <1>2, <2>1
    <2>3. GoesOn /\ frames'[n].saved = frames[n].saved
        BY <1>4, <2>1
    <2>4. Flagged(op)
        BY <2>1, <2>2, <2>3 DEF Flagged
    <2>5. LocksTaken(op) /\ SetUp(op)
        BY <1>3, <2>1, <2>2 DEF LocksTaken, SetUp
    <2> QED
        BY <1>1, <2>1, <2>2, <2>3, <2>4, <2>5
<1>14. CASE EndOfInterrupt
    <2>1. At("end_of_interrupt") /\ frames' = Continue(Rest) /\ enabled' = enabled
          /\ UNCHANGED <<entry, tables, locks, exit>>
        BY <1>14 DEF EndOfInterrupt
    <2>2. \/ pic' = pic
          \/ pic' = [pic EXCEPT !.isr = {line \in @ : \E other \in @ : other < line}]
        BY <1>14 DEF EndOfInterrupt
    <2>3. /\ t # <<>> /\ op \in Ops /\ Now(t) = Before(op) /\ op.op = "end_of_interrupt"
          /\ GoesOn /\ Flagged(op)
        BY <1>7, <2>1
    <2>4. LocksTaken(op)
        BY <2>1, <2>3 DEF LocksTaken
    <2>5. /\ pic' \in [offset : Nat, irr : SUBSET {0, 1}, isr : SUBSET {0, 1}]
          /\ pic'.offset = pic.offset
        BY <1>3, <2>2
    <2>6. SetUp(op)
        BY <2>1, <2>3, <2>5 DEF SetUp
    <2> QED
        BY <1>1, <2>1, <2>3, <2>4, <2>6
<1> QED
    BY <1>5, <1>6, <1>8, <1>9, <1>10, <1>11, <1>12, <1>13, <1>14 DEF Flow

LEMMA RemainsIn ==
    ASSUME NEW S, NEW t \in Seq(S), t # <<>>, NEW u, Remains(t, u),
           \A other : SameKind(t[1], other) => other \in S
    PROVE  u \in Seq(S)
<1>1. u \in Seq(Ops) /\ Len(u) \in Nat /\ Len(t) \in Nat /\ Len(t) >= 1
    BY DEF Remains
<1>2. ASSUME NEW k \in 1..Len(u) PROVE u[k] \in S
    <2>1. CASE Len(u) = Len(t) - 1 /\ \A m \in 1..Len(t) - 1 : u[m] = t[m + 1]
        <3>1. k \in 1..Len(t) - 1 /\ k + 1 \in 1..Len(t)
            BY <1>1, <1>2, <2>1
        <3> QED
            BY <2>1, <3>1
    <2>2. CASE SameKind(t[1], u[1]) /\ Len(u) = Len(t) /\ \A m \in 2..Len(t) : u[m] = t[m]
        <3>1. CASE k = 1
            BY <2>2, <3>1
        <3>2. CASE k # 1
            <4>1. k \in 2..Len(t) /\ k \in 1..Len(t)
                BY <1>1, <1>2, <2>2, <3>2
            <4> QED
                BY <2>2, <4>1
        <3> QED
            BY <3>1, <3>2
    <2> QED
        BY <2>1, <2>2 DEF Remains
<1> QED
    BY <1>1, <1>2

\* Locks and mask after a step of the flow on top.
LEMMA LocksKept ==
    ASSUME NEW t, NEW u, t[1] \in Ops, Now(t) = Before(t[1]), Now(u) = After(t[1]),
           LocksTaken(t[1]), NEW extra, locks = Held(t) \cup extra,
           t[1].op \in {"lock", "unlock"} => t[1].lock # "KEYBOARD" /\ t[1].lock \notin extra
    PROVE  locks' = Held(u) \cup extra
<1> DEFINE op == t[1]
<1>1. locks = (Before(op) \ {"mask"}) \cup extra
    BY DEF Held
<1>2. Held(u) = After(op) \ {"mask"}
    BY DEF Held
<1>3. /\ op.op = "lock" => Before(op) \ {"mask"} = {} /\ After(op) \ {"mask"} = {op.lock}
      /\ op.op = "unlock" => Before(op) \ {"mask"} = {op.lock} /\ After(op) \ {"mask"} = {}
      /\ op.op \notin {"lock", "unlock"} => Before(op) \ {"mask"} = After(op) \ {"mask"}
    BY LocksFollow
<1> HIDE DEF op
<1>4. LocksTaken(op) /\ (op.op \in {"lock", "unlock"} => op.lock \notin extra)
    BY DEF op
<1>5. CASE op.op = "lock"
    BY <1>1, <1>2, <1>3, <1>4, <1>5 DEF LocksTaken
<1>6. CASE op.op = "unlock"
    BY <1>1, <1>2, <1>3, <1>4, <1>6 DEF LocksTaken
<1>7. CASE op.op \notin {"lock", "unlock"}
    BY <1>1, <1>2, <1>3, <1>4, <1>7 DEF LocksTaken
<1> QED
    BY <1>5, <1>6, <1>7

\* With interrupts off, and nothing saved that would switch them on again.
LEMMA StaysOff ==
    ASSUME NEW t, NEW u, t[1] \in Ops, Now(t) = Before(t[1]), Now(u) = After(t[1]),
           Flagged(t[1]), t[1].op # "enable_interrupts",
           ~enabled, Masked(t) => ~frames[Len(frames)].saved
    PROVE  ~enabled' /\ (Masked(u) => ~frames'[Len(frames)].saved)
<1> DEFINE op == t[1]
<1>1. CASE op.op = "without_interrupts"
    BY <1>1 DEF Flagged
<1>2. CASE op.op = "restore_interrupts"
    <2>1. Masked(t) /\ ~Masked(u)
        BY <1>2, MaskFollows DEF Masked
    <2> QED
        BY <1>2, <2>1 DEF Flagged
<1>3. CASE op.op \notin {"without_interrupts", "restore_interrupts"}
    <2>1. Masked(u) => Masked(t)
        BY <1>3, MaskFollows DEF Masked
    <2>2. ~enabled' /\ (frames'[Len(frames)].saved => frames[Len(frames)].saved)
        BY <1>3 DEF Flagged
    <2> QED
        BY <2>1, <2>2
<1> QED
    BY <1>1, <1>2, <1>3

LEMMA MaskMeansOff ==
    ASSUME NEW t, NEW u, t[1] \in Ops, Now(t) = Before(t[1]), Now(u) = After(t[1]),
           Flagged(t[1]), Masked(t) => ~enabled
    PROVE  Masked(u) => ~enabled'
<1> DEFINE op == t[1]
<1>1. CASE op.op = "without_interrupts"
    BY <1>1 DEF Flagged
<1>2. CASE op.op \in {"restore_interrupts", "enable_interrupts"}
    <2>1. ~Masked(u)
        BY <1>2, MaskFollows, Situations DEF Masked, Neutral, Idle
    <2> QED
        BY <2>1
<1>3. CASE op.op \notin {"without_interrupts", "restore_interrupts", "enable_interrupts"}
    <2>1. Masked(u) => Masked(t)
        BY <1>3, MaskFollows DEF Masked
    <2>2. enabled' => enabled
        BY <1>3 DEF Flagged
    <2> QED
        BY <2>1, <2>2
<1> QED
    BY <1>1, <1>2, <1>3

-----------------------------------------------------------------------------
(***************************************************************************)
(* What such a step does to the invariant.                                 *)
(***************************************************************************)
LEMMA FlowKeepsChains ==
    ASSUME StateOK, CodeOK, Len(frames) \in {1, 2}, Flow
    PROVE  StateOK' /\ CodeOK'
<1> DEFINE n == Len(frames)
<1>1. /\ GoesOn /\ Flagged(frames[n].todo[1]) /\ SetUp(frames[n].todo[1])
      /\ entry' = entry /\ exit' = exit
    BY FlowSteps
<1>2. StateOK'
    BY <1>1 DEF StateOK, GoesOn, Flagged, SetUp
<1>3. CodeOK'
    <2> SUFFICES ASSUME NEW i \in 1..Len(frames') PROVE Chained(frames'[i].todo)
        BY DEF CodeOK
    <2>1. i \in 1..n /\ Chained(frames[i].todo)
        BY <1>1 DEF GoesOn, CodeOK
    <2> QED
        BY <1>1, <2>1 DEF GoesOn, Remains
<1> QED
    BY <1>2, <1>3

LEMMA FailedFlows ==
    ASSUME StateOK, CodeOK, Failed, Flow
    PROVE  Failed'
<1> DEFINE t == frames[1].todo
           u == frames'[1].todo
           op == t[1]
<1>1. Len(frames) = 1 /\ ~enabled /\ t \in Seq(FinalOps) /\ (Masked(t) => ~frames[1].saved)
      /\ locks = Held(t) \cup {"WRITER"}
    BY DEF Failed
<1>2. /\ t # <<>> /\ op \in Ops /\ Now(t) = Before(op)
      /\ GoesOn /\ Flagged(op) /\ LocksTaken(op)
    BY <1>1, FlowSteps
<1>3. Len(frames') = 1 /\ Remains(t, u) /\ Now(u) = After(op)
    BY <1>1, <1>2 DEF GoesOn, Remains
<1>4. op \in FinalOps
    BY <1>1, <1>2
<1>5. u \in Seq(FinalOps)
    BY <1>1, <1>2, <1>3, <1>4, RemainsIn DEF SameKind
<1>6. locks' = Held(u) \cup {"WRITER"}
    <2>1. op.op \in {"lock", "unlock"} => op.lock # "KEYBOARD" /\ op.lock \notin {"WRITER"}
        BY <1>4, LockNames
    <2> QED
        BY <1>1, <1>2, <1>3, <2>1, LocksKept
<1>7. ~enabled' /\ (Masked(u) => ~frames'[1].saved)
    <2>1. op.op # "enable_interrupts"
        BY <1>4, Kinds
    <2> QED
        BY <1>1, <1>2, <1>3, <2>1, StaysOff
<1> QED
    BY <1>3, <1>5, <1>6, <1>7 DEF Failed

LEMMA ReadyStays ==
    ASSUME Ready, NEW op, SetUp(op)
    PROVE  Ready'
    BY DEF Ready, SetUp

LEMMA RunningFlows ==
    ASSUME StateOK, CodeOK, Running, Flow
    PROVE  Running'
<1> DEFINE t == frames[1].todo
           u == frames'[1].todo
           op == t[1]
           S == RunOps(entry)
<1>1. /\ Len(frames) = 1 /\ Ready /\ t \in Seq(S) /\ (Masked(t) => ~enabled)
      /\ locks = Held(t) \cup {}
    BY DEF Running
<1>2. /\ t # <<>> /\ op \in Ops /\ Now(t) = Before(op) /\ entry' = entry
      /\ GoesOn /\ Flagged(op) /\ LocksTaken(op) /\ SetUp(op)
    BY <1>1, FlowSteps
<1>3. Len(frames') = 1 /\ Remains(t, u) /\ Now(u) = After(op)
    BY <1>1, <1>2 DEF GoesOn, Remains
<1>4. op \in S
    BY <1>1, <1>2
<1>5. u \in Seq(RunOps(entry))
    BY <1>1, <1>2, <1>3, <1>4, RemainsIn DEF SameKind
<1>6. locks' = Held(u) \cup {}
    <2>1. op.op \in {"lock", "unlock"} => op.lock # "KEYBOARD" /\ op.lock \notin {}
        BY <1>4, LockNames DEF RunOps, Devices
    <2> QED
        BY <1>1, <1>2, <1>3, <2>1, LocksKept
<1>7. Masked(u) => ~enabled'
    BY <1>1, <1>2, <1>3, MaskMeansOff
<1>8. Ready'
    BY <1>1, <1>2, ReadyStays
<1> QED
    BY <1>2, <1>3, <1>5, <1>6, <1>7, <1>8 DEF Running

LEMMA StartingFlows ==
    ASSUME StateOK, CodeOK, Starting, Flow
    PROVE  Starting' \/ Running'
<1> DEFINE t == frames[1].todo
           u == frames'[1].todo
           op == t[1]
<1>1. /\ Len(frames) = 1 /\ ~enabled /\ (Masked(t) => ~frames[1].saved)
      /\ locks = Held(t) \cup {}
    BY DEF Starting
<1>2. PICK k \in 1..Len(t) :
        /\ t[k] = Op("enable_interrupts")
        /\ \A m \in 1..k - 1 : t[m] \in StartOps
        /\ \A m \in k + 1..Len(t) : t[m] \in RunOps(entry)
        /\ "tss" \in tables \/ Ahead(t, k, "load_tss")
        /\ "idt" \in tables \/ Ahead(t, k, "load_idt")
        /\ pic.offset = PIC_1_OFFSET \/ Ahead(t, k, "initialize_pics")
    BY DEF Starting
<1>3. /\ t # <<>> /\ t \in Seq(Ops) /\ op \in Ops /\ Now(t) = Before(op) /\ entry' = entry
      /\ GoesOn /\ Flagged(op) /\ LocksTaken(op) /\ SetUp(op)
    BY <1>1, FlowSteps
<1>4. Len(frames') = 1 /\ Remains(t, u) /\ Now(u) = After(op) /\ u \in Seq(Ops)
    BY <1>1, <1>3 DEF GoesOn, Remains
<1>5. Len(t) \in Nat /\ Len(t) >= 1 /\ Len(u) \in Nat
    BY <1>3, <1>4
<1>6. \/ Len(u) = Len(t) - 1 /\ \A m \in 1..Len(t) - 1 : u[m] = t[m + 1]
      \/ op.op = "write" /\ SameKind(op, u[1]) /\ Len(u) = Len(t) /\ \A m \in 2..Len(t) : u[m] = t[m]
    BY <1>4 DEF Remains
<1>7. CASE k = 1
    <2>1. op = Op("enable_interrupts") /\ op.op = "enable_interrupts"
        BY <1>2, <1>7 DEF Op
    <2>2. Len(u) = Len(t) - 1 /\ \A m \in 1..Len(t) - 1 : u[m] = t[m + 1]
        BY <1>6, <2>1
    <2>3. u \in Seq(RunOps(entry))
        <3>1. ASSUME NEW m \in 1..Len(u) PROVE u[m] \in RunOps(entry)
            <4>1. m \in 1..Len(t) - 1 /\ m + 1 \in k + 1..Len(t)
                BY <1>5, <1>7, <2>2
            <4> QED
                BY <1>2, <2>2, <4>1
        <3> HIDE DEF u
        <3> QED
            BY <1>4, <3>1
    <2>4. locks' = Held(u) \cup {}
        BY <1>1, <1>3, <1>4, <2>1, LocksKept
    <2>5. ~Masked(u)
        BY <1>4, <2>1, Situations DEF Masked, Neutral, Idle
    <2>6. Ready'
        <3>1. \A name : ~Ahead(t, k, name)
            BY <1>7 DEF Ahead
        <3>2. Ready
            BY <1>2, <3>1 DEF Ready
        <3> QED
            BY <1>3, <3>2, ReadyStays
    <2>7. Running'
        BY <1>3, <1>4, <2>3, <2>4, <2>5, <2>6 DEF Running
    <2> QED
        BY <2>7
<1>8. CASE k # 1
    <2>1. 1 \in 1..k - 1 /\ op \in StartOps
        <3>1. 1 \in 1..k - 1
            BY <1>2, <1>5, <1>8
        <3> QED
            BY <1>2, <3>1
    <2>2. ~enabled' /\ (Masked(u) => ~frames'[1].saved)
        <3>1. op.op # "enable_interrupts"
            BY <2>1, Kinds
        <3> QED
            BY <1>1, <1>3, <1>4, <3>1, StaysOff
    <2>3. locks' = Held(u) \cup {}
        <3>1. op.op \in {"lock", "unlock"} => op.lock # "KEYBOARD" /\ op.lock \notin {}
            BY <2>1, LockNames
        <3> QED
            BY <1>1, <1>3, <1>4, <3>1, LocksKept
    <2> DEFINE Shape(j) ==
                    /\ u[j] = Op("enable_interrupts")
                    /\ \A m \in 1..j - 1 : u[m] \in StartOps
                    /\ \A m \in j + 1..Len(u) : u[m] \in RunOps(entry)
                    /\ "tss" \in tables' \/ Ahead(u, j, "load_tss")
                    /\ "idt" \in tables' \/ Ahead(u, j, "load_idt")
                    /\ pic'.offset = PIC_1_OFFSET \/ Ahead(u, j, "initialize_pics")
    <2>4. \E j \in 1..Len(u) : Shape(j)
        <3>1. CASE Len(u) = Len(t) - 1 /\ \A m \in 1..Len(t) - 1 : u[m] = t[m + 1]
            <4> DEFINE j == k - 1
            <4>1. j \in 1..Len(u) /\ j \in 1..Len(t) - 1 /\ j + 1 = k
                BY <1>5, <1>8, <3>1
            <4>2. u[j] = Op("enable_interrupts")
                BY <1>2, <3>1, <4>1
            <4>3. ASSUME NEW m \in 1..j - 1 PROVE u[m] \in StartOps
                <5>1. m \in 1..Len(t) - 1 /\ m + 1 \in 1..k - 1
                    BY <1>5, <4>1
                <5> QED
                    BY <1>2, <3>1, <5>1
            <4>4. ASSUME NEW m \in j + 1..Len(u) PROVE u[m] \in RunOps(entry)
                <5>1. m \in 1..Len(t) - 1 /\ m + 1 \in k + 1..Len(t)
                    BY <1>5, <3>1, <4>1
                <5> QED
                    BY <1>2, <3>1, <5>1
            <4>5. ASSUME NEW name, Ahead(t, k, name), op # Op(name) PROVE Ahead(u, j, name)
                <5>1. PICK m \in 1..k - 1 : t[m] = Op(name)
                    BY <4>5 DEF Ahead
                <5>2. m # 1
                    BY <4>5, <5>1
                <5>3. m - 1 \in 1..j - 1 /\ m - 1 \in 1..Len(t) - 1 /\ (m - 1) + 1 = m
                    BY <1>5, <5>2
                <5>4. u[m - 1] = Op(name)
                    BY <3>1, <5>1, <5>3
                <5> QED
                    BY <5>3, <5>4 DEF Ahead
            <4>6. "tss" \in tables' \/ Ahead(u, j, "load_tss")
                <5>1. op = Op("load_tss") => op.op = "load_tss"
                    BY DEF Op
                <5> QED
                    BY <1>2, <1>3, <4>5, <5>1 DEF SetUp
            <4>7. "idt" \in tables' \/ Ahead(u, j, "load_idt")
                <5>1. op = Op("load_idt") => op.op = "load_idt"
                    BY DEF Op
                <5> QED
                    BY <1>2, <1>3, <4>5, <5>1 DEF SetUp
            <4>8. pic'.offset = PIC_1_OFFSET \/ Ahead(u, j, "initialize_pics")
                <5>1. op = Op("initialize_pics") => op.op = "initialize_pics"
                    BY DEF Op
                <5> QED
                    BY <1>2, <1>3, <4>5, <5>1 DEF SetUp
            <4> HIDE DEF j
            <4>9. Shape(j)
                BY <4>2, <4>3, <4>4, <4>6, <4>7, <4>8
            <4> HIDE DEF Shape
            <4> QED
                BY <4>1, <4>9
        <3>2. CASE op.op = "write" /\ SameKind(op, u[1]) /\ Len(u) = Len(t)
                   /\ \A m \in 2..Len(t) : u[m] = t[m]
            <4>1. k \in 2..Len(t) /\ k \in 1..Len(u)
                BY <1>5, <1>8, <3>2
            <4>2. u[k] = Op("enable_interrupts")
                BY <1>2, <3>2, <4>1
            <4>3. ASSUME NEW m \in 1..k - 1 PROVE u[m] \in StartOps
                <5>1. CASE m = 1
                    BY <2>1, <3>2, <5>1 DEF SameKind
                <5>2. CASE m # 1
                    <6>1. m \in 2..Len(t)
                        BY <1>5, <4>1, <5>2
                    <6> QED
                        BY <1>2, <3>2, <6>1
                <5> QED
                    BY <5>1, <5>2
            <4>4. ASSUME NEW m \in k + 1..Len(u) PROVE u[m] \in RunOps(entry)
                <5>1. m \in 2..Len(t) /\ m \in k + 1..Len(t)
                    BY <1>5, <3>2, <4>1
                <5> QED
                    BY <1>2, <3>2, <5>1
            <4>5. ASSUME NEW name, Ahead(t, k, name), name # "write" PROVE Ahead(u, k, name)
                <5>1. PICK m \in 1..k - 1 : t[m] = Op(name)
                    BY <4>5 DEF Ahead
                <5>2. m # 1
                    <6>1. Op(name).op = name
                        BY DEF Op
                    <6> QED
                        BY <3>2, <4>5, <5>1, <6>1
                <5>3. m \in 2..Len(t)
                    BY <1>5, <4>1, <5>2
                <5> QED
                    BY <3>2, <5>1, <5>3 DEF Ahead
            <4>6. /\ "tss" \in tables' \/ Ahead(u, k, "load_tss")
                  /\ "idt" \in tables' \/ Ahead(u, k, "load_idt")
                  /\ pic'.offset = PIC_1_OFFSET \/ Ahead(u, k, "initialize_pics")
                BY <1>2, <1>3, <4>5 DEF SetUp
            <4>7. Shape(k)
                BY <4>2, <4>3, <4>4, <4>6
            <4> HIDE DEF Shape
            <4> QED
                BY <4>1, <4>7
        <3> QED
            BY <1>6, <3>1, <3>2
    <2>5. Starting'
        BY <1>3, <1>4, <2>2, <2>3, <2>4 DEF Starting, Ahead
    <2> QED
        BY <2>5
<1> QED
    BY <1>7, <1>8

LEMMA KeyboardFollows ==
    ASSUME NEW t \in Seq(HandlerOps), t # <<>>, KeyboardHandled(t), NEW u, Remains(t, u)
    PROVE  /\ KeyboardHandled(u)
           /\ t[1] = Lock("KEYBOARD") => ~KeyboardHeld(t) /\ KeyboardHeld(u)
           /\ t[1] = Unlock("KEYBOARD") => KeyboardHeld(t) /\ ~KeyboardHeld(u)
           /\ t[1] \notin {Lock("KEYBOARD"), Unlock("KEYBOARD")} => (KeyboardHeld(u) <=> KeyboardHeld(t))
<1> DEFINE lock == Lock("KEYBOARD")
           unlock == Unlock("KEYBOARD")
<1>1. lock # unlock /\ lock.op = "lock" /\ unlock.op = "unlock"
    BY DEF Lock, Unlock
<1>2. lock \notin PlainOps /\ unlock \notin PlainOps
    BY PlainIsNotKeyboard
<1>3. /\ Len(t) \in Nat /\ Len(t) >= 1 /\ Len(u) \in Nat /\ t[1] \in HandlerOps
      /\ u = <<>> <=> Len(u) = 0
    BY DEF Remains
<1>4. \A k \in 1..Len(t) : t[k] \notin PlainOps =>
        \/ t[k].op = "panic" /\ Len(t) = 1
        \/ /\ t[Len(t)] = unlock /\ t[k].op # "panic"
           /\ t[k] = lock => k = 1
           /\ t[k] = unlock => k = Len(t)
    BY DEF KeyboardHandled
<1>5. KeyboardHeld(t) <=> t[Len(t)] = unlock /\ t[1] # lock
    BY DEF KeyboardHeld
<1>6. KeyboardHeld(u) <=> Len(u) # 0 /\ u[Len(u)] = unlock /\ u[1] # lock
    BY <1>3 DEF KeyboardHeld
<1> HIDE DEF lock, unlock
<1>7. CASE Len(u) = Len(t) - 1 /\ \A m \in 1..Len(t) - 1 : u[m] = t[m + 1]
    <2>1. ASSUME NEW k \in 1..Len(u), u[k] \notin PlainOps
          PROVE  /\ u[Len(u)] = unlock /\ u[k].op # "panic"
                 /\ u[k] # lock /\ (u[k] = unlock => k = Len(u))
        <3>1. k \in 1..Len(t) - 1 /\ k + 1 \in 1..Len(t) /\ k + 1 # 1 /\ Len(t) # 1
              /\ Len(t) - 1 \in 1..Len(t) - 1 /\ (Len(t) - 1) + 1 = Len(t)
            BY <1>3, <1>7
        <3>2. u[k] = t[k + 1] /\ u[Len(u)] = t[Len(t)]
            BY <1>7, <3>1
        <3>3. t[Len(t)] = unlock /\ t[k + 1].op # "panic" /\ t[k + 1] # lock /\ (t[k + 1] = unlock => k + 1 = Len(t))
            <4> DEFINE m == k + 1
            <4>1. m \in 1..Len(t) /\ m # 1 /\ Len(t) # 1 /\ t[m] \notin PlainOps
                BY <2>1, <3>1, <3>2
            <4> HIDE DEF m
            <4>2. t[Len(t)] = unlock /\ t[m].op # "panic" /\ t[m] # lock /\ (t[m] = unlock => m = Len(t))
                BY <1>4, <4>1
            <4> QED
                BY <4>2 DEF m
        <3>4. k + 1 = Len(t) => k = Len(u)
            BY <1>3, <1>7
        <3> QED
            BY <3>2, <3>3, <3>4
    <2>2. KeyboardHandled(u)
        BY <2>1 DEF KeyboardHandled, lock, unlock
    <2>3. ASSUME Len(t) # 1
          PROVE  Len(u) # 0 /\ u[Len(u)] = t[Len(t)] /\ u[1] # lock
        <3>1. Len(u) # 0 /\ 1 \in 1..Len(u) /\ Len(u) \in 1..Len(t) - 1 /\ Len(u) + 1 = Len(t)
            BY <1>3, <1>7, <2>3
        <3> QED
            BY <1>2, <1>7, <2>1, <3>1
    <2>4. CASE t[1] = lock
        <3>1. t[Len(t)] = unlock
            BY <1>1, <1>2, <1>3, <1>4, <2>4
        <3> QED
            BY <1>1, <1>5, <1>6, <2>2, <2>3, <2>4, <3>1 DEF lock, unlock
    <2>5. CASE t[1] = unlock
        <3>1. Len(t) = 1 /\ Len(u) = 0
            BY <1>1, <1>2, <1>3, <1>4, <1>7, <2>5
        <3> QED
            BY <1>1, <1>5, <1>6, <2>2, <2>5, <3>1 DEF lock, unlock
    <2>6. CASE t[1] \notin {lock, unlock}
        <3>1. CASE Len(t) = 1
            <4>1. Len(u) = 0
                BY <1>7, <3>1
            <4> QED
                BY <1>5, <1>6, <2>2, <2>6, <3>1, <4>1 DEF lock, unlock
        <3>2. CASE Len(t) # 1
            BY <1>5, <1>6, <2>2, <2>3, <2>6, <3>2 DEF lock, unlock
        <3> QED
            BY <3>1, <3>2
    <2> QED
        BY <2>4, <2>5, <2>6
<1>8. CASE t[1].op = "write" /\ SameKind(t[1], u[1]) /\ Len(u) = Len(t) /\ \A m \in 2..Len(t) : u[m] = t[m]
    <2>1. t[1] \in PlainOps /\ u[1] \in PlainOps
        <3>1. \A names : \A op \in Locking(names) \cup Named({"read_scancode", "panic"}) : op.op # "write"
            BY DEF Locking, Named
        <3>2. t[1] \in PlainOps
            BY <1>3, <1>8, <3>1 DEF HandlerOps
        <3> QED
            BY <1>8, <3>2 DEF SameKind
    <2>2. ASSUME NEW k \in 1..Len(u), u[k] \notin PlainOps
          PROVE  /\ u[Len(u)] = unlock /\ u[k].op # "panic"
                 /\ u[k] # lock /\ (u[k] = unlock => k = Len(u))
        <3>1. k # 1
            BY <2>1, <2>2
        <3>2. k \in 2..Len(t) /\ k \in 1..Len(t) /\ Len(t) \in 2..Len(t) /\ Len(t) # 1
            BY <1>3, <1>8, <3>1
        <3>3. u[k] = t[k] /\ u[Len(u)] = t[Len(t)]
            BY <1>8, <3>2
        <3> QED
            BY <1>4, <1>8, <2>2, <3>1, <3>2, <3>3
    <2>3. KeyboardHandled(u)
        BY <2>2 DEF KeyboardHandled, lock, unlock
    <2>4. u[1] # lock /\ t[1] # lock /\ u[1] # unlock /\ t[1] # unlock
        BY <1>2, <2>1
    <2>5. KeyboardHeld(u) <=> KeyboardHeld(t)
        <3>1. CASE Len(t) = 1
            BY <1>5, <1>6, <1>8, <2>4, <3>1
        <3>2. CASE Len(t) # 1
            <4>1. Len(t) \in 2..Len(t) /\ Len(u) # 0
                BY <1>3, <1>8, <3>2
            <4>2. u[Len(u)] = t[Len(t)]
                BY <1>8, <4>1
            <4> QED
                BY <1>5, <1>6, <2>4, <4>1, <4>2
        <3> QED
            BY <3>1, <3>2
    <2> QED
        BY <2>3, <2>4, <2>5 DEF lock, unlock
<1> QED
    BY <1>7, <1>8 DEF Remains

LEMMA HandlingFlows ==
    ASSUME StateOK, CodeOK, Handling, Flow
    PROVE  Handling'
<1> DEFINE t == frames[2].todo
           u == frames'[2].todo
           op == t[1]
           key == Lock("KEYBOARD")
           unkey == Unlock("KEYBOARD")
<1>1. /\ Len(frames) = 2 /\ Ready /\ ~enabled
      /\ frames[1].todo \in Seq(RunOps(entry)) /\ Now(frames[1].todo) = Idle
      /\ t \in Seq(HandlerOps) /\ KeyboardHandled(t) /\ (Masked(t) => ~frames[2].saved)
      /\ locks = Held(t) \cup IF KeyboardHeld(t) THEN {"KEYBOARD"} ELSE {}
    BY DEF Handling
<1>2. /\ t # <<>> /\ op \in Ops /\ Now(t) = Before(op) /\ entry' = entry
      /\ GoesOn /\ Flagged(op) /\ LocksTaken(op) /\ SetUp(op)
    BY <1>1, FlowSteps
<1>3. Len(frames') = 2 /\ Remains(t, u) /\ Now(u) = After(op) /\ frames'[1] = frames[1]
    BY <1>1, <1>2 DEF GoesOn, Remains
<1>4. op \in HandlerOps
    BY <1>1, <1>2
<1>5. u \in Seq(HandlerOps)
    BY <1>1, <1>2, <1>3, <1>4, RemainsIn DEF SameKind
<1>6. ~enabled' /\ (Masked(u) => ~frames'[2].saved)
    <2>1. op.op # "enable_interrupts"
        BY <1>4, Kinds
    <2> QED
        BY <1>1, <1>2, <1>3, <2>1, StaysOff
<1>7. /\ KeyboardHandled(u)
      /\ op = key => ~KeyboardHeld(t) /\ KeyboardHeld(u)
      /\ op = unkey => KeyboardHeld(t) /\ ~KeyboardHeld(u)
      /\ op \notin {key, unkey} => (KeyboardHeld(u) <=> KeyboardHeld(t))
    BY <1>1, <1>2, <1>3, KeyboardFollows
<1>8. /\ key.op = "lock" /\ key.lock = "KEYBOARD" /\ unkey.op = "unlock" /\ unkey.lock = "KEYBOARD"
    BY DEF Lock, Unlock
<1>9. locks' = Held(u) \cup IF KeyboardHeld(u) THEN {"KEYBOARD"} ELSE {}
    <2>1. CASE op \in {key, unkey}
        <3>1. Now(t) = {} /\ Now(u) = {}
            BY <1>2, <1>3, <2>1, LockSituations DEF Idle
        <3>2. Held(t) = {} /\ Held(u) = {}
            BY <3>1 DEF Held
        <3>3. CASE op = key
            BY <1>1, <1>2, <1>7, <1>8, <3>2, <3>3 DEF LocksTaken
        <3>4. CASE op = unkey
            BY <1>1, <1>2, <1>7, <1>8, <3>2, <3>4 DEF LocksTaken
        <3> QED
            BY <2>1, <3>3, <3>4
    <2>2. CASE op \notin {key, unkey}
        <3>1. ASSUME NEW extra \in {{}, {"KEYBOARD"}}, locks = Held(t) \cup extra
              PROVE  locks' = Held(u) \cup extra
            <4>1. op.op \in {"lock", "unlock"} => op.lock # "KEYBOARD" /\ op.lock \notin extra
                <5>1. op.op \in {"lock", "unlock"} =>
                        op = [op |-> op.op, lock |-> op.lock] /\ op.lock \in Devices \cup {"PICS", "KEYBOARD"}
                    BY <1>2, LockNames
                <5>2. op.op \in {"lock", "unlock"} => op.lock # "KEYBOARD"
                    BY <2>2, <5>1 DEF Lock, Unlock
                <5> QED
                    BY <3>1, <5>2
            <4> QED
                BY <1>2, <1>3, <3>1, <4>1, LocksKept
        <3>2. KeyboardHeld(u) <=> KeyboardHeld(t)
            BY <1>7, <2>2
        <3>3. CASE KeyboardHeld(t)
            BY <1>1, <3>1, <3>2, <3>3
        <3>4. CASE ~KeyboardHeld(t)
            BY <1>1, <3>1, <3>2, <3>4
        <3> QED
            BY <3>3, <3>4
    <2> QED
        BY <2>1, <2>2
<1>10. Ready'
    BY <1>1, <1>2, ReadyStays
<1>11. frames'[1].todo \in Seq(RunOps(entry')) /\ Now(frames'[1].todo) = Idle
    BY <1>1, <1>2, <1>3
<1> HIDE DEF key, unkey
<1> QED
    BY <1>3, <1>5, <1>6, <1>7, <1>9, <1>10, <1>11 DEF Handling

-----------------------------------------------------------------------------
(***************************************************************************)
(* The operations that put other code in the place of their own.           *)
(***************************************************************************)
\* Nothing the modes speak of changes.
LEMMA Undisturbed ==
    ASSUME Starting \/ Running \/ Handling \/ Failed,
           UNCHANGED <<frames, entry, enabled, tables, locks>>, pic'.offset = pic.offset
    PROVE  Starting' \/ Running' \/ Handling' \/ Failed'
<1>1. CASE Starting
    BY <1>1 DEF Starting
<1>2. CASE Running
    BY <1>2 DEF Running, Ready
<1>3. CASE Handling
    BY <1>3 DEF Handling, Ready
<1>4. CASE Failed
    BY <1>4 DEF Failed
<1> QED
    BY <1>1, <1>2, <1>3, <1>4

LEMMA CodeReplaced ==
    ASSUME StateOK, CodeOK, Len(frames) \in {1, 2}, NEW u \in Seq(Ops), Chained(u),
           frames' = Continue(u), UNCHANGED <<entry, enabled, exit>>,
           pic' \in [offset : Nat, irr : SUBSET {0, 1}, isr : SUBSET {0, 1}]
    PROVE  LET n == Len(frames) IN
           /\ StateOK' /\ CodeOK' /\ Len(frames') = n
           /\ frames'[n].todo = u /\ frames'[n].saved = frames[n].saved
           /\ \A i \in 1..n : i # n => frames'[i] = frames[i]
<1> DEFINE n == Len(frames)
           f == Continue(u)
<1>1. /\ f \in Seq(Frame) /\ Len(f) = n
      /\ f[n].todo = u /\ f[n].saved = frames[n].saved
      /\ \A i \in 1..n : i # n => f[i] = frames[i]
    BY Continued
<1>2. frames' = f
    OBVIOUS
<1> HIDE DEF f
<1>3. StateOK'
    BY <1>1, <1>2 DEF StateOK
<1>4. CodeOK'
    BY <1>1, <1>2 DEF CodeOK
<1> QED
    BY <1>1, <1>2, <1>3, <1>4

\* Where the operations below are found.
LEMMA Places ==
    ASSUME StateOK, CodeOK, Starting \/ Running \/ Handling \/ Failed
    PROVE  LET n == Len(frames)
               t == frames[n].todo IN
           /\ n \in {1, 2} /\ (Handling <=> n = 2)
           /\ t # <<>> =>
                /\ t[1].op \in {"read_scancode", "end_of_interrupt"} => Handling
                /\ t[1].op \in {"int3", "overflow_stack", "assert_row", "for_test"} =>
                        Running /\ t[1] \in TestOps /\ entry # "main"
                /\ t[1].op = "panic" => Running \/ Handling
<1>1. CASE Starting
    <2> DEFINE t == frames[1].todo
    <2>1. Len(frames) = 1
        BY <1>1 DEF Starting
    <2>2. ASSUME t # <<>>
          PROVE  t[1].op \notin {"read_scancode", "end_of_interrupt", "int3", "overflow_stack",
                                 "assert_row", "for_test", "panic"}
        <3>1. PICK k \in 1..Len(t) :
                t[k] = Op("enable_interrupts") /\ \A m \in 1..k - 1 : t[m] \in StartOps
            BY <1>1 DEF Starting
        <3>2. CASE k = 1
            BY <3>1, <3>2 DEF Op
        <3>3. CASE k # 1
            <4>1. 1 \in 1..k - 1
                BY <3>3
            <4>2. t[1] \in StartOps
                BY <3>1, <4>1
            <4> QED
                BY <4>2, Kinds
        <3> QED
            BY <3>2, <3>3
    <2>3. ~Handling
        BY <2>1 DEF Handling
    <2> QED
        BY <2>1, <2>2, <2>3
<1>2. CASE Running
    <2> DEFINE t == frames[1].todo
    <2>1. Len(frames) = 1 /\ t \in Seq(RunOps(entry))
        BY <1>2 DEF Running
    <2>2. ASSUME t # <<>>
          PROVE  /\ t[1].op \notin {"read_scancode", "end_of_interrupt"}
                 /\ t[1].op \in {"int3", "overflow_stack", "assert_row", "for_test"} =>
                        t[1] \in TestOps /\ entry # "main"
        <3>1. t[1] \in RunOps(entry)
            BY <2>1, <2>2
        <3>2. t[1] \in PanicOps \/ (t[1] \in TestOps /\ entry # "main")
            BY <3>1 DEF RunOps
        <3> QED
            BY <3>2, Kinds
    <2>3. ~Handling
        BY <2>1 DEF Handling
    <2> QED
        BY <1>2, <2>1, <2>2, <2>3
<1>3. CASE Handling
    <2> DEFINE t == frames[2].todo
    <2>1. Len(frames) = 2 /\ t \in Seq(HandlerOps)
        BY <1>3 DEF Handling
    <2>2. ASSUME t # <<>>
          PROVE  t[1].op \notin {"int3", "overflow_stack", "assert_row", "for_test"}
        <3>1. t[1] \in HandlerOps
            BY <2>1, <2>2
        <3> QED
            BY <3>1, Kinds
    <2> QED
        BY <1>3, <2>1, <2>2
<1>4. CASE Failed
    <2> DEFINE t == frames[1].todo
    <2>1. Len(frames) = 1 /\ t \in Seq(FinalOps)
        BY <1>4 DEF Failed
    <2>2. ASSUME t # <<>>
          PROVE  t[1].op \notin {"read_scancode", "end_of_interrupt", "int3", "overflow_stack",
                                 "assert_row", "for_test", "panic"}
        <3>1. t[1] \in FinalOps
            BY <2>1, <2>2
        <3> QED
            BY <3>1, Kinds
    <2>3. ~Handling
        BY <2>1 DEF Handling
    <2> QED
        BY <2>1, <2>2, <2>3
<1> QED
    BY <1>1, <1>2, <1>3, <1>4

\* The operation an action takes.
LEMMA Taken ==
    ASSUME StateOK, CodeOK, Len(frames) \in {1, 2}, NEW name, At(name)
    PROVE  LET t == frames[Len(frames)].todo IN
           /\ t # <<>> /\ t \in Seq(Ops) /\ t[1] \in Ops /\ t[1].op = name /\ NextOp = t[1]
           /\ Rest = Tail(t) /\ Rest \in Seq(Ops) /\ Chained(Rest) /\ Remains(t, Rest)
           /\ Now(t) = Before(t[1]) /\ Now(Rest) = After(t[1])
<1> DEFINE t == frames[Len(frames)].todo
<1>1. /\ Top = frames[Len(frames)] /\ t \in Seq(Ops) /\ Chained(t)
      /\ t # <<>> => /\ NextOp = t[1] /\ Rest = Tail(t) /\ t[1] \in Ops /\ Now(t) = Before(t[1])
    BY TopFrame
<1>2. t # <<>> /\ t[1].op = name
    BY <1>1 DEF At
<1>3. Remains(t, Tail(t))
    BY <1>1, <1>2, RestRemains
<1> QED
    BY <1>1, <1>2, <1>3 DEF Remains

LEMMA PanicSteps ==
    ASSUME StateOK, CodeOK, Running \/ Handling, Panic
    PROVE  StateOK' /\ CodeOK' /\ (Running' \/ Handling')
<1> DEFINE n == Len(frames)
           t == frames[n].todo
<1>1. n \in {1, 2}
    BY DEF Running, Handling
<1>2. t # <<>> /\ t \in Seq(Ops) /\ t[1] \in Ops /\ t[1].op = "panic" /\ Now(t) = Before(t[1])
    BY <1>1, Taken DEF Panic
<1>3. Now(t) = {}
    BY <1>2, Situations DEF Neutral, Idle
<1>4. panic \in Seq(PanicOps) /\ panic \in Seq(Ops) /\ Chained(panic) /\ Now(panic) = {}
    <2>1. Block(panic, PanicOps)
        BY PanicIsABlock
    <2>2. Block(panic, Ops)
        BY <2>1, Wider, WiderBlock
    <2> QED
        BY <2>1, <2>2 DEF Block, Idle
<1>5. /\ frames' = Continue(panic)
      /\ UNCHANGED <<entry, enabled, tables, locks, pic, exit>>
    BY DEF Panic
<1>6. /\ StateOK' /\ CodeOK' /\ Len(frames') = n
      /\ frames'[n].todo = panic /\ frames'[n].saved = frames[n].saved
      /\ \A i \in 1..n : i # n => frames'[i] = frames[i]
    <2>1. pic' \in [offset : Nat, irr : SUBSET {0, 1}, isr : SUBSET {0, 1}]
        BY <1>5 DEF StateOK
    <2> QED
        BY <1>1, <1>4, <1>5, <2>1, CodeReplaced
<1>7. ~Masked(panic) /\ Held(panic) = {} /\ Held(t) = {}
    BY <1>3, <1>4 DEF Masked, Held
<1>8. CASE Running
    <2>1. n = 1 /\ Ready /\ locks = {}
        BY <1>7, <1>8 DEF Running
    <2>2. panic \in Seq(RunOps(entry'))
        <3>1. PanicOps \subseteq RunOps(entry')
            BY Wider
        <3> HIDE DEF panic
        <3> QED
            BY <1>4, <3>1
    <2>3. Ready'
        BY <1>5, <2>1 DEF Ready
    <2> QED
        BY <1>5, <1>6, <1>7, <2>1, <2>2, <2>3 DEF Running
<1>9. CASE Handling
    <2>1. /\ n = 2 /\ Ready /\ ~enabled
          /\ frames[1].todo \in Seq(RunOps(entry)) /\ Now(frames[1].todo) = Idle
          /\ t \in Seq(HandlerOps) /\ KeyboardHandled(t)
          /\ locks = Held(t) \cup IF KeyboardHeld(t) THEN {"KEYBOARD"} ELSE {}
        BY <1>9 DEF Handling
    <2>2. ~KeyboardHeld(t)
        <3>1. 1 \in 1..Len(t)
            BY <1>2
        <3>2. t[1] \notin PlainOps
            <4>1. \A op \in PlainOps : op.op # "panic"
                BY Kinds DEF PlainOps, Locking
            <4> QED
                BY <1>2, <4>1
        <3>3. Len(t) = 1
            BY <1>2, <2>1, <3>1, <3>2 DEF KeyboardHandled
        <3>4. t[1] # Unlock("KEYBOARD")
            BY <1>2 DEF Unlock
        <3> QED
            BY <3>3, <3>4 DEF KeyboardHeld
    <2>3. panic \in Seq(PlainOps) /\ panic \in Seq(HandlerOps)
        <3>1. PanicOps \subseteq PlainOps /\ PanicOps \subseteq HandlerOps
            BY Wider DEF PlainOps
        <3> QED
            BY <1>4, <3>1
    <2>4. KeyboardHandled(panic) /\ ~KeyboardHeld(panic)
        BY <2>3, PlainIsHandled
    <2>5. frames'[1] = frames[1] /\ Ready'
        BY <1>5, <1>6, <2>1 DEF Ready
    <2> QED
        BY <1>5, <1>6, <1>7, <2>1, <2>2, <2>3, <2>4, <2>5 DEF Handling
<1> QED
    BY <1>8, <1>9

\* Text printed while the keyboard's lock is held.
LEMMA PrintsWhileHeld ==
    ASSUME NEW p \in Seq(PlainOps), NEW r \in Seq(HandlerOps), KeyboardHandled(r), KeyboardHeld(r)
    PROVE  KeyboardHandled(p \o r) /\ KeyboardHeld(p \o r)
<1> DEFINE u == p \o r
           unlock == Unlock("KEYBOARD")
           lock == Lock("KEYBOARD")
           n == Len(p)
<1>1. p \in Seq(HandlerOps)
    BY DEF HandlerOps
<1>2. /\ Len(u) = n + Len(r) /\ n \in Nat /\ Len(r) \in Nat
      /\ \A k \in 1..n : u[k] = p[k]
      /\ \A k \in n + 1..n + Len(r) : u[k] = r[k - n]
    BY <1>1, Positions
<1>3. r # <<>> /\ r[Len(r)] = unlock /\ r[1] # lock /\ Len(r) >= 1
    BY DEF KeyboardHeld
<1>4. \A k \in 1..n : u[k] \in PlainOps
    BY <1>2
<1>5. lock \notin PlainOps /\ unlock.op = "unlock"
    BY PlainIsNotKeyboard DEF Unlock
<1>6. \A k \in 1..Len(r) : r[k] \notin PlainOps =>
        \/ r[k].op = "panic" /\ Len(r) = 1
        \/ /\ r[Len(r)] = unlock /\ r[k].op # "panic"
           /\ r[k] = lock => k = 1
           /\ r[k] = unlock => k = Len(r)
    BY DEF KeyboardHandled
<1> HIDE DEF u, unlock, lock, n
<1>7. u[Len(u)] = unlock /\ Len(u) >= 1
    <2>1. Len(u) \in n + 1..n + Len(r) /\ Len(u) - n = Len(r)
        BY <1>2, <1>3
    <2> QED
        BY <1>2, <1>3, <2>1
<1>8. u[1] # lock
    <2>1. CASE n = 0
        <3>1. 1 \in n + 1..n + Len(r) /\ 1 - n = 1
            BY <1>2, <1>3, <2>1
        <3>2. u[1] = r[1]
            BY <1>2, <3>1
        <3> QED
            BY <1>3, <3>2
    <2>2. CASE n # 0
        <3>1. 1 \in 1..n
            BY <1>2, <2>2
        <3> QED
            BY <1>4, <1>5, <3>1
    <2> QED
        BY <2>1, <2>2
<1>9. ASSUME NEW k \in 1..Len(u), u[k] \notin PlainOps
      PROVE  u[k].op # "panic" /\ u[k] # lock /\ (u[k] = unlock => k = Len(u))
    <2> DEFINE m == k - n
    <2>1. k \notin 1..n
        BY <1>4, <1>9
    <2>2. k \in n + 1..n + Len(r) /\ m \in 1..Len(r) /\ m + n = k
        BY <1>2, <2>1
    <2>3. u[k] = r[m]
        BY <1>2, <2>2
    <2> HIDE DEF m
    <2>4. r[m] \notin PlainOps
        BY <1>9, <2>3
    <2>5. r[m].op # "panic"
        <3>1. CASE Len(r) = 1
            <4>1. m = 1
                BY <2>2, <3>1
            <4> QED
                BY <1>3, <1>5, <3>1, <4>1
        <3>2. CASE Len(r) # 1
            BY <1>6, <2>2, <2>4, <3>2
        <3> QED
            BY <3>1, <3>2
    <2>6. (r[m] = lock => m = 1) /\ (r[m] = unlock => m = Len(r))
        BY <1>6, <2>2, <2>4, <2>5
    <2>7. m = Len(r) => k = Len(u)
        BY <1>2, <2>2
    <2> QED
        BY <1>3, <2>3, <2>5, <2>6, <2>7
<1>10. KeyboardHandled(u)
    BY <1>7, <1>9 DEF KeyboardHandled, lock, unlock
<1>11. KeyboardHeld(u)
    <2>1. u # <<>>
        BY <1>7
    <2> QED
        BY <1>7, <1>8, <2>1 DEF KeyboardHeld, lock, unlock
<1> QED
    BY <1>10, <1>11 DEF u

LEMMA ReadScancodeSteps ==
    ASSUME StateOK, CodeOK, Handling, ReadScancode
    PROVE  StateOK' /\ CodeOK' /\ Handling'
<1> DEFINE t == frames[2].todo
           op == t[1]
           r == Rest
<1>1. /\ Len(frames) = 2 /\ Ready /\ ~enabled
      /\ frames[1].todo \in Seq(RunOps(entry)) /\ Now(frames[1].todo) = Idle
      /\ t \in Seq(HandlerOps) /\ KeyboardHandled(t)
      /\ locks = Held(t) \cup IF KeyboardHeld(t) THEN {"KEYBOARD"} ELSE {}
    BY DEF Handling
<1>2. /\ t # <<>> /\ op \in Ops /\ op.op = "read_scancode"
      /\ r = Tail(t) /\ r \in Seq(Ops) /\ Chained(r) /\ Remains(t, r)
      /\ Now(t) = Before(op) /\ Now(r) = After(op)
    BY <1>1, Taken DEF ReadScancode
<1>3. Now(t) = {} /\ Now(r) = {} /\ Held(t) = {}
    BY <1>2, Situations DEF Neutral, Idle, Held
<1>4. r \in Seq(HandlerOps)
    BY <1>1, <1>2
<1>5. KeyboardHeld(t)
    <2>1. 1 \in 1..Len(t)
        BY <1>2
    <2>2. op \notin PlainOps
        <3>1. \A x \in PlainOps : x.op # "read_scancode"
            BY Kinds DEF PlainOps, Locking
        <3> QED
            BY <1>2, <3>1
    <2>3. t[Len(t)] = Unlock("KEYBOARD")
        BY <1>1, <1>2, <2>1, <2>2 DEF KeyboardHandled
    <2>4. op # Lock("KEYBOARD")
        BY <1>2 DEF Lock
    <2> QED
        BY <1>2, <2>3, <2>4 DEF KeyboardHeld
<1>6. KeyboardHandled(r) /\ KeyboardHeld(r)
    <2>1. op \notin {Lock("KEYBOARD"), Unlock("KEYBOARD")}
        BY <1>2 DEF Lock, Unlock
    <2> QED
        BY <1>1, <1>2, <1>5, <2>1, KeyboardFollows
<1> DEFINE text == Decoded(decoder, Head(port))
           u == IF text = <<>> THEN r ELSE println(text) \o r
<1>7. /\ u \in Seq(HandlerOps) /\ Chained(u) /\ Now(u) = {}
      /\ KeyboardHandled(u) /\ KeyboardHeld(u)
    <2>1. CASE text = <<>>
        BY <1>2, <1>3, <1>4, <1>6, <2>1
    <2>2. CASE text # <<>>
        <3> DEFINE p == println(text)
        <3>1. Block(p, PanicOps)
            BY DecodedIsText, PrintlnIsABlock
        <3>2. p \in Seq(PlainOps) /\ p \in Seq(HandlerOps) /\ Chained(p) /\ Now(p) = Idle
            <4>1. PanicOps \subseteq PlainOps /\ PanicOps \subseteq HandlerOps
                BY Wider DEF PlainOps
            <4> QED
                BY <3>1, <4>1, WiderBlock DEF Block
        <3> HIDE DEF p, r
        <3>3. p \o r \in Seq(HandlerOps) /\ Chained(p \o r) /\ Now(p \o r) = {}
            <4>1. Block(p, HandlerOps) /\ Block(r, HandlerOps)
                BY <1>2, <1>3, <1>4, <3>2 DEF Block, Idle
            <4>2. Block(p \o r, HandlerOps)
                BY <4>1, BlocksJoined
            <4> QED
                BY <4>2 DEF Block, Idle
        <3>4. KeyboardHandled(p \o r) /\ KeyboardHeld(p \o r)
            BY <1>4, <1>6, <3>2, PrintsWhileHeld
        <3> QED
            BY <2>2, <3>3, <3>4 DEF p
    <2> QED
        BY <2>1, <2>2
<1>8. /\ frames' = Continue(u) /\ UNCHANGED <<entry, enabled, tables, locks, exit>>
      /\ pic' = pic \/ pic' = [pic EXCEPT !.irr = @ \cup {1}]
    BY DEF ReadScancode
<1> HIDE DEF u, r, text
<1>9. /\ pic' \in [offset : Nat, irr : SUBSET {0, 1}, isr : SUBSET {0, 1}]
      /\ pic'.offset = pic.offset
    BY <1>8 DEF StateOK
<1>10. u \in Seq(Ops)
    <2>1. HandlerOps \subseteq Ops
        BY Wider
    <2> QED
        BY <1>7, <2>1
<1>11. /\ StateOK' /\ CodeOK' /\ Len(frames') = 2
       /\ frames'[2].todo = u /\ frames'[1] = frames[1]
    BY <1>1, <1>7, <1>8, <1>9, <1>10, CodeReplaced
<1>12. ~Masked(u) /\ Held(u) = {}
    BY <1>7 DEF Masked, Held
<1>13. Ready'
    BY <1>1, <1>8, <1>9 DEF Ready
<1>14. Handling'
    BY <1>1, <1>3, <1>5, <1>7, <1>8, <1>11, <1>12, <1>13 DEF Handling
<1> QED
    BY <1>11, <1>14

LEMMA AssertRowSteps ==
    ASSUME StateOK, CodeOK, Running, entry # "main", AssertRow
    PROVE  StateOK' /\ CodeOK' /\ (Running' \/ Failed')
<1> DEFINE t == frames[1].todo
           op == t[1]
<1>1. /\ Len(frames) = 1 /\ Ready /\ t \in Seq(RunOps(entry))
      /\ locks = Held(t) /\ (Masked(t) => ~enabled)
    BY DEF Running
<1>2. /\ t # <<>> /\ op \in Ops /\ op.op = "assert_row"
      /\ Rest = Tail(t) /\ Rest \in Seq(Ops) /\ Chained(Rest)
      /\ Now(t) = Before(op) /\ Now(Rest) = After(op)
    BY <1>1, Taken DEF AssertRow
<1>3. Now(t) = {"WRITER", "mask"} /\ Now(Rest) = {"WRITER", "mask"}
    BY <1>2, Situations
<1>4. /\ UNCHANGED <<entry, enabled, tables, locks, pic, exit>>
      /\ frames' = Continue(Rest) \/ frames' = Continue(panic)
    BY DEF AssertRow
<1>5. pic' \in [offset : Nat, irr : SUBSET {0, 1}, isr : SUBSET {0, 1}]
    BY <1>4 DEF StateOK
<1>6. Masked(t) /\ Held(t) = {"WRITER"} /\ ~enabled
    BY <1>1, <1>3 DEF Masked, Held
<1>7. CASE frames' = Continue(Rest)
    <2>1. Rest \in Seq(RunOps(entry'))
        BY <1>1, <1>2, <1>4
    <2>2. Masked(Rest) /\ Held(Rest) = {"WRITER"}
        BY <1>3 DEF Masked, Held
    <2>3. /\ StateOK' /\ CodeOK' /\ Len(frames') = 1 /\ frames'[1].todo = Rest
        BY <1>1, <1>2, <1>4, <1>5, <1>7, CodeReplaced
    <2>4. Ready'
        BY <1>1, <1>4 DEF Ready
    <2>5. Running'
        BY <1>1, <1>4, <1>6, <2>1, <2>2, <2>3, <2>4 DEF Running
    <2> QED
        BY <2>3, <2>5
<1>8. CASE frames' = Continue(panic)
    <2>1. panic \in Seq(FinalOps) /\ Chained(panic) /\ Now(panic) = {} /\ panic \in Seq(Ops)
        <3>1. Block(panic, FinalOps)
            BY PanicIsABlock
        <3>2. Block(panic, Ops)
            BY PanicIsABlock, Wider, WiderBlock
        <3> QED
            BY <3>1, <3>2 DEF Block, Idle
    <2>2. /\ StateOK' /\ CodeOK' /\ Len(frames') = 1 /\ frames'[1].todo = panic
        BY <1>1, <1>4, <1>5, <1>8, <2>1, CodeReplaced
    <2>3. ~Masked(panic) /\ Held(panic) = {}
        BY <2>1 DEF Masked, Held
    <2>4. Failed'
        BY <1>1, <1>4, <1>6, <2>1, <2>2, <2>3 DEF Failed
    <2> QED
        BY <2>2, <2>4
<1> QED
    BY <1>4, <1>7, <1>8

LEMMA RunTestsSteps ==
    ASSUME StateOK, CodeOK, Running, entry # "main", frames[1].todo[1] \in TestOps, RunTests
    PROVE  StateOK' /\ CodeOK' /\ Running'
<1> DEFINE t == frames[1].todo
           op == t[1]
           r == Rest
<1>1. /\ Len(frames) = 1 /\ Ready /\ t \in Seq(RunOps(entry))
      /\ locks = Held(t)
    BY DEF Running
<1>2. /\ t # <<>> /\ op \in Ops /\ op.op = "for_test" /\ NextOp = op
      /\ r = Tail(t) /\ r \in Seq(Ops) /\ Chained(r)
      /\ Now(t) = Before(op) /\ Now(r) = After(op)
    BY <1>1, Taken DEF RunTests
<1>3. Now(t) = Idle /\ Now(r) = Idle /\ Held(t) = {}
    BY <1>2, Situations DEF Neutral, Held, Idle
<1>4. op.suite \in Seq(TestNames)
    <2>1. \A x \in TestOps : x.op = "for_test" => x \in [op : {"for_test"}, suite : Seq(TestNames)]
        BY DEF TestOps, Named
    <2> QED
        BY <1>2, <2>1
<1> DEFINE p == for_test(op.suite)
           u == p \o r
<1>5. Block(p, RunOps(entry))
    BY <1>4, TestsAreBlocks
<1>6. r \in Seq(RunOps(entry))
    BY <1>1, <1>2
<1>7. frames' = Continue(u) /\ UNCHANGED <<entry, enabled, tables, locks, pic, exit>>
    BY <1>2 DEF RunTests
<1> HIDE DEF p, r
<1>8. u \in Seq(RunOps(entry)) /\ Chained(u) /\ Now(u) = Idle
    <2>1. Block(r, RunOps(entry))
        BY <1>2, <1>3, <1>6 DEF Block
    <2>2. Block(p \o r, RunOps(entry))
        BY <1>5, <2>1, BlocksJoined
    <2> QED
        BY <2>2 DEF Block
<1> HIDE DEF u
<1>9. u \in Seq(Ops)
    <2>1. RunOps(entry) \subseteq Ops
        BY Wider
    <2> QED
        BY <1>8, <2>1
<1>10. pic' \in [offset : Nat, irr : SUBSET {0, 1}, isr : SUBSET {0, 1}]
    BY <1>7 DEF StateOK
<1>11. StateOK' /\ CodeOK' /\ Len(frames') = 1 /\ frames'[1].todo = u
    BY <1>1, <1>7, <1>8, <1>9, <1>10, CodeReplaced
<1>12. ~Masked(u) /\ Held(u) = {}
    BY <1>8 DEF Masked, Held, Idle
<1>13. Ready'
    BY <1>1, <1>7 DEF Ready
<1>14. Running'
    BY <1>1, <1>3, <1>7, <1>8, <1>11, <1>12, <1>13 DEF Running
<1> QED
    BY <1>11, <1>14

-----------------------------------------------------------------------------
(***************************************************************************)
(* Interrupts and exceptions.                                              *)
(***************************************************************************)
LEMMA Popped ==
    \A S : \A s \in Seq(S) : Len(s) = 2 =>
        Front(s) \in Seq(S) /\ Len(Front(s)) = 1 /\ Front(s)[1] = s[1]
<1> SUFFICES ASSUME NEW S, NEW s \in Seq(S), Len(s) = 2
             PROVE  Front(s) \in Seq(S) /\ Len(Front(s)) = 1 /\ Front(s)[1] = s[1]
    OBVIOUS
<1>1. Front(s) = SubSeq(s, 1, 1)
    BY DEF Front
<1> QED
    BY <1>1

\* A handler begins, over a flow that holds no lock.
LEMMA Entered ==
    ASSUME StateOK, Running, NEW below \in Seq(Frame), Len(below) = Len(frames), NEW gate \in DOMAIN IDT,
           below[1].todo \in Seq(RunOps(entry)), Chained(below[1].todo), Now(below[1].todo) = Idle,
           locks = {},
           frames' = Append(below, [todo |-> IDT[gate], flags |-> enabled, saved |-> FALSE]),
           enabled' = FALSE, UNCHANGED <<entry, tables, locks, exit>>,
           pic' \in [offset : Nat, irr : SUBSET {0, 1}, isr : SUBSET {0, 1}],
           pic'.offset = pic.offset
    PROVE  StateOK' /\ CodeOK' /\ Handling'
<1> DEFINE t == IDT[gate]
           g == [todo |-> t, flags |-> enabled, saved |-> FALSE]
<1>1. /\ t \in Seq(HandlerOps) /\ Chained(t) /\ Now(t) = {}
      /\ KeyboardHandled(t) /\ ~KeyboardHeld(t)
    BY HandlersAreBlocks DEF Block, Idle
<1>2. t \in Seq(Ops)
    <2>1. HandlerOps \subseteq Ops
        BY Wider
    <2> HIDE DEF t
    <2> QED
        BY <1>1, <2>1
<1> HIDE DEF t
<1>3. g \in Frame /\ g.todo = t /\ ~g.saved
    <2>1. enabled \in BOOLEAN
        BY DEF StateOK
    <2> QED
        BY <1>2, <2>1 DEF Frame
<1>4. frames' = Append(below, g)
    BY DEF t
<1> HIDE DEF g
<1>5. frames' \in Seq(Frame) /\ Len(frames') = 2 /\ frames'[1] = below[1] /\ frames'[2] = g
    <2> DEFINE f == Append(below, g)
    <2>1. g \in Frame
        BY <1>3
    <2>2. f \in Seq(Frame)
        BY <2>1
    <2>3. Len(f) = Len(below) + 1
        BY <2>1
    <2>4. f[Len(below) + 1] = g
        BY <2>1
    <2>5. \A i \in 1..Len(below) : f[i] = below[i]
        BY <2>1
    <2> HIDE DEF f
    <2>6. Len(below) = 1
        BY DEF Running
    <2>7. Len(f) = 2 /\ f[1] = below[1] /\ f[2] = g
        BY <2>3, <2>4, <2>5, <2>6
    <2> QED
        BY <1>4, <2>2, <2>7 DEF f
<1>6. StateOK'
    BY <1>5 DEF StateOK
<1>7. CodeOK'
    <2>1. \A i \in 1..Len(frames') : i = 1 \/ i = 2
        BY <1>5
    <2> QED
        BY <1>1, <1>3, <1>5, <2>1 DEF CodeOK
<1>8. ~Masked(t) /\ Held(t) = {}
    BY <1>1 DEF Masked, Held
<1>9. Ready'
    BY DEF Running, Ready
<1>10. Handling'
    BY <1>1, <1>3, <1>5, <1>8, <1>9 DEF Handling
<1> QED
    BY <1>6, <1>7, <1>10

LEMMA ExceptSteps ==
    ASSUME StateOK, CodeOK, Running, Except
    PROVE  StateOK' /\ CodeOK' /\ Handling'
<1> DEFINE t == frames[1].todo
           op == t[1]
           below == Continue(Rest)
<1>1. /\ Len(frames) = 1 /\ Ready /\ t \in Seq(RunOps(entry)) /\ locks = Held(t)
    BY DEF Running
<1>2. PICK name \in {"int3", "overflow_stack"} : At(name)
    BY DEF Except
<1>3. /\ t # <<>> /\ op.op = name /\ Rest = Tail(t) /\ Rest \in Seq(Ops) /\ Chained(Rest)
      /\ Now(t) = Before(op) /\ Now(Rest) = After(op)
    BY <1>1, <1>2, Taken
<1>4. Now(t) = Idle /\ Now(Rest) = Idle /\ locks = {}
    BY <1>1, <1>2, <1>3, Situations DEF Neutral, Held, Idle
<1>5. Rest \in Seq(RunOps(entry))
    BY <1>1, <1>3
<1>6. /\ below \in Seq(Frame) /\ Len(below) = 1 /\ below[1].todo = Rest
    BY <1>1, <1>3, Continued
<1>7. PICK gate \in DOMAIN IDT :
        /\ frames' = Append(below, [todo |-> IDT[gate], flags |-> enabled, saved |-> FALSE])
        /\ enabled' = FALSE /\ exit' = exit
    <2>1. /\ DOMAIN IDT = {3, 8, 32, 33} /\ DOUBLE_FAULT = 8 /\ BREAKPOINT = 3
        BY DEF IDT, BREAKPOINT, DOUBLE_FAULT, InterruptIndex, PIC_1_OFFSET
    <2>2. "idt" \in tables /\ "tss" \in tables
        BY <1>1 DEF Ready
    <2> HIDE DEF below
    <2>3. CASE Enter(BREAKPOINT, below, FALSE)
        BY <2>1, <2>2, <2>3 DEF Enter, OnOwnStack
    <2>4. CASE Enter(14, below, TRUE)
        BY <2>1, <2>2, <2>4 DEF Enter, OnOwnStack
    <2>5. Enter(BREAKPOINT, below, FALSE) \/ Enter(14, below, TRUE)
        BY DEF Except, below
    <2> QED
        BY <2>3, <2>4, <2>5
<1>8. UNCHANGED <<entry, tables, locks, pic>>
    BY DEF Except
<1>9. pic' \in [offset : Nat, irr : SUBSET {0, 1}, isr : SUBSET {0, 1}] /\ pic'.offset = pic.offset
    BY <1>8 DEF StateOK
<1> HIDE DEF below
<1> QED
    BY <1>1, <1>3, <1>4, <1>5, <1>6, <1>7, <1>8, <1>9, Entered

LEMMA InterruptSteps ==
    ASSUME StateOK, CodeOK, Running, NEW line \in {0, 1}, Interrupt(line)
    PROVE  StateOK' /\ CodeOK' /\ Handling'
<1> DEFINE t == frames[1].todo
<1>1. /\ Len(frames) = 1 /\ Ready /\ t \in Seq(RunOps(entry)) /\ locks = Held(t)
      /\ (Masked(t) => ~enabled)
    BY DEF Running
<1>2. frames \in Seq(Frame) /\ Chained(t)
    BY <1>1 DEF StateOK, CodeOK
<1>3. enabled /\ UNCHANGED <<entry, tables, locks>>
      /\ pic' = [pic EXCEPT !.irr = @ \ {line}, !.isr = @ \cup {line}]
    BY DEF Interrupt
<1>4. Now(t) = Idle /\ locks = {}
    <2>1. ~Masked(t)
        BY <1>1, <1>3
    <2>2. CASE t = <<>>
        BY <1>1, <2>2 DEF Now, Held, Idle
    <2>3. CASE t # <<>>
        <3>1. t[1] \in RunOps(entry) /\ Now(t) = Before(t[1])
            BY <1>1, <2>3 DEF Now
        <3>2. \A op \in RunOps(entry) : "mask" \in Before(op) \/ Before(op) = Idle
            <4> SUFFICES ASSUME NEW op \in RunOps(entry)
                         PROVE  "mask" \in Before(op) \/ Before(op) = Idle
                OBVIOUS
            <4>1. op.op \in {"without_interrupts", "restore_interrupts", "lock", "unlock", "write",
                             "assert_row"} \/ op.op \in Neutral
                BY Kinds DEF RunOps, Neutral
            <4>2. CASE op.op \in {"lock", "unlock"}
                <5>1. op = [op |-> op.op, lock |-> op.lock] /\ op.lock \in Devices
                    BY <4>2, LockNames, Wider DEF RunOps
                <5>2. op = Lock(op.lock) \/ op = Unlock(op.lock)
                    BY <4>2, <5>1 DEF Lock, Unlock
                <5> QED
                    BY <5>1, <5>2, LockSituations
            <4>3. CASE op.op \notin {"lock", "unlock"}
                BY <4>1, <4>3, Situations
            <4> QED
                BY <4>2, <4>3
        <3> QED
            BY <1>1, <2>1, <3>1, <3>2 DEF Masked, Held, Idle
    <2> QED
        BY <2>2, <2>3
<1>5. PICK gate \in DOMAIN IDT :
        /\ frames' = Append(frames, [todo |-> IDT[gate], flags |-> enabled, saved |-> FALSE])
        /\ enabled' = FALSE /\ exit' = exit
    <2>1. /\ DOMAIN IDT = {3, 8, 32, 33} /\ DOUBLE_FAULT = 8
        BY DEF IDT, BREAKPOINT, DOUBLE_FAULT, InterruptIndex, PIC_1_OFFSET
    <2>2. "idt" \in tables /\ pic.offset + line \in {32, 33}
        BY <1>1 DEF Ready, PIC_1_OFFSET
    <2>3. Enter(pic.offset + line, frames, FALSE)
        BY DEF Interrupt
    <2> DEFINE vector == pic.offset + line
    <2> HIDE DEF vector
    <2>4. vector \in {32, 33} /\ Enter(vector, frames, FALSE)
        BY <2>2, <2>3 DEF vector
    <2>5. vector \in DOMAIN IDT /\ vector \notin OnOwnStack
        BY <2>1, <2>4 DEF OnOwnStack
    <2>6. frames' = Append(frames, [todo |-> IDT[vector], flags |-> enabled, saved |-> FALSE])
          /\ enabled' = FALSE /\ exit' = exit
        BY <2>2, <2>4, <2>5 DEF Enter
    <2> QED
        BY <2>5, <2>6
<1>6. pic' \in [offset : Nat, irr : SUBSET {0, 1}, isr : SUBSET {0, 1}] /\ pic'.offset = pic.offset
    <2>1. pic \in [offset : Nat, irr : SUBSET {0, 1}, isr : SUBSET {0, 1}]
        BY DEF StateOK
    <2> QED
        BY <1>3, <2>1
<1> QED
    BY <1>1, <1>2, <1>3, <1>4, <1>5, <1>6, Entered

LEMMA ReturnSteps ==
    ASSUME StateOK, CodeOK, Handling, ReturnFromInterrupt
    PROVE  StateOK' /\ CodeOK' /\ Running'
<1> DEFINE t == frames[2].todo
           s == frames[1].todo
<1>1. /\ Len(frames) = 2 /\ Ready /\ s \in Seq(RunOps(entry)) /\ Now(s) = Idle
      /\ locks = Held(t) \cup IF KeyboardHeld(t) THEN {"KEYBOARD"} ELSE {}
    BY DEF Handling
<1>2. Top = frames[2] /\ frames[2] \in Frame /\ frames \in Seq(Frame)
    BY <1>1, TopFrame DEF StateOK
<1>3. t = <<>> /\ frames' = Front(frames) /\ enabled' = frames[2].flags
      /\ UNCHANGED <<entry, tables, locks, pic, exit>>
    BY <1>2 DEF ReturnFromInterrupt
<1>4. frames' \in Seq(Frame) /\ Len(frames') = 1 /\ frames'[1] = frames[1]
    BY <1>1, <1>2, <1>3, Popped
<1>5. locks = {} /\ Held(s) = {} /\ ~Masked(s)
    BY <1>1, <1>3 DEF Held, Masked, Now, KeyboardHeld, Idle
<1>6. StateOK'
    <2>1. enabled' \in BOOLEAN
        BY <1>2, <1>3 DEF Frame
    <2> QED
        BY <1>3, <1>4, <2>1 DEF StateOK
<1>7. CodeOK'
    <2>1. Chained(frames[1].todo)
        BY <1>1 DEF CodeOK
    <2>2. \A i \in 1..Len(frames') : i = 1
        BY <1>4
    <2> QED
        BY <1>4, <2>1, <2>2 DEF CodeOK
<1>8. Running'
    BY <1>1, <1>3, <1>4, <1>5 DEF Running, Ready
<1> QED
    BY <1>6, <1>7, <1>8

-----------------------------------------------------------------------------
(***************************************************************************)
(* The invariant, and what follows from it.                                *)
(***************************************************************************)
LEMMA InitHolds == Init => IInv
<1> SUFFICES ASSUME Init PROVE IInv
    OBVIOUS
<1> DEFINE t == start(entry, tests)
           g == [todo |-> t, flags |-> FALSE, saved |-> FALSE]
<1>1. entry \in {"main", "main_test", "lib_test"} /\ tests \in Seq(TestNames)
    <2>1. <<>> \in Seq(TestNames)
        OBVIOUS
    <2> QED
        BY <2>1, KernelAssumption DEF Init
<1>2. Starts(t, entry)
    BY <1>1, EveryStart
<1>3. frames = <<g>> /\ enabled = FALSE /\ tables = {} /\ locks = {}
      /\ pic = [offset |-> 8, irr |-> {}, isr |-> {}] /\ exit = "none"
    BY DEF Init
<1> HIDE DEF t
<1>4. t \in Seq(Ops) /\ Chained(t) /\ Now(t) = {}
    BY <1>2 DEF Starts, Idle
<1>5. g \in Frame /\ g.todo = t
    BY <1>4 DEF Frame
<1> HIDE DEF g
<1>6. frames \in Seq(Frame) /\ Len(frames) = 1 /\ frames[1] = g
    BY <1>3, <1>5
<1>7. StateOK
    <2>1. pic \in [offset : Nat, irr : SUBSET {0, 1}, isr : SUBSET {0, 1}]
        BY <1>3
    <2>2. enabled \in BOOLEAN /\ exit \in {"none", "Success", "Failed"}
        BY <1>3
    <2> QED
        BY <1>1, <1>6, <2>1, <2>2 DEF StateOK
<1>8. CodeOK
    <2>1. \A i \in 1..Len(frames) : i = 1
        BY <1>6
    <2> QED
        BY <1>4, <1>5, <1>6, <2>1 DEF CodeOK
<1>9. ~Masked(t) /\ Held(t) = {}
    BY <1>4 DEF Masked, Held
<1>10. Starting
    BY <1>2, <1>3, <1>5, <1>6, <1>9 DEF Starting, Starts
<1> QED
    BY <1>7, <1>8, <1>10 DEF IInv

LEMMA StepHolds == IInv /\ [Next]_vars => IInv'
<1> SUFFICES ASSUME IInv, [Next]_vars PROVE IInv'
    OBVIOUS
<1>1. StateOK /\ CodeOK /\ (Starting \/ Running \/ Handling \/ Failed)
    BY DEF IInv
<1>2. Len(frames) \in {1, 2} /\ (Handling <=> Len(frames) = 2)
    BY <1>1, Places
<1>3. ASSUME UNCHANGED <<frames, entry, enabled, tables, locks>>, pic'.offset = pic.offset,
             pic' \in [offset : Nat, irr : SUBSET {0, 1}, isr : SUBSET {0, 1}],
             exit' \in {"none", "Success", "Failed"}
      PROVE  IInv'
    <2>1. StateOK'
        BY <1>1, <1>3 DEF StateOK
    <2>2. CodeOK'
        BY <1>1, <1>3 DEF CodeOK
    <2>3. Starting' \/ Running' \/ Handling' \/ Failed'
        BY <1>1, <1>3, Undisturbed
    <2> QED
        BY <2>1, <2>2, <2>3 DEF IInv
<1>4. /\ pic \in [offset : Nat, irr : SUBSET {0, 1}, isr : SUBSET {0, 1}]
      /\ exit \in {"none", "Success", "Failed"}
    BY <1>1 DEF StateOK
<1>5. CASE Flow
    <2>1. StateOK' /\ CodeOK'
        BY <1>1, <1>2, <1>5, FlowKeepsChains
    <2>2. Starting' \/ Running' \/ Handling' \/ Failed'
        BY <1>1, <1>5, StartingFlows, RunningFlows, HandlingFlows, FailedFlows
    <2> QED
        BY <2>1, <2>2 DEF IInv
<1>6. CASE ReadScancode
    <2>1. Handling
        <3>1. At("read_scancode")
            BY <1>6 DEF ReadScancode
        <3>2. LET t == frames[Len(frames)].todo IN t # <<>> /\ t[1].op = "read_scancode"
            BY <1>1, <1>2, <3>1, Taken
        <3> QED
            BY <1>1, <1>2, <3>2, Places
    <2> QED
        BY <1>1, <1>6, <2>1, ReadScancodeSteps DEF IInv
<1>7. CASE Except
    <2>1. Running
        <3>1. PICK name \in {"int3", "overflow_stack"} : At(name)
            BY <1>7 DEF Except
        <3> QED
            BY <1>1, <1>2, <3>1, Places, Taken
    <2> QED
        BY <1>1, <1>7, <2>1, ExceptSteps DEF IInv
<1>8. CASE ReturnFromInterrupt
    <2>1. Handling
        <3>1. Len(frames) > 1
            BY <1>8 DEF ReturnFromInterrupt
        <3>2. \A n \in {1, 2} : n > 1 => n = 2
            OBVIOUS
        <3>3. Len(frames) = 2
            BY <1>2, <3>1, <3>2
        <3> QED
            BY <1>2, <3>3
    <2> QED
        BY <1>1, <1>8, <2>1, ReturnSteps DEF IInv
<1>9. CASE Panic
    <2>1. Running \/ Handling
        <3>1. At("panic")
            BY <1>9 DEF Panic
        <3> QED
            BY <1>1, <1>2, <3>1, Places, Taken
    <2> QED
        BY <1>1, <1>9, <2>1, PanicSteps DEF IInv
<1>10. CASE AssertRow
    <2>1. Running /\ entry # "main"
        <3>1. At("assert_row")
            BY <1>10 DEF AssertRow
        <3> QED
            BY <1>1, <1>2, <3>1, Places, Taken
    <2> QED
        BY <1>1, <1>10, <2>1, AssertRowSteps DEF IInv
<1>11. CASE RunTests
    <2>1. Running /\ entry # "main" /\ frames[1].todo[1] \in TestOps
        <3>1. At("for_test")
            BY <1>11 DEF RunTests
        <3>2. Running /\ entry # "main" /\ frames[Len(frames)].todo[1] \in TestOps
            BY <1>1, <1>2, <3>1, Places, Taken
        <3>3. Len(frames) = 1
            BY <3>2 DEF Running
        <3> QED
            BY <3>2, <3>3
    <2> QED
        BY <1>1, <1>11, <2>1, RunTestsSteps DEF IInv
<1>12. CASE ExitQemu
    <2>1. At("exit") /\ exit' = NextOp.code /\ UNCHANGED <<frames, entry, enabled, tables, locks, pic>>
        BY <1>12 DEF ExitQemu
    <2>2. NextOp \in Ops /\ NextOp.op = "exit"
        BY <1>1, <1>2, <2>1, Taken
    <2>3. \A op \in Ops : op.op = "exit" => op \in Exiting
        <3>1. \A names : \A op \in Locking(names) : op.op # "exit"
            BY DEF Locking
        <3>2. \A names : \A op \in Named(names) : "exit" \notin names => op.op # "exit"
            BY DEF Named
        <3>3. \A devices : \A op \in Printing(devices) : op.op # "exit"
            BY <3>1, <3>2 DEF Printing
        <3>4. \A op \in PanicOps : op.op = "exit" => op \in Exiting
            BY <3>2, <3>3 DEF PanicOps
        <3>5. \A op \in HandlerOps : op.op = "exit" => op \in Exiting
            BY <3>1, <3>2, <3>4 DEF HandlerOps, PlainOps
        <3>6. \A op \in StartOps \cup TestOps : op.op # "exit"
            BY Kinds
        <3> QED
            BY <3>2, <3>5, <3>6 DEF Ops
    <2>4. exit' \in {"Success", "Failed"}
        BY <2>1, <2>2, <2>3 DEF Exiting
    <2> QED
        BY <1>3, <1>4, <2>1, <2>4
<1>13. ASSUME NEW line \in {0, 1}, Interrupt(line) PROVE IInv'
    <2>1. enabled
        BY <1>13 DEF Interrupt
    <2>2. Running
        BY <1>1, <2>1 DEF Starting, Handling, Failed
    <2> QED
        BY <1>1, <1>13, <2>2, InterruptSteps DEF IInv
<1>14. CASE Tick
    <2>1. /\ pic' = [pic EXCEPT !.irr = @ \cup {0}]
          /\ UNCHANGED <<frames, entry, enabled, tables, locks, exit>>
        BY <1>14 DEF Tick
    <2> QED
        BY <1>3, <1>4, <2>1
<1>15. CASE PressKey
    <2>1. /\ pic' = pic \/ pic' = [pic EXCEPT !.irr = @ \cup {1}]
          /\ UNCHANGED <<frames, entry, enabled, tables, locks, exit>>
        BY <1>15 DEF PressKey
    <2> QED
        BY <1>3, <1>4, <2>1
<1>16. CASE UNCHANGED vars
    BY <1>3, <1>4, <1>16 DEF vars
<1> QED
    BY <1>5, <1>6, <1>7, <1>8, <1>9, <1>10, <1>11, <1>12, <1>13, <1>14, <1>15, <1>16
    DEF Next, Execute, Flow

LEMMA NotWedged == IInv => NeverWedged
<1> SUFFICES ASSUME IInv PROVE NeverWedged
    OBVIOUS
<1>1. StateOK /\ CodeOK /\ (Starting \/ Running \/ Handling \/ Failed)
    BY DEF IInv
<1>2. Len(frames) \in {1, 2}
    BY <1>1, Places
<1>3. exit # "reset"
    BY <1>1 DEF StateOK
<1>4. ASSUME At("lock"), NextOp.lock \in locks PROVE FALSE
    <2> DEFINE t == frames[Len(frames)].todo
               op == t[1]
    <2>1. t # <<>> /\ t \in Seq(Ops) /\ op \in Ops /\ op.op = "lock" /\ NextOp = op /\ Now(t) = Before(op)
        BY <1>1, <1>2, <1>4, Taken
    <2>2. op = Lock(op.lock)
        BY <2>1, LockNames DEF Lock
    <2>3. Held(t) = {}
        <3>1. CASE op.lock = "KEYBOARD"
            BY <2>1, <2>2, <3>1, LockSituations DEF Held, Idle
        <3>2. CASE op.lock # "KEYBOARD"
            BY <2>1, <3>2, LocksFollow DEF Held
        <3> QED
            BY <3>1, <3>2
    <2>4. CASE Starting \/ Running
        BY <1>4, <2>1, <2>3, <2>4 DEF Starting, Running
    <2>5. CASE Failed
        <3>1. Len(frames) = 1 /\ t \in Seq(FinalOps) /\ locks = {"WRITER"}
            BY <2>3, <2>5 DEF Failed
        <3>2. op \in FinalOps
            BY <2>1, <3>1
        <3>3. op.lock = "SERIAL1"
            BY <2>1, <3>2, LockNames
        <3> QED
            BY <1>4, <2>1, <3>1, <3>3
    <2>6. CASE Handling
        <3>1. locks = IF KeyboardHeld(t) THEN {"KEYBOARD"} ELSE {}
            BY <2>3, <2>6 DEF Handling
        <3>2. op.lock = "KEYBOARD" => ~KeyboardHeld(t)
            BY <2>2 DEF KeyboardHeld
        <3> QED
            BY <1>4, <2>1, <3>1, <3>2
    <2> QED
        BY <1>1, <2>4, <2>5, <2>6
<1> QED
    BY <1>3, <1>4 DEF NeverWedged

\* Nobody ever waits for a lock that its own processor holds, and the machine is
\* never reset for want of a handler or a stack: with any keys and any tests, and
\* however many ticks and keys there are (lib.rs:14-21, interrupts.rs:31-86,
\* vga_buffer.rs:153, serial.rs:17).
THEOREM LocksAreFree == Spec => []NeverWedged
<1> QED
    BY InitHolds, StepHolds, NotWedged, PTL DEF Spec

-----------------------------------------------------------------------------
(***************************************************************************)
(* The text screen.                                                        *)
(***************************************************************************)
Glyphs == Words \cup {"fe"}

\* What the screen shows of some lines.
RowOf(lines, row) == Len(lines) - (BUFFER_HEIGHT - row)
CharAt(lines, row, col) ==
    IF RowOf(lines, row) >= 1 /\ col <= Len(lines[RowOf(lines, row)])
    THEN ScreenChar(lines[RowOf(lines, row)][col], color_code)
    ELSE IF RowOf(lines, row) > 1 THEN Blank ELSE BootChar
Panel(lines) == [row \in Rows |-> [col \in Columns |-> CharAt(lines, row, col)]]

LinesOK(lines) ==
    /\ lines \in Seq(Seq(Glyphs)) /\ lines # <<>>
    /\ \A k \in 1..Len(lines) : Len(lines[k]) <= BUFFER_WIDTH

\* The writer has written these lines.
Wrote(w, lines) ==
    /\ LinesOK(lines)
    /\ w = [column_position |-> Len(lines[Len(lines)]), chars |-> Panel(lines)]

LEMMA NewLineWrites ==
    ASSUME NEW w, NEW lines, Wrote(w, lines)
    PROVE  Wrote(NewLine(w), Append(lines, <<>>))
<1> DEFINE u == Append(lines, <<>>)
           up(row) == IF row < BUFFER_HEIGHT THEN row + 1 ELSE row
           blank == [col \in Columns |-> Blank]
<1>1. /\ lines \in Seq(Seq(Glyphs)) /\ Len(lines) \in Nat /\ Len(lines) >= 1
      /\ \A k \in 1..Len(lines) : Len(lines[k]) <= BUFFER_WIDTH
    BY DEF Wrote, LinesOK
<1>2. <<>> \in Seq(Glyphs) /\ Len(<<>>) = 0
    OBVIOUS
<1>3. /\ u \in Seq(Seq(Glyphs)) /\ Len(u) = Len(lines) + 1 /\ u[Len(u)] = <<>>
      /\ \A k \in 1..Len(lines) : u[k] = lines[k]
    BY <1>1, <1>2, AppendProperties
<1>4. BUFFER_HEIGHT \in Nat /\ BUFFER_HEIGHT >= 1 /\ BUFFER_WIDTH \in Nat
    BY BufferAssumption
<1> HIDE DEF u
<1>5. LinesOK(u)
    <2>1. \A k \in 1..Len(u) : k = Len(u) \/ k \in 1..Len(lines)
        BY <1>1, <1>3
    <2>2. ASSUME NEW k \in 1..Len(u)
          PROVE  Len(u[k]) <= BUFFER_WIDTH
        <3>1. CASE k = Len(u)
            BY <1>2, <1>3, <1>4, <3>1
        <3>2. CASE k \in 1..Len(lines)
            BY <1>1, <1>3, <3>2
        <3> QED
            BY <2>1, <3>1, <3>2
    <2>3. u # <<>>
        BY <1>1, <1>2, <1>3
    <2> QED
        BY <1>3, <2>2, <2>3 DEF LinesOK
<1>6. NewLine(w) = [column_position |-> 0,
                    chars |-> [row \in Rows |-> IF row = BUFFER_HEIGHT THEN blank
                                                ELSE Panel(lines)[up(row)]]]
    <2>1. w.chars = Panel(lines) /\ w = [column_position |-> w.column_position, chars |-> w.chars]
        BY DEF Wrote
    <2> DEFINE s == [w EXCEPT !.chars = [row \in Rows |-> w.chars[up(row)]]]
               c == [s EXCEPT !.chars[BUFFER_HEIGHT] = blank]
    <2>2. NewLine(w) = [c EXCEPT !.column_position = 0]
        BY DEF NewLine, ClearRow
    <2>3. s = [column_position |-> w.column_position,
               chars |-> [row \in Rows |-> Panel(lines)[up(row)]]]
        BY <2>1
    <2> HIDE DEF up, blank, s
    <2>4. c = [column_position |-> w.column_position,
               chars |-> [row \in Rows |-> IF row = BUFFER_HEIGHT THEN blank
                                           ELSE Panel(lines)[up(row)]]]
        BY <2>3
    <2> QED
        BY <2>2, <2>4
<1>7. ASSUME NEW row \in Rows
      PROVE  [col \in Columns |-> CharAt(u, row, col)] =
                IF row = BUFFER_HEIGHT THEN blank ELSE Panel(lines)[up(row)]
    <2>1. CASE row = BUFFER_HEIGHT
        <3>1. RowOf(u, row) = Len(u) /\ Len(u) > 1
            BY <1>1, <1>3, <1>4, <2>1 DEF RowOf
        <3>2. \A col \in Columns : CharAt(u, row, col) = Blank
            BY <1>2, <1>3, <3>1 DEF CharAt, Columns
        <3> QED
            BY <2>1, <3>2
    <2>2. CASE row # BUFFER_HEIGHT
        <3>1. up(row) = row + 1 /\ row + 1 \in Rows
            BY <1>4, <2>2 DEF Rows
        <3>2. RowOf(u, row) = RowOf(lines, row + 1) /\ RowOf(u, row) <= Len(lines) /\ RowOf(u, row) \in Int
            BY <1>1, <1>3, <1>4, <2>2 DEF RowOf, Rows
        <3>3. RowOf(u, row) >= 1 => u[RowOf(u, row)] = lines[RowOf(u, row)]
            <4> DEFINE r == RowOf(u, row)
            <4>1. r \in Int /\ r <= Len(lines)
                BY <3>2
            <4> HIDE DEF r
            <4>2. r >= 1 => r \in 1..Len(lines)
                BY <1>1, <4>1
            <4> QED
                BY <1>3, <3>2, <4>2 DEF r
        <3>4. \A col \in Columns : CharAt(u, row, col) = CharAt(lines, row + 1, col)
            BY <3>2, <3>3 DEF CharAt
        <3>5. Panel(lines)[row + 1] = [col \in Columns |-> CharAt(lines, row + 1, col)]
            BY <3>1 DEF Panel
        <3> QED
            BY <2>2, <3>1, <3>4, <3>5
    <2> QED
        BY <2>1, <2>2
<1> HIDE DEF up, blank
<1>8. Panel(u) = [row \in Rows |-> IF row = BUFFER_HEIGHT THEN blank ELSE Panel(lines)[up(row)]]
    BY <1>7 DEF Panel
<1>9. NewLine(w) = [column_position |-> Len(u[Len(u)]), chars |-> Panel(u)]
    BY <1>2, <1>3, <1>6, <1>8
<1>10. Wrote(NewLine(w), u)
    BY <1>5, <1>9 DEF Wrote
<1> QED
    BY <1>10 DEF u

\* A character after the last line, where there is room for it.
Put(w, byte) ==
    [w EXCEPT !.chars[BUFFER_HEIGHT][w.column_position + 1] = ScreenChar(byte, color_code),
              !.column_position = @ + 1]
Longer(lines, byte) == [lines EXCEPT ![Len(lines)] = Append(lines[Len(lines)], byte)]

LEMMA PutWrites ==
    ASSUME NEW w, NEW lines, Wrote(w, lines), w.column_position < BUFFER_WIDTH, NEW byte \in Glyphs
    PROVE  Wrote(Put(w, byte), Longer(lines, byte))
<1> DEFINE n == Len(lines)
           line == lines[n]
           more == Append(line, byte)
           u == Longer(lines, byte)
           c == ScreenChar(byte, color_code)
           col1 == Len(line) + 1
<1>1. /\ lines \in Seq(Seq(Glyphs)) /\ n \in Nat /\ n >= 1 /\ n \in 1..n
      /\ \A k \in 1..n : Len(lines[k]) <= BUFFER_WIDTH
      /\ w = [column_position |-> Len(line), chars |-> Panel(lines)]
    BY DEF Wrote, LinesOK
<1>2. line \in Seq(Glyphs) /\ Len(line) \in Nat /\ Len(line) < BUFFER_WIDTH /\ BUFFER_WIDTH \in Nat
    BY <1>1, BufferAssumption
<1> HIDE DEF n, line
<1>3. /\ more \in Seq(Glyphs) /\ Len(more) = col1 /\ more[col1] = byte
      /\ \A k \in 1..Len(line) : more[k] = line[k]
    BY <1>2, AppendProperties
<1> HIDE DEF more
<1>4. /\ u \in Seq(Seq(Glyphs)) /\ Len(u) = n /\ u[n] = more
      /\ \A k \in 1..n : k # n => u[k] = lines[k]
    <2>1. u = [lines EXCEPT ![n] = more]
        BY DEF Longer, n, line, more
    <2> HIDE DEF u
    <2>2. Len(lines) = n
        BY DEF n
    <2> QED
        BY <1>1, <1>3, <2>1, <2>2
<1> HIDE DEF u
<1>5. LinesOK(u)
    <2>1. ASSUME NEW k \in 1..n
          PROVE  Len(u[k]) <= BUFFER_WIDTH
        <3>1. CASE k = n
            BY <1>2, <1>3, <1>4, <3>1
        <3>2. CASE k # n
            BY <1>1, <1>4, <3>2
        <3> QED
            BY <3>1, <3>2
    <2> QED
        BY <1>1, <1>4, <2>1 DEF LinesOK
<1>6. Put(w, byte) = [column_position |-> col1,
                      chars |-> [Panel(lines) EXCEPT ![BUFFER_HEIGHT][col1] = c]]
    <2>1. w.column_position = Len(line) /\ w.chars = Panel(lines)
        BY <1>1
    <2>2. Put(w, byte) = [[w EXCEPT !.chars = [w.chars EXCEPT ![BUFFER_HEIGHT][col1] = c]]
                            EXCEPT !.column_position = w.column_position + 1]
        BY <2>1 DEF Put
    <2> HIDE DEF c
    <2> QED
        BY <1>1, <2>1, <2>2
<1>7. col1 \in Columns /\ BUFFER_HEIGHT \in Rows
    BY <1>2, BufferAssumption DEF Columns, Rows
<1>8. ASSUME NEW row \in Rows, NEW col \in Columns
      PROVE  CharAt(u, row, col) = IF row = BUFFER_HEIGHT /\ col = col1 THEN c ELSE CharAt(lines, row, col)
    <2>1. /\ RowOf(u, row) = RowOf(lines, row) /\ RowOf(u, row) <= n /\ RowOf(u, row) \in Int
          /\ (row = BUFFER_HEIGHT => RowOf(u, row) = n)
          /\ (row # BUFFER_HEIGHT => RowOf(u, row) # n)
        <3>1. /\ RowOf(u, row) = n - (BUFFER_HEIGHT - row)
              /\ RowOf(lines, row) = n - (BUFFER_HEIGHT - row)
            BY <1>4 DEF RowOf, n
        <3>2. row \in Nat /\ row <= BUFFER_HEIGHT /\ BUFFER_HEIGHT \in Nat
            BY BufferAssumption DEF Rows
        <3>3. RowOf(u, row) \in Int /\ RowOf(u, row) <= n
            BY <1>1, <3>1, <3>2
        <3>4. row = BUFFER_HEIGHT => RowOf(u, row) = n
            BY <1>1, <3>1, <3>2
        <3>5. row # BUFFER_HEIGHT => RowOf(u, row) # n
            BY <1>1, <3>1, <3>2
        <3> QED
            BY <3>1, <3>3, <3>4, <3>5
    <2>2. CASE row = BUFFER_HEIGHT
        <3>1. RowOf(u, row) = n /\ RowOf(lines, row) = n /\ n >= 1
            BY <1>1, <2>1, <2>2
        <3>2. col \in Nat /\ col >= 1
            BY DEF Columns
        <3>3. CASE col = col1
            BY <1>3, <1>4, <2>2, <3>1, <3>3 DEF CharAt
        <3>4. CASE col < col1
            <4>1. col \in 1..Len(line) /\ col <= Len(more)
                BY <1>2, <1>3, <3>2, <3>4
            <4>2. CharAt(u, row, col) = ScreenChar(line[col], color_code)
                BY <1>3, <1>4, <3>1, <4>1 DEF CharAt
            <4>3. CharAt(lines, row, col) = ScreenChar(line[col], color_code)
                BY <1>2, <3>1, <4>1 DEF CharAt, line
            <4> QED
                BY <3>4, <4>2, <4>3, <1>2, <3>2
        <3>5. CASE col > col1
            <4>1. ~(col <= Len(more)) /\ ~(col <= Len(line)) /\ col # col1
                BY <1>2, <1>3, <3>2, <3>5
            <4> QED
                BY <1>4, <3>1, <4>1 DEF CharAt, line
        <3> QED
            BY <1>2, <3>2, <3>3, <3>4, <3>5
    <2>3. CASE row # BUFFER_HEIGHT
        <3>1. RowOf(u, row) >= 1 => u[RowOf(u, row)] = lines[RowOf(u, row)]
            <4> DEFINE r == RowOf(u, row)
            <4>1. r \in Int /\ r <= n /\ r # n
                BY <2>1, <2>3
            <4> HIDE DEF r
            <4>2. r >= 1 => r \in 1..n /\ r # n
                BY <1>1, <4>1
            <4> QED
                BY <1>4, <2>1, <4>2 DEF r
        <3> QED
            BY <2>1, <2>3, <3>1 DEF CharAt
    <2> QED
        BY <2>2, <2>3
<1>9. Panel(u) = [Panel(lines) EXCEPT ![BUFFER_HEIGHT][col1] = c]
    <2> DEFINE p == [Panel(lines) EXCEPT ![BUFFER_HEIGHT][col1] = c]
    <2>1. p = [row \in Rows |-> IF row = BUFFER_HEIGHT THEN [Panel(lines)[row] EXCEPT ![col1] = c]
                                ELSE Panel(lines)[row]]
        BY DEF Panel
    <2>2. ASSUME NEW row \in Rows
          PROVE  [col \in Columns |-> CharAt(u, row, col)] = p[row]
        <3>1. Panel(lines)[row] = [col \in Columns |-> CharAt(lines, row, col)]
            BY DEF Panel
        <3> DEFINE old == Panel(lines)[row]
        <3> HIDE DEF old, c, col1
        <3>2. old = [col \in Columns |-> CharAt(lines, row, col)]
            BY <3>1 DEF old
        <3>3. CASE row = BUFFER_HEIGHT
            <4>1. p[row] = [old EXCEPT ![col1] = c]
                BY <2>1, <3>3 DEF old
            <4>2. [old EXCEPT ![col1] = c] = [col \in Columns |-> IF col = col1 THEN c ELSE CharAt(lines, row, col)]
                BY <3>2
            <4> QED
                BY <1>8, <3>3, <4>1, <4>2
        <3>4. CASE row # BUFFER_HEIGHT
            <4>1. p[row] = old
                BY <2>1, <3>4 DEF old
            <4> QED
                BY <1>8, <3>2, <3>4, <4>1
        <3> QED
            BY <3>3, <3>4
    <2>3. p = [row \in Rows |-> p[row]]
        BY <2>1
    <2> HIDE DEF p
    <2>4. Panel(u) = p
        BY <2>2, <2>3 DEF Panel
    <2> QED
        BY <2>4 DEF p
<1>10. Put(w, byte) = [column_position |-> Len(u[Len(u)]), chars |-> Panel(u)]
    BY <1>3, <1>4, <1>6, <1>9
<1> QED
    BY <1>5, <1>10 DEF Wrote, u

-----------------------------------------------------------------------------
(***************************************************************************)
(* The lines of a text.                                                    *)
(***************************************************************************)
LEMMA LeastElement ==
    ASSUME NEW S, S \subseteq Nat, S # {}
    PROVE  \E x \in S : \A y \in S : x <= y
<1>1. PICK x \in S : \A y \in S : ~(<<y, x>> \in OpToRel(<, Nat))
    BY NatLessThanWellFounded, WFMin
<1>2. ASSUME NEW y \in S PROVE x <= y
    <2>1. x \in Nat /\ y \in Nat /\ ~(y < x)
        BY <1>1 DEF OpToRel
    <2> QED
        BY <2>1
<1> QED
    BY <1>2

\* f[k] are the lines after k of the first n bytes.
Grown(f, bytes, n) ==
    f = [k \in 0..n |-> IF k = 0 THEN <<<<>>>> ELSE AddToLines(f[k - 1], bytes[k])]

LEMMA LinesExist ==
    ASSUME NEW bytes, NEW n \in Nat
    PROVE  \E f : Grown(f, bytes, n)
<1> DEFINE without == {m \in Nat : ~(\E f : Grown(f, bytes, m))}
<1>1. SUFFICES ASSUME without # {}
               PROVE  FALSE
    OBVIOUS
<1>2. PICK m \in without : \A y \in without : m <= y
    BY <1>1, LeastElement
<1>3. m \in Nat /\ ~(\E f : Grown(f, bytes, m))
    BY <1>2
<1>4. CASE m = 0
    <2> DEFINE f == [k \in 0..0 |-> <<<<>>>>]
    <2>1. \A k \in 0..0 : k = 0
        OBVIOUS
    <2>2. f = [k \in 0..0 |-> IF k = 0 THEN <<<<>>>> ELSE AddToLines(f[k - 1], bytes[k])]
        BY <2>1
    <2> HIDE DEF f
    <2>3. Grown(f, bytes, m)
        BY <1>4, <2>2 DEF Grown
    <2> QED
        BY <1>3, <2>3
<1>5. CASE m # 0
    <2>1. m - 1 \in Nat /\ ~(m <= m - 1)
        BY <1>3, <1>5
    <2>2. m - 1 \notin without
        BY <1>2, <2>1
    <2>3. PICK g : Grown(g, bytes, m - 1)
        BY <2>1, <2>2
    <2> DEFINE f == [k \in 0..m |-> IF k = m THEN AddToLines(g[m - 1], bytes[m]) ELSE g[k]]
    <2>4. ASSUME NEW k \in 0..m
          PROVE  f[k] = IF k = 0 THEN <<<<>>>> ELSE AddToLines(f[k - 1], bytes[k])
        <3>1. k \in Nat /\ k <= m
            BY <1>3
        <3>2. \A j \in 0..m - 1 : f[j] = g[j]
            <4>1. \A j \in 0..m - 1 : j \in 0..m /\ j # m
                BY <1>3
            <4> QED
                BY <4>1
        <3>3. CASE k = m
            <4>1. m - 1 \in 0..m - 1 /\ k # 0
                BY <1>3, <1>5, <2>1, <3>3
            <4>2. f[k] = AddToLines(g[m - 1], bytes[m]) /\ f[m - 1] = g[m - 1]
                BY <3>2, <3>3, <4>1
            <4> QED
                BY <3>3, <4>1, <4>2
        <3>4. CASE k # m
            <4>1. k \in 0..m - 1
                BY <1>3, <3>1, <3>4
            <4>2. g[k] = IF k = 0 THEN <<<<>>>> ELSE AddToLines(g[k - 1], bytes[k])
                BY <2>3, <4>1 DEF Grown
            <4>3. k # 0 => k - 1 \in 0..m - 1
                BY <1>3, <3>1, <4>1
            <4> HIDE DEF f
            <4>4. f[k] = g[k] /\ (k # 0 => f[k - 1] = g[k - 1])
                BY <3>2, <4>1, <4>3
            <4> QED
                BY <4>2, <4>4
        <3> QED
            BY <3>3, <3>4
    <2>5. f = [k \in 0..m |-> f[k]]
        OBVIOUS
    <2> HIDE DEF f
    <2>6. Grown(f, bytes, m)
        BY <2>4, <2>5 DEF Grown
    <2> QED
        BY <1>3, <2>6
<1> QED
    BY <1>4, <1>5

LEMMA TheLines ==
    ASSUME NEW bytes, Len(bytes) \in Nat
    PROVE  \E f : Grown(f, bytes, Len(bytes)) /\ Lines(bytes) = f[Len(bytes)]
<1> DEFINE f == CHOOSE f : f = [n \in 0..Len(bytes) |->
                    IF n = 0 THEN <<<<>>>> ELSE AddToLines(f[n - 1], bytes[n])]
<1>1. Lines(bytes) = f[Len(bytes)]
    BY DEF Lines
<1>2. \E g : g = [n \in 0..Len(bytes) |->
                    IF n = 0 THEN <<<<>>>> ELSE AddToLines(g[n - 1], bytes[n])]
    BY LinesExist DEF Grown
<1>3. f = [n \in 0..Len(bytes) |-> IF n = 0 THEN <<<<>>>> ELSE AddToLines(f[n - 1], bytes[n])]
    BY <1>2
<1> HIDE DEF f
<1> QED
    BY <1>1, <1>3 DEF Grown

\* The lines of a text, byte by byte.
LEMMA LinesGrow ==
    ASSUME NEW S, NEW bytes \in Seq(S), NEW byte \in S
    PROVE  Lines(Append(bytes, byte)) = AddToLines(Lines(bytes), byte)
<1> DEFINE n == Len(bytes)
           more == Append(bytes, byte)
<1>1. /\ n \in Nat /\ Len(more) = n + 1 /\ more[n + 1] = byte
      /\ \A k \in 1..n : more[k] = bytes[k]
    BY AppendProperties
<1> HIDE DEF n, more
<1>2. n = Len(bytes)
    BY DEF n
<1>3. PICK g : Grown(g, bytes, n) /\ Lines(bytes) = g[n]
    BY <1>1, <1>2, TheLines
<1>4. PICK f : Grown(f, more, n + 1) /\ Lines(more) = f[n + 1]
    <2>1. Len(more) \in Nat
        BY <1>1
    <2> QED
        BY <1>1, <2>1, TheLines
<1>5. \A k \in 0..n : f[k] = g[k]
    <2> DEFINE differ == {k \in 0..n : f[k] # g[k]}
    <2>1. SUFFICES ASSUME differ # {}
                   PROVE  FALSE
        OBVIOUS
    <2>2. differ \subseteq Nat
        OBVIOUS
    <2>3. PICK k \in differ : \A y \in differ : k <= y
        BY <2>1, <2>2, LeastElement
    <2>4. k \in 0..n /\ f[k] # g[k] /\ k \in Nat
        BY <2>3
    <2>5. k \in 0..n + 1
        BY <1>1, <2>4
    <2>6. /\ f[k] = IF k = 0 THEN <<<<>>>> ELSE AddToLines(f[k - 1], more[k])
          /\ g[k] = IF k = 0 THEN <<<<>>>> ELSE AddToLines(g[k - 1], bytes[k])
        BY <1>3, <1>4, <2>4, <2>5 DEF Grown
    <2>7. k # 0
        BY <2>4, <2>6
    <2>8. k - 1 \in 0..n /\ ~(k <= k - 1) /\ k \in 1..n
        BY <1>1, <2>4, <2>7
    <2>9. k - 1 \notin differ
        BY <2>3, <2>8
    <2> QED
        BY <1>1, <2>4, <2>6, <2>7, <2>8, <2>9
<1>6. f[n] = g[n]
    BY <1>1, <1>5
<1>7. f[n + 1] = AddToLines(f[n], more[n + 1])
    <2>1. n + 1 \in 0..n + 1 /\ n + 1 # 0 /\ (n + 1) - 1 = n
        BY <1>1
    <2>2. f[n + 1] = IF n + 1 = 0 THEN <<<<>>>> ELSE AddToLines(f[(n + 1) - 1], more[n + 1])
        BY <1>4, <2>1 DEF Grown
    <2> QED
        BY <2>1, <2>2
<1> QED
    BY <1>1, <1>3, <1>4, <1>6, <1>7 DEF more

LEMMA NoLines == Lines(<<>>) = <<<<>>>>
<1>1. Len(<<>>) = 0
    OBVIOUS
<1>2. PICK f : Grown(f, <<>>, 0) /\ Lines(<<>>) = f[0]
    BY <1>1, TheLines
<1>3. 0 \in 0..0
    OBVIOUS
<1> QED
    BY <1>2, <1>3 DEF Grown

-----------------------------------------------------------------------------
(***************************************************************************)
(* What the writer does with a byte, and what its buffer shows.            *)
(***************************************************************************)
LEMMA ShownIsGlyph ==
    ASSUME NEW byte \in Words
    PROVE  Shown(byte) \in Glyphs /\ (Shown(byte) = "\n" <=> byte = "\n")
<1>1. "\n" # "fe"
    OBVIOUS
<1> QED
    BY <1>1 DEF Shown, Glyphs

LEMMA ByteWrites ==
    ASSUME NEW w, NEW lines, Wrote(w, lines), NEW byte \in Words
    PROVE  Wrote(WriteStringByte(w, byte), AddToLines(lines, byte))
<1> DEFINE n == Len(lines)
           line == lines[n]
           b == Shown(byte)
<1>1. b \in Glyphs /\ (b = "\n" <=> byte = "\n")
    BY ShownIsGlyph
<1>2. /\ lines \in Seq(Seq(Glyphs)) /\ n \in Nat /\ n >= 1 /\ n \in 1..n
      /\ w.column_position = Len(line) /\ Len(line) <= BUFFER_WIDTH
    BY DEF Wrote, LinesOK
<1>3. line \in Seq(Glyphs) /\ Len(line) \in Nat /\ Last(lines) = line
    BY <1>2 DEF Last
<1>4. BUFFER_WIDTH \in Nat /\ 0 < BUFFER_WIDTH
    BY BufferAssumption
<1> HIDE DEF b
<1>5. WriteStringByte(w, byte) = WriteByte(w, b)
    BY DEF WriteStringByte, b
<1>6. CASE byte = "\n"
    <2>1. WriteByte(w, b) = NewLine(w) /\ AddToLines(lines, byte) = Append(lines, <<>>)
        BY <1>1, <1>6 DEF WriteByte, AddToLines
    <2> QED
        BY <1>5, <2>1, NewLineWrites
<1>7. CASE byte # "\n" /\ Len(line) = BUFFER_WIDTH
    <2> DEFINE v == NewLine(w)
               u == Append(lines, <<>>)
    <2>1. WriteByte(w, b) = Put(v, b)
        <3>1. w.column_position >= BUFFER_WIDTH /\ b # "\n"
            BY <1>1, <1>2, <1>4, <1>7
        <3> QED
            BY <3>1 DEF WriteByte, Put
    <2>2. AddToLines(lines, byte) = Append(lines, <<b>>)
        BY <1>3, <1>7 DEF AddToLines, b
    <2>3. Wrote(v, u)
        BY NewLineWrites
    <2>4. Len(u) = n + 1 /\ u[n + 1] = <<>> /\ Len(<<>>) = 0
        BY <1>2, AppendProperties
    <2>5. v.column_position < BUFFER_WIDTH
        BY <1>4, <2>3, <2>4 DEF Wrote
    <2>6. Wrote(Put(v, b), Longer(u, b))
        BY <1>1, <2>3, <2>5, PutWrites
    <2>7. Longer(u, b) = Append(lines, <<b>>)
        <3>1. Append(<<>>, b) = <<b>>
            OBVIOUS
        <3>2. Longer(u, b) = [u EXCEPT ![n + 1] = <<b>>]
            BY <2>4, <3>1 DEF Longer
        <3>3. <<>> \in Seq(Glyphs) /\ <<b>> \in Seq(Glyphs)
            BY <1>1
        <3>4. [Append(lines, <<>>) EXCEPT ![n + 1] = <<b>>] = Append(lines, <<b>>)
            <4> DEFINE one == <<b>>
                       none == <<>>
            <4> HIDE DEF one, none
            <4> DEFINE p == Append(lines, none)
                       q == Append(lines, one)
                       r == [p EXCEPT ![n + 1] = one]
            <4>2. none \in Seq(Glyphs) /\ one \in Seq(Glyphs)
                BY <3>3 DEF one, none
            <4>3. /\ p \in Seq(Seq(Glyphs)) /\ Len(p) = n + 1 /\ \A k \in 1..n : p[k] = lines[k]
                  /\ q \in Seq(Seq(Glyphs)) /\ Len(q) = n + 1 /\ q[n + 1] = one
                  /\ \A k \in 1..n : q[k] = lines[k]
                BY <1>2, <4>2, AppendProperties
            <4> HIDE DEF p, q
            <4>4. p = [k \in 1..n + 1 |-> p[k]] /\ q = [k \in 1..n + 1 |-> q[k]]
                BY <4>3
            <4>5. r = [k \in 1..n + 1 |-> IF k = n + 1 THEN one ELSE p[k]]
                BY <4>4
            <4>6. \A k \in 1..n + 1 : k = n + 1 \/ k \in 1..n
                BY <1>2
            <4>7. \A k \in 1..n + 1 : (IF k = n + 1 THEN one ELSE p[k]) = q[k]
                BY <4>3, <4>6
            <4>8. r = q
                BY <4>4, <4>5, <4>7
            <4> QED
                BY <4>8 DEF one, none, p, q
        <3> QED
            BY <3>2, <3>4
    <2> QED
        BY <1>5, <2>1, <2>2, <2>6, <2>7
<1>8. CASE byte # "\n" /\ Len(line) # BUFFER_WIDTH
    <2>1. w.column_position < BUFFER_WIDTH
        BY <1>2, <1>3, <1>4, <1>8
    <2>2. WriteByte(w, b) = Put(w, b)
        <3>1. ~(w.column_position >= BUFFER_WIDTH) /\ b # "\n"
            BY <1>1, <1>2, <1>3, <1>4, <1>8
        <3> QED
            BY <3>1 DEF WriteByte, Put
    <2>3. AddToLines(lines, byte) = Longer(lines, b)
        BY <1>3, <1>8 DEF AddToLines, Longer, b
    <2>4. Wrote(Put(w, b), Longer(lines, b))
        BY <1>1, <2>1, PutWrites
    <2> QED
        BY <1>5, <2>2, <2>3, <2>4
<1> QED
    BY <1>6, <1>7, <1>8

LEMMA NothingWritten == Wrote(NewWriter, <<<<>>>>)
<1> DEFINE lines == <<<<>>>>
<1>1. /\ lines \in Seq(Seq(Glyphs)) /\ lines # <<>> /\ Len(lines) = 1 /\ lines[1] = <<>>
      /\ Len(<<>>) = 0
    OBVIOUS
<1> HIDE DEF lines
<1>2. LinesOK(lines)
    <2>1. \A k \in 1..Len(lines) : k = 1
        BY <1>1
    <2>2. 0 <= BUFFER_WIDTH
        BY BufferAssumption
    <2> QED
        BY <1>1, <2>1, <2>2 DEF LinesOK
<1>3. ASSUME NEW row \in Rows, NEW col \in Columns
      PROVE  CharAt(lines, row, col) = BootChar
    <2>1. /\ row \in Nat /\ row <= BUFFER_HEIGHT /\ BUFFER_HEIGHT \in Nat
          /\ col \in Nat /\ col >= 1
        BY BufferAssumption DEF Rows, Columns
    <2> DEFINE r == RowOf(lines, row)
    <2>2. r \in Int /\ r <= 1
        BY <1>1, <2>1 DEF RowOf
    <2> HIDE DEF r
    <2>3. r >= 1 => r = 1 /\ ~(col <= Len(lines[r]))
        <3>1. r >= 1 => r = 1
            BY <2>2
        <3>2. ~(col <= 0)
            BY <2>1
        <3> QED
            BY <1>1, <3>1, <3>2
    <2>4. ~(r > 1)
        BY <2>2
    <2> QED
        BY <2>3, <2>4 DEF CharAt, r
<1>4. Panel(lines) = [row \in Rows |-> [col \in Columns |-> BootChar]]
    BY <1>3 DEF Panel
<1>5. Wrote(NewWriter, lines)
    BY <1>1, <1>2, <1>4 DEF Wrote, NewWriter
<1> QED
    BY <1>5 DEF lines

LEMMA ScreenIsPanel == \A bytes : Screen(bytes) = Panel(Lines(bytes))
    BY DEF Screen, Panel, CharAt, RowOf

-----------------------------------------------------------------------------
(***************************************************************************)
(* Messages: the functions of the kernel write theirs from the first byte. *)
(***************************************************************************)
FreshOps == {op \in Ops : op.op = "write" => op.text # <<>> /\ op.pos = 1}
Fresh(t) == t \in Seq(FreshOps)

LEMMA FreshOperations ==
    /\ \A name \in {"without_interrupts", "restore_interrupts", "hlt", "panic", "int3", "overflow_stack",
                    "load_tss", "load_idt", "initialize_pics", "read_scancode", "enable_interrupts"} :
            Op(name) \in FreshOps
    /\ \A lock \in Devices \cup {"PICS", "KEYBOARD"} : Lock(lock) \in FreshOps /\ Unlock(lock) \in FreshOps
    /\ \A device \in Devices, text \in Texts : text # <<>> => Write(device, text) \in FreshOps
    /\ \A vector \in Nat : [op |-> "end_of_interrupt", vector |-> vector] \in FreshOps
    /\ \A code \in {"Success", "Failed"} : [op |-> "exit", code |-> code] \in FreshOps
    /\ \A char \in Words : [op |-> "assert_row", char |-> char] \in FreshOps
    /\ \A suite \in Seq(TestNames) : [op |-> "for_test", suite |-> suite] \in FreshOps
<1>1. \A op \in Ops : op.op # "write" => op \in FreshOps
    BY DEF FreshOps
<1>2. /\ Printing(Devices) \subseteq Ops /\ Exiting \subseteq Ops /\ TestOps \subseteq Ops
      /\ Named({"hlt"}) \subseteq Ops
      /\ Locking({"PICS"}) \subseteq Ops /\ Locking({"KEYBOARD"}) \subseteq Ops
      /\ Named({"read_scancode", "panic"}) \subseteq Ops /\ Named({"enable_interrupts"}) \subseteq Ops
      /\ [op : {"end_of_interrupt"}, vector : Nat] \subseteq Ops
      /\ Named({"load_tss", "load_idt", "initialize_pics"}) \subseteq Ops
      /\ Named({"panic", "int3", "overflow_stack"}) \subseteq Ops
      /\ [op : {"assert_row"}, char : Words] \subseteq Ops
      /\ [op : {"for_test"}, suite : Seq(TestNames)] \subseteq Ops
    BY DEF Ops, HandlerOps, PlainOps, PanicOps, TestOps, StartOps
<1>3. /\ Named({"without_interrupts", "restore_interrupts"}) \subseteq Ops
      /\ Locking(Devices) \subseteq Ops
      /\ [op : {"write"}, device : Devices, text : Texts, pos : Nat] \subseteq Ops
    BY <1>2 DEF Printing
<1>4. ASSUME NEW names, NEW name \in names
      PROVE  Op(name) \in Named(names) /\ Op(name).op = name
    BY DEF Named, Op
<1>5. ASSUME NEW names, NEW lock \in names
      PROVE  /\ Lock(lock) \in Locking(names) /\ Lock(lock).op = "lock"
             /\ Unlock(lock) \in Locking(names) /\ Unlock(lock).op = "unlock"
    BY DEF Locking, Lock, Unlock
<1>6. \A name \in {"without_interrupts", "restore_interrupts", "hlt", "panic", "int3", "overflow_stack",
                    "load_tss", "load_idt", "initialize_pics", "read_scancode", "enable_interrupts"} :
            Op(name) \in FreshOps
    <2> SUFFICES ASSUME NEW name \in {"without_interrupts", "restore_interrupts", "hlt", "panic", "int3",
                                      "overflow_stack", "load_tss", "load_idt", "initialize_pics",
                                      "read_scancode", "enable_interrupts"}
                 PROVE  Op(name) \in FreshOps
        OBVIOUS
    <2>1. PICK names \in {{"without_interrupts", "restore_interrupts"}, {"hlt"},
                          {"panic", "int3", "overflow_stack"}, {"load_tss", "load_idt", "initialize_pics"},
                          {"read_scancode", "panic"}, {"enable_interrupts"}} : name \in names
        OBVIOUS
    <2>2. Named(names) \subseteq Ops
        BY <1>2, <1>3
    <2>3. Op(name) \in Named(names) /\ Op(name).op = name
        BY <1>4, <2>1
    <2> QED
        BY <1>1, <2>2, <2>3
<1>7. \A lock \in Devices \cup {"PICS", "KEYBOARD"} : Lock(lock) \in FreshOps /\ Unlock(lock) \in FreshOps
    <2> SUFFICES ASSUME NEW lock \in Devices \cup {"PICS", "KEYBOARD"}
                 PROVE  Lock(lock) \in FreshOps /\ Unlock(lock) \in FreshOps
        OBVIOUS
    <2>1. PICK names \in {Devices, {"PICS"}, {"KEYBOARD"}} : lock \in names
        OBVIOUS
    <2>2. Locking(names) \subseteq Ops
        BY <1>2, <1>3
    <2> QED
        BY <1>1, <1>5, <2>1, <2>2
<1>8. \A device \in Devices, text \in Texts : text # <<>> => Write(device, text) \in FreshOps
    <2> SUFFICES ASSUME NEW device \in Devices, NEW text \in Texts, text # <<>>
                 PROVE  Write(device, text) \in FreshOps
        OBVIOUS
    <2> DEFINE op == Write(device, text)
    <2>1. op \in [op : {"write"}, device : Devices, text : Texts, pos : Nat]
        BY DEF Write
    <2>2. op.text = text /\ op.pos = 1
        BY DEF Write
    <2> HIDE DEF op
    <2>3. op \in FreshOps
        BY <1>3, <2>1, <2>2 DEF FreshOps
    <2> QED
        BY <2>3 DEF op
<1>9. \A vector \in Nat : [op |-> "end_of_interrupt", vector |-> vector] \in FreshOps
    BY <1>1, <1>2
<1>10. \A code \in {"Success", "Failed"} : [op |-> "exit", code |-> code] \in FreshOps
    BY <1>1, <1>2 DEF Exiting
<1>11. \A char \in Words : [op |-> "assert_row", char |-> char] \in FreshOps
    BY <1>1, <1>2
<1>12. \A suite \in Seq(TestNames) : [op |-> "for_test", suite |-> suite] \in FreshOps
    BY <1>1, <1>2
<1> QED
    BY <1>6, <1>7, <1>8, <1>9, <1>10, <1>11, <1>12

LEMMA FreshJoined == \A s, t : Fresh(s) /\ Fresh(t) => Fresh(s \o t)
    BY ConcatProperties DEF Fresh

LEMMA FreshPrint ==
    ASSUME NEW device \in Devices, NEW text \in Texts, text # <<>>
    PROVE  Fresh(print(device, text))
<1>1. /\ Op("without_interrupts") \in FreshOps /\ Op("restore_interrupts") \in FreshOps
      /\ Lock(device) \in FreshOps /\ Unlock(device) \in FreshOps /\ Write(device, text) \in FreshOps
    BY FreshOperations
<1> DEFINE a == Op("without_interrupts")
           b == Lock(device)
           c == Write(device, text)
           d == Unlock(device)
           e == Op("restore_interrupts")
<1> HIDE DEF a, b, c, d, e
<1>2. <<a, b, c, d, e>> \in Seq(FreshOps)
    BY <1>1 DEF a, b, c, d, e
<1> QED
    BY <1>2 DEF print, Fresh, a, b, c, d, e

LEMMA FreshPrints ==
    /\ \A text \in Texts : text # <<>> => Fresh(println(text))
    /\ \A word \in Words : Fresh(serial_print(word))
<1>1. \A word \in Words : <<word>> \in Texts /\ <<word>> # <<>>
    BY OneWord DEF Texts
<1> QED
    BY <1>1, FreshPrint DEF println, serial_print, Devices

LEMMA FreshEnds ==
    /\ Fresh(hlt_loop) /\ Fresh(panic) /\ \A code \in {"Success", "Failed"} : Fresh(exit_qemu(code))
<1>1. Fresh(hlt_loop)
    BY FreshOperations DEF Fresh, hlt_loop
<1>2. \A code \in {"Success", "Failed"} : Fresh(exit_qemu(code))
    BY FreshOperations DEF Fresh, exit_qemu
<1>3. Fresh(serial_print("[failed]")) /\ Fresh(serial_print("Error"))
    BY FreshPrints DEF Words
<1>4. Fresh(test_panic_handler)
    BY <1>1, <1>2, <1>3, FreshJoined DEF test_panic_handler
<1>5. Fresh(println(<<"P", "\n">>))
    <2>1. <<"P", "\n">> \in Texts /\ <<"P", "\n">> # <<>>
        BY TwoWords DEF Texts, Words
    <2> QED
        BY <2>1, FreshPrints
<1>6. Fresh(panic)
    BY <1>1, <1>4, <1>5, FreshJoined DEF panic
<1> QED
    BY <1>1, <1>2, <1>6

LEMMA FreshHandlers == \A vector \in DOMAIN IDT : Fresh(IDT[vector])
<1>1. ASSUME NEW vector \in Nat PROVE Fresh(notify_end_of_interrupt(vector))
    <2> DEFINE a == Lock("PICS")
               b == [op |-> "end_of_interrupt", vector |-> vector]
               c == Unlock("PICS")
    <2>1. a \in FreshOps /\ b \in FreshOps /\ c \in FreshOps
        BY FreshOperations
    <2> HIDE DEF a, b, c
    <2>2. <<a, b, c>> \in Seq(FreshOps)
        BY <2>1
    <2> QED
        BY <2>2 DEF notify_end_of_interrupt, Fresh, a, b, c
<1>2. InterruptIndex.Timer \in Nat
    BY DEF InterruptIndex, PIC_1_OFFSET
<1>3. Fresh(timer_interrupt_handler)
    <2>1. <<".">> \in Texts /\ <<".">> # <<>>
        BY OneWord DEF Texts, Words
    <2> QED
        BY <1>1, <1>2, <2>1, FreshPrints, FreshJoined DEF timer_interrupt_handler
<1>4. Fresh(keyboard_handler)
    <2> DEFINE a == Lock("KEYBOARD")
               b == Op("read_scancode")
               c == Unlock("KEYBOARD")
    <2>1. a \in FreshOps /\ b \in FreshOps /\ c \in FreshOps
        BY FreshOperations
    <2> HIDE DEF a, b, c
    <2>2. Fresh(<<a, b>>) /\ Fresh(<<c>>)
        BY <2>1 DEF Fresh
    <2>3. Fresh(notify_end_of_interrupt(InterruptIndex.Timer))
        BY <1>1, <1>2
    <2>4. keyboard_handler = (<<a, b>> \o notify_end_of_interrupt(InterruptIndex.Timer)) \o <<c>>
        BY DEF keyboard_handler, a, b, c
    <2> QED
        BY <2>2, <2>3, <2>4, FreshJoined
<1>5. Fresh(breakpoint_handler)
    <2>1. <<"B", "\n">> \in Texts /\ <<"B", "\n">> # <<>>
        BY TwoWords DEF Texts, Words
    <2> QED
        BY <2>1, FreshPrints DEF breakpoint_handler
<1>6. Fresh(double_fault_handler)
    BY FreshOperations DEF Fresh, double_fault_handler
<1> SUFFICES ASSUME NEW vector \in DOMAIN IDT PROVE Fresh(IDT[vector])
    OBVIOUS
<1>7. IDT[vector] \in {timer_interrupt_handler, keyboard_handler, breakpoint_handler, double_fault_handler}
    BY DEF IDT
<1> QED
    BY <1>3, <1>4, <1>5, <1>6, <1>7

LEMMA FreshTests ==
    ASSUME NEW suite \in Seq(TestNames)
    PROVE  Fresh(for_test(suite)) /\ Fresh(test_runner(suite))
<1>1. Fresh(<<>>)
    BY DEF Fresh
<1>2. ASSUME NEW char \in Words PROVE Fresh(println_output(char))
    <2> DEFINE a == Op("without_interrupts")
               b == Lock("WRITER")
               c == Write("WRITER", <<"\n", "o", "\n">>)
               d == [op |-> "assert_row", char |-> char]
               e == Unlock("WRITER")
               f == Op("restore_interrupts")
    <2>1. <<"\n", "o", "\n">> \in Texts /\ <<"\n", "o", "\n">> # <<>>
        BY DEF Texts, Words
    <2>2. /\ a \in FreshOps /\ b \in FreshOps /\ c \in FreshOps
          /\ d \in FreshOps /\ e \in FreshOps /\ f \in FreshOps
        BY <2>1, FreshOperations DEF Devices
    <2> HIDE DEF a, b, c, d, e, f
    <2>3. <<a, b, c, d, e, f>> \in Seq(FreshOps)
        BY <2>2
    <2> QED
        BY <2>3 DEF println_output, Fresh, a, b, c, d, e, f
<1>3. ASSUME NEW test \in TestNames PROVE Fresh(TestBody(test))
    <2>1. <<"s", "\n">> \in Texts /\ <<"s", "\n">> # <<>>
        BY TwoWords DEF Texts, Words
    <2>2. Fresh(println(<<"s", "\n">>))
        BY <2>1, FreshPrints
    <2>3. Fresh(println_output("o")) /\ Fresh(println_output("x"))
        BY <1>2 DEF Words
    <2>4. Fresh(<<Op("int3")>>) /\ Fresh(<<Op("panic")>>) /\ Fresh(<<Op("overflow_stack")>>)
        BY FreshOperations DEF Fresh
    <2>5. TestBody(test) \in {<<>>, println(<<"s", "\n">>), println_output("o"), println_output("x"),
                              <<Op("int3")>>, <<Op("panic")>>, <<Op("overflow_stack")>>}
        BY <1>3 DEF TestBody, TestNames
    <2> QED
        BY <1>1, <2>2, <2>3, <2>4, <2>5
<1>4. ASSUME NEW test \in TestNames PROVE Fresh(run(test))
    <2>1. test \in Words /\ "[ok]" \in Words
        BY DEF Words
    <2> QED
        BY <1>3, <2>1, FreshPrints, FreshJoined DEF run
<1>5. Fresh(for_test(suite))
    <2>1. CASE suite = <<>>
        BY <1>1, <2>1 DEF for_test
    <2>2. CASE suite # <<>>
        <3> DEFINE again == [op |-> "for_test", suite |-> Tail(suite)]
        <3>1. Head(suite) \in TestNames /\ Tail(suite) \in Seq(TestNames)
            BY <2>2
        <3>2. Fresh(<<again>>)
            <4>1. again \in FreshOps
                BY <3>1, FreshOperations
            <4> HIDE DEF again
            <4> QED
                BY <4>1 DEF Fresh
        <3>3. for_test(suite) = run(Head(suite)) \o <<again>>
            BY <2>2 DEF for_test
        <3> QED
            BY <1>4, <3>1, <3>2, <3>3, FreshJoined
    <2> QED
        BY <2>1, <2>2
<1>6. Fresh(serial_print("Running"))
    BY FreshPrints DEF Words
<1>7. Fresh(test_runner(suite))
    BY <1>5, <1>6, FreshEnds, FreshJoined DEF test_runner
<1> QED
    BY <1>5, <1>7

LEMMA FreshStart ==
    ASSUME NEW program \in {"main", "main_test", "lib_test"}, NEW suite \in Seq(TestNames)
    PROVE  Fresh(start(program, suite))
<1>1. Fresh(init)
    <2> DEFINE a == Lock("PICS")
               b == Op("initialize_pics")
               c == Unlock("PICS")
               d == Op("enable_interrupts")
    <2>1. a \in FreshOps /\ b \in FreshOps /\ c \in FreshOps /\ d \in FreshOps
        BY FreshOperations
    <2> HIDE DEF a, b, c, d
    <2>2. Fresh(<<a, b, c, d>>)
        BY <2>1 DEF Fresh
    <2>3. Fresh(gdt_init) /\ Fresh(init_idt)
        BY FreshOperations DEF Fresh, gdt_init, init_idt
    <2>4. init = (gdt_init \o init_idt) \o <<a, b, c, d>>
        BY DEF init, a, b, c, d
    <2> QED
        BY <2>2, <2>3, <2>4, FreshJoined
<1>2. Fresh(println(<<"H", "i", "!", "\n">>)) /\ Fresh(println(<<"c", "\n">>))
    <2>1. <<"H", "i", "!", "\n">> \in Texts /\ <<"H", "i", "!", "\n">> # <<>>
        BY DEF Texts, Words
    <2>2. <<"c", "\n">> \in Texts /\ <<"c", "\n">> # <<>>
        BY TwoWords DEF Texts, Words
    <2> QED
        BY <2>1, <2>2, FreshPrints
<1>3. Fresh(hlt_loop) /\ Fresh(test_runner(suite))
    BY FreshEnds, FreshTests
<1> DEFINE p == println(<<"H", "i", "!", "\n">>)
           q == println(<<"c", "\n">>)
<1>4. start(program, suite) \in {((p \o init) \o q) \o hlt_loop,
                                 (((p \o init) \o test_runner(suite)) \o q) \o hlt_loop,
                                 (init \o test_runner(suite)) \o hlt_loop}
    BY DEF start
<1> HIDE DEF p, q
<1>5. Fresh(p) /\ Fresh(q)
    BY <1>2 DEF p, q
<1>6. Fresh(((p \o init) \o q) \o hlt_loop)
    BY <1>1, <1>3, <1>5, FreshJoined
<1>7. Fresh((((p \o init) \o test_runner(suite)) \o q) \o hlt_loop)
    BY <1>1, <1>3, <1>5, FreshJoined
<1>8. Fresh((init \o test_runner(suite)) \o hlt_loop)
    BY <1>1, <1>3, FreshJoined
<1> QED
    BY <1>4, <1>6, <1>7, <1>8

-----------------------------------------------------------------------------
(***************************************************************************)
(* The messages on the devices and on the screen: the invariant.           *)
(***************************************************************************)
Entry == [text : Texts, pos : Nat]
WriteOps == [op : {"write"}, device : Devices, text : Texts, pos : Nat]
FreshFrame == [todo : Seq(FreshOps), flags : BOOLEAN, saved : BOOLEAN]

LogOK ==
    /\ log \in [Devices -> Seq(Entry)]
    /\ \A d \in Devices : WholeMessages(log[d]) /\ Bytes(log[d]) \in Seq(Words)
WriterOK == Wrote(writer, Lines(Bytes(log["WRITER"])))

\* The last message is all there.
Complete(entries) == entries # <<>> => entries[Len(entries)].pos = Len(entries[Len(entries)].text)

\* Nobody is in the middle of a message, or whoever has the processor is, and then
\* the byte that comes next is the one its write operation stands at.
Quiet(f, l) == f \in Seq(FreshFrame) /\ \A d \in Devices : Complete(l[d])
Speaking(f, l) ==
    LET n == Len(f)
        op == f[n].todo[1] IN
    /\ f \in Seq(Frame) /\ f # <<>>
    /\ f[n].todo # <<>> /\ op \in WriteOps /\ op.pos \in 2..Len(op.text)
    /\ [f EXCEPT ![n].todo = Tail(f[n].todo)] \in Seq(FreshFrame)
    /\ l[op.device] # <<>>
    /\ l[op.device][Len(l[op.device])] = [text |-> op.text, pos |-> op.pos - 1]
    /\ \A d \in Devices \ {op.device} : Complete(l[d])

MessagesOK == LogOK /\ WriterOK /\ (Quiet(frames, log) \/ Speaking(frames, log))

LEMMA WritesAreWriteOps ==
    ASSUME NEW op \in Ops, op.op = "write"
    PROVE  op \in WriteOps
<1>1. op \notin Exiting /\ \A names : op \notin Locking(names)
    BY DEF Exiting, Locking
<1>2. op \notin TestOps
    BY Kinds
<1>3. \A names : "write" \notin names => op \notin Named(names)
    BY DEF Named
<1>4. op \notin [op : {"end_of_interrupt"}, vector : Nat]
    OBVIOUS
<1>5. \A devices : op \in Printing(devices) => op \in [op : {"write"}, device : devices, text : Texts, pos : Nat]
    BY DEF Printing, Named, Locking
<1>6. op \in Printing(Devices) \cup Printing({"WRITER"})
    BY <1>1, <1>2, <1>3, <1>4 DEF Ops, StartOps, HandlerOps, PlainOps, PanicOps
<1> QED
    BY <1>5, <1>6 DEF WriteOps, Devices

\* One more byte of a message.
LEMMA OneMoreByte ==
    ASSUME NEW entries \in Seq(Entry), WholeMessages(entries), Bytes(entries) \in Seq(Words),
           NEW e \in Entry, e.pos \in 1..Len(e.text),
           \/ e.pos = 1 /\ Complete(entries)
           \/ /\ e.pos # 1 /\ entries # <<>>
              /\ entries[Len(entries)] = [text |-> e.text, pos |-> e.pos - 1]
    PROVE  LET more == Append(entries, e) IN
           /\ more \in Seq(Entry) /\ WholeMessages(more)
           /\ e.text[e.pos] \in Words /\ Bytes(more) = Append(Bytes(entries), e.text[e.pos])
           /\ Bytes(more) \in Seq(Words)
           /\ more # <<>> /\ more[Len(more)] = e
<1> DEFINE n == Len(entries)
           more == Append(entries, e)
           b == e.text[e.pos]
<1>1. /\ n \in Nat /\ more \in Seq(Entry) /\ Len(more) = n + 1 /\ more[n + 1] = e
      /\ \A k \in 1..n : more[k] = entries[k]
    BY AppendProperties
<1>2. DOMAIN entries = 1..n /\ DOMAIN more = 1..n + 1
    BY <1>1
<1>3. b \in Words
    BY DEF Entry, Texts
<1>4. n = Len(entries)
    OBVIOUS
<1> HIDE DEF n, more
<1>5. WholeMessages(more)
    <2> SUFFICES ASSUME NEW i \in 1..n + 1
                 PROVE  LET this == more[i] IN
                        IF i = 1 \/ this.pos = 1
                        THEN this.pos = 1 /\ (i > 1 => more[i - 1].pos = Len(more[i - 1].text))
                        ELSE more[i - 1] = [this EXCEPT !.pos = @ - 1]
        BY <1>2 DEF WholeMessages
    <2>1. CASE i # n + 1
        <3>1. i \in 1..n /\ more[i] = entries[i] /\ (i > 1 => i - 1 \in 1..n /\ more[i - 1] = entries[i - 1])
            BY <1>1, <2>1
        <3>2. LET this == entries[i] IN
                        IF i = 1 \/ this.pos = 1
                        THEN this.pos = 1 /\ (i > 1 => entries[i - 1].pos = Len(entries[i - 1].text))
                        ELSE entries[i - 1] = [this EXCEPT !.pos = @ - 1]
            BY <1>2, <3>1 DEF WholeMessages
        <3>3. i # 1 => i > 1
            OBVIOUS
        <3> QED
            BY <3>1, <3>2, <3>3
    <2>2. CASE i = n + 1
        <3>1. more[i] = e
            BY <1>1, <2>2
        <3>2. entries # <<>> <=> i > 1
            BY <1>1, <1>4, <2>2
        <3>3. i > 1 => more[i - 1] = entries[n] /\ i - 1 = n /\ n \in 1..n
            BY <1>1, <2>2
        <3>4. CASE e.pos = 1 /\ Complete(entries)
            BY <1>4, <3>1, <3>2, <3>3, <3>4 DEF Complete
        <3>5. CASE /\ e.pos # 1 /\ entries # <<>>
                   /\ entries[Len(entries)] = [text |-> e.text, pos |-> e.pos - 1]
            <4>1. [e EXCEPT !.pos = @ - 1] = [text |-> e.text, pos |-> e.pos - 1]
                BY DEF Entry
            <4>2. i # 1 /\ more[i - 1] = [text |-> e.text, pos |-> e.pos - 1]
                BY <1>4, <3>2, <3>3, <3>5
            <4> QED
                BY <3>1, <3>5, <4>1, <4>2
        <3> QED
            BY <3>4, <3>5
    <2> QED
        BY <2>1, <2>2
<1>6. Bytes(more) = Append(Bytes(entries), b)
    <2> DEFINE old == Bytes(entries)
    <2>1. old = [i \in 1..n |-> entries[i].text[entries[i].pos]]
        BY <1>2 DEF Bytes
    <2>2. Bytes(more) = [i \in 1..n + 1 |-> more[i].text[more[i].pos]]
        BY <1>2 DEF Bytes
    <2>3. Len(old) = n /\ old \in Seq(Words)
        BY <1>1, <2>1
    <2> HIDE DEF old, b
    <2>4. Append(old, b) = [i \in 1..n + 1 |-> IF i = n + 1 THEN b ELSE old[i]]
        <3> DEFINE s == Append(old, b)
        <3>1. s \in Seq(Words) /\ Len(s) = n + 1 /\ s[n + 1] = b /\ \A i \in 1..n : s[i] = old[i]
            BY <1>3, <2>3, AppendProperties
        <3> HIDE DEF s
        <3>2. s = [i \in 1..n + 1 |-> s[i]]
            BY <3>1
        <3>3. ASSUME NEW i \in 1..n + 1
              PROVE  s[i] = IF i = n + 1 THEN b ELSE old[i]
            <4>1. i # n + 1 => i \in 1..n
                BY <1>1
            <4> QED
                BY <3>1, <4>1
        <3>4. s = [i \in 1..n + 1 |-> IF i = n + 1 THEN b ELSE old[i]]
            BY <3>2, <3>3
        <3> QED
            BY <3>4 DEF s
    <2>5. ASSUME NEW i \in 1..n + 1
          PROVE  more[i].text[more[i].pos] = IF i = n + 1 THEN b ELSE old[i]
        <3>1. CASE i = n + 1
            BY <1>1, <3>1 DEF b
        <3>2. CASE i # n + 1
            <4>1. i \in 1..n
                BY <1>1, <3>2
            <4> QED
                BY <1>1, <2>1, <3>2, <4>1
        <3> QED
            BY <3>1, <3>2
    <2> QED
        BY <2>2, <2>4, <2>5 DEF old
<1>7. Bytes(more) \in Seq(Words)
    BY <1>3, <1>6, AppendProperties
<1>8. more # <<>> /\ more[Len(more)] = e
    BY <1>1
<1> QED
    BY <1>1, <1>3, <1>5, <1>6, <1>7, <1>8 DEF more

\* A frame's code replaced by fresh code.
LEMMA FreshContinued ==
    ASSUME NEW f \in Seq(FreshFrame), f # <<>>, NEW u, Fresh(u)
    PROVE  [f EXCEPT ![Len(f)].todo = u] \in Seq(FreshFrame)
<1> DEFINE n == Len(f)
           g == [f[n] EXCEPT !.todo = u]
<1>1. n \in 1..n /\ n \in Nat
    <2>1. n \in Nat /\ n >= 1
        OBVIOUS
    <2> HIDE DEF n
    <2> QED
        BY <2>1
<1>2. f[n] \in FreshFrame
    BY <1>1
<1>3. g \in FreshFrame
    BY <1>2 DEF FreshFrame, Fresh
<1>4. [f EXCEPT ![n].todo = u] = [f EXCEPT ![n] = g]
    OBVIOUS
<1> HIDE DEF g, n
<1>5. Len(f) = n
    BY DEF n
<1>6. [f EXCEPT ![n] = g] \in Seq(FreshFrame)
    BY <1>1, <1>3, <1>5
<1> QED
    BY <1>4, <1>6 DEF n, g

\* The write operation that the processor is at: what comes after it is fresh, and
\* its byte is the one that its device waits for.
LEMMA NextByteIsDue ==
    ASSUME StateOK, CodeOK, Len(frames) \in {1, 2}, Quiet(frames, log) \/ Speaking(frames, log),
           At("write")
    PROVE  LET n == Len(frames)
               t == frames[n].todo
               op == t[1] IN
           /\ op \in WriteOps /\ op.pos \in 1..Len(op.text)
           /\ Fresh(Tail(t)) /\ Continue(Rest) \in Seq(FreshFrame) /\ NextOp = op /\ Rest = Tail(t)
           /\ \A d \in Devices \ {op.device} : Complete(log[d])
           /\ \/ op.pos = 1 /\ Complete(log[op.device])
              \/ /\ op.pos # 1 /\ log[op.device] # <<>>
                 /\ log[op.device][Len(log[op.device])] = [text |-> op.text, pos |-> op.pos - 1]
<1> DEFINE n == Len(frames)
           t == frames[n].todo
           op == t[1]
<1>1. t # <<>> /\ t \in Seq(Ops) /\ op \in Ops /\ op.op = "write" /\ NextOp = op /\ Rest = Tail(t)
    BY Taken
<1>2. op \in WriteOps
    BY <1>1, WritesAreWriteOps
<1>3. n \in 1..n /\ frames \in Seq(Frame) /\ frames # <<>>
    <2>1. n = 1 \/ n = 2
        OBVIOUS
    <2>2. frames \in Seq(Frame)
        BY DEF StateOK
    <2>3. frames # <<>>
        BY <2>1
    <2> HIDE DEF n
    <2> QED
        BY <2>1, <2>2, <2>3
<1>4. Continue(Rest) = [frames EXCEPT ![n].todo = Tail(t)]
    BY <1>1 DEF Continue
<1>5. CASE Quiet(frames, log)
    <2>1. frames \in Seq(FreshFrame) /\ \A d \in Devices : Complete(log[d])
        BY <1>5 DEF Quiet
    <2>2. frames[n] \in FreshFrame
        BY <1>3, <2>1
    <2>3. t \in Seq(FreshOps)
        BY <2>2 DEF FreshFrame
    <2>4. op \in FreshOps /\ Tail(t) \in Seq(FreshOps)
        BY <1>1, <2>3
    <2>5. op.text # <<>> /\ op.pos = 1 /\ op.text \in Texts
        BY <1>1, <1>2, <2>4 DEF FreshOps, WriteOps
    <2>6. 1 \in 1..Len(op.text)
        BY <2>5 DEF Texts
    <2>7. Continue(Rest) \in Seq(FreshFrame)
        <3>1. Fresh(Tail(t))
            BY <2>4 DEF Fresh
        <3> HIDE DEF t
        <3>2. [frames EXCEPT ![n].todo = Tail(t)] \in Seq(FreshFrame)
            BY <1>3, <2>1, <3>1, FreshContinued
        <3> QED
            BY <1>4, <3>2
    <2>8. op.device \in Devices
        BY <1>2 DEF WriteOps
    <2> QED
        BY <1>1, <1>2, <2>1, <2>4, <2>5, <2>6, <2>7, <2>8 DEF Fresh
<1>6. CASE Speaking(frames, log)
    <2>1. /\ op.pos \in 2..Len(op.text)
          /\ [frames EXCEPT ![n].todo = Tail(t)] \in Seq(FreshFrame)
          /\ log[op.device] # <<>>
          /\ log[op.device][Len(log[op.device])] = [text |-> op.text, pos |-> op.pos - 1]
          /\ \A d \in Devices \ {op.device} : Complete(log[d])
        BY <1>6 DEF Speaking
    <2>2. op.pos \in 1..Len(op.text) /\ op.pos # 1
        <3>1. op.text \in Seq(Words)
            BY <1>2 DEF WriteOps, Texts
        <3> QED
            BY <2>1, <3>1
    <2>3. Fresh(Tail(t))
        <3> DEFINE f == [frames EXCEPT ![n].todo = Tail(t)]
        <3>1. n \in DOMAIN frames /\ frames[n] \in Frame
            BY <1>3
        <3>2. f[n].todo = Tail(t)
            BY <3>1 DEF Frame
        <3>3. Len(f) = n
            BY <1>3
        <3>4. f \in Seq(FreshFrame)
            BY <2>1
        <3> HIDE DEF f
        <3>5. f[n] \in FreshFrame
            BY <1>3, <3>3, <3>4
        <3> QED
            BY <3>2, <3>5 DEF FreshFrame, Fresh
    <2> QED
        BY <1>1, <1>2, <1>4, <2>1, <2>2, <2>3
<1> QED
    BY <1>5, <1>6

LEMMA WriteOneSteps ==
    ASSUME StateOK, CodeOK, Len(frames) \in {1, 2}, MessagesOK, WriteOne
    PROVE  MessagesOK'
<1> DEFINE n == Len(frames)
           t == frames[n].todo
           op == t[1]
           d == op.device
           e == [text |-> op.text, pos |-> op.pos]
<1>1. /\ op \in WriteOps /\ op.pos \in 1..Len(op.text)
      /\ Fresh(Tail(t)) /\ Continue(Rest) \in Seq(FreshFrame) /\ NextOp = op /\ Rest = Tail(t)
      /\ \A c \in Devices \ {d} : Complete(log[c])
      /\ \/ op.pos = 1 /\ Complete(log[d])
         \/ /\ op.pos # 1 /\ log[d] # <<>>
            /\ log[d][Len(log[d])] = [text |-> op.text, pos |-> op.pos - 1]
    BY NextByteIsDue DEF MessagesOK, WriteOne
<1>2. /\ writer' = IF d = "WRITER" THEN WriteStringByte(writer, op.text[op.pos]) ELSE writer
      /\ log' = [log EXCEPT ![d] = Append(@, e)]
      /\ frames' = Continue(IF op.pos = Len(op.text) THEN Rest
                            ELSE <<[op EXCEPT !.pos = @ + 1]>> \o Rest)
    BY <1>1 DEF WriteOne
<1>3. /\ d \in Devices /\ op.text \in Texts /\ op.pos \in Nat /\ e \in Entry
      /\ e.text = op.text /\ e.pos = op.pos
    BY <1>1 DEF WriteOps, Entry
<1>4. /\ log \in [Devices -> Seq(Entry)]
      /\ \A c \in Devices : WholeMessages(log[c]) /\ Bytes(log[c]) \in Seq(Words)
      /\ Wrote(writer, Lines(Bytes(log["WRITER"])))
    BY DEF MessagesOK, LogOK, WriterOK
<1>5. log[d] \in Seq(Entry)
    BY <1>3, <1>4
<1> DEFINE more == Append(log[d], e)
           b == op.text[op.pos]
<1>6. /\ more \in Seq(Entry) /\ WholeMessages(more)
      /\ b \in Words /\ Bytes(more) = Append(Bytes(log[d]), b)
      /\ Bytes(more) \in Seq(Words)
      /\ more # <<>> /\ more[Len(more)] = e
    <2>1. /\ WholeMessages(log[d]) /\ Bytes(log[d]) \in Seq(Words)
          /\ e.pos \in 1..Len(e.text)
          /\ \/ e.pos = 1 /\ Complete(log[d])
             \/ /\ e.pos # 1 /\ log[d] # <<>>
                /\ log[d][Len(log[d])] = [text |-> e.text, pos |-> e.pos - 1]
        BY <1>1, <1>3, <1>4
    <2> HIDE DEF e, d
    <2>2. LET m == Append(log[d], e) IN
           /\ m \in Seq(Entry) /\ WholeMessages(m)
           /\ e.text[e.pos] \in Words /\ Bytes(m) = Append(Bytes(log[d]), e.text[e.pos])
           /\ Bytes(m) \in Seq(Words)
           /\ m # <<>> /\ m[Len(m)] = e
        BY <1>3, <1>5, <2>1, OneMoreByte
    <2> QED
        BY <1>3, <2>2
<1>7. log' = [log EXCEPT ![d] = more]
    BY <1>2
<1> HIDE DEF more, e, b, d, op
<1>8. log'[d] = more /\ \A c \in Devices : c # d => log'[c] = log[c]
    BY <1>3, <1>4, <1>7
<1>9. LogOK'
    <2>1. log' \in [Devices -> Seq(Entry)]
        BY <1>4, <1>6, <1>7
    <2>2. \A c \in Devices : WholeMessages(log'[c]) /\ Bytes(log'[c]) \in Seq(Words)
        BY <1>4, <1>6, <1>8
    <2> QED
        BY <2>1, <2>2 DEF LogOK
<1>10. WriterOK'
    <2>1. CASE d = "WRITER"
        <3>1. writer' = WriteStringByte(writer, b) /\ log'["WRITER"] = more
            BY <1>2, <1>8, <2>1 DEF b
        <3>2. Lines(Bytes(more)) = AddToLines(Lines(Bytes(log["WRITER"])), b)
            BY <1>3, <1>4, <1>6, <2>1, LinesGrow
        <3>3. Wrote(WriteStringByte(writer, b), AddToLines(Lines(Bytes(log["WRITER"])), b))
            BY <1>4, <1>6, ByteWrites
        <3> QED
            BY <3>1, <3>2, <3>3 DEF WriterOK
    <2>2. CASE d # "WRITER"
        <3>1. writer' = writer /\ log'["WRITER"] = log["WRITER"]
            BY <1>2, <1>8, <2>2 DEF Devices
        <3> QED
            BY <1>4, <3>1 DEF WriterOK
    <2> QED
        BY <2>1, <2>2
<1>11. CASE op.pos = Len(op.text)
    <2>1. frames' \in Seq(FreshFrame)
        BY <1>1, <1>2, <1>11
    <2>2. \A c \in Devices : Complete(log'[c])
        <3>1. Complete(log'[d])
            BY <1>3, <1>6, <1>8, <1>11 DEF Complete
        <3>2. \A c \in Devices \ {d} : Complete(log'[c])
            BY <1>1, <1>8 DEF d
        <3> QED
            BY <3>1, <3>2
    <2>3. Quiet(frames', log')
        BY <2>1, <2>2 DEF Quiet
    <2> QED
        BY <1>9, <1>10, <2>3 DEF MessagesOK
<1>12. CASE op.pos # Len(op.text)
    <2> DEFINE v == [op EXCEPT !.pos = @ + 1]
               u == <<v>> \o Tail(t)
               f == Continue(u)
    <2>1. frames' = f
        BY <1>1, <1>2, <1>12 DEF op
    <2>2. v \in WriteOps /\ v.pos = op.pos + 1 /\ v.text = op.text /\ v.device = d /\ v.op = "write"
        BY <1>1 DEF WriteOps, d, op
    <2>3. t # <<>> /\ t \in Seq(Ops) /\ op \in Ops /\ op.op = "write" /\ Chained(t)
        <3>1. At("write")
            BY DEF WriteOne
        <3>2. t # <<>> /\ t \in Seq(Ops) /\ op \in Ops /\ op.op = "write"
            BY <3>1, Taken DEF op
        <3>3. Chained(t)
            BY TopFrame
        <3> QED
            BY <3>2, <3>3
    <2>4. u \in Seq(Ops) /\ u # <<>> /\ u[1] = v /\ Tail(u) = Tail(t)
        <3>1. Tail(t) \in Seq(Ops)
            BY <2>3
        <3>2. v \in Ops
            BY <2>3, NextByte DEF SameKind
        <3> DEFINE r == Tail(t)
        <3> HIDE DEF r, v
        <3>3. /\ <<v>> \o r \in Seq(Ops) /\ <<v>> \o r # <<>> /\ (<<v>> \o r)[1] = v
              /\ Tail(<<v>> \o r) = r
            BY <3>1, <3>2 DEF r
        <3> QED
            BY <3>3 DEF r, v
    <2> HIDE DEF u, v
    <2>5. f \in Seq(Frame) /\ Len(f) = n /\ f[n].todo = u /\ f # <<>>
        <3>1. f \in Seq(Frame) /\ Len(f) = n /\ f[n].todo = u
            BY <2>4, Continued
        <3>2. \A s \in Seq(Frame) : Len(s) \in {1, 2} => s # <<>>
            OBVIOUS
        <3> QED
            BY <3>1, <3>2
    <2>6. [f EXCEPT ![n].todo = Tail(u)] \in Seq(FreshFrame)
        <3>1. Continue(Rest) = [frames EXCEPT ![n].todo = Tail(t)]
            BY <1>1 DEF Continue
        <3>2. f = [frames EXCEPT ![n].todo = u]
            BY DEF Continue
        <3>3. n \in DOMAIN frames /\ frames \in Seq(Frame)
            BY TopFrame DEF StateOK
        <3> DEFINE r == Tail(t)
        <3> HIDE DEF r, f, n
        <3>4. [[frames EXCEPT ![n].todo = u] EXCEPT ![n].todo = r] = [frames EXCEPT ![n].todo = r]
            BY <3>3
        <3>5. [f EXCEPT ![n].todo = r] = [frames EXCEPT ![n].todo = r]
            BY <3>2, <3>4 DEF n
        <3> QED
            BY <1>1, <2>4, <3>1, <3>5 DEF r
    <2>7. v.pos \in 2..Len(v.text)
        <3>1. op.pos \in Nat /\ op.pos >= 1 /\ Len(op.text) \in Nat /\ op.pos <= Len(op.text)
            BY <1>1, <1>3 DEF op, Texts
        <3> QED
            BY <1>12, <2>2, <3>1
    <2>8. log'[d] # <<>> /\ log'[d][Len(log'[d])] = [text |-> v.text, pos |-> v.pos - 1]
        <3>1. log'[d] # <<>> /\ log'[d][Len(log'[d])] = e
            BY <1>6, <1>8
        <3>2. v.text = op.text /\ v.pos - 1 = op.pos
            BY <1>3, <2>2
        <3> QED
            BY <3>1, <3>2 DEF e
    <2>9. \A c \in Devices \ {d} : Complete(log'[c])
        BY <1>1, <1>8 DEF d
    <2>10. Speaking(f, log')
        <3> HIDE DEF f, n
        <3>1. Len(f) = n /\ f[n].todo = u /\ u[1] = v
            BY <2>4, <2>5
        <3> QED
            BY <2>2, <2>4, <2>5, <2>6, <2>7, <2>8, <2>9, <3>1 DEF Speaking
    <2> QED
        BY <1>9, <1>10, <2>1, <2>10 DEF MessagesOK
<1> QED
    BY <1>11, <1>12

\* In the middle of a message interrupts are off, and only the message goes on.
LEMMA Uninterrupted ==
    ASSUME IInv, Speaking(frames, log)
    PROVE  Top.todo # <<>> /\ NextOp.op = "write" /\ ~enabled
<1> DEFINE n == Len(frames)
           t == frames[n].todo
<1>1. StateOK /\ CodeOK /\ (Starting \/ Running \/ Handling \/ Failed)
    BY DEF IInv
<1>2. n \in {1, 2}
    BY <1>1, Places
<1>3. t # <<>> /\ t[1] \in WriteOps
    BY DEF Speaking
<1>4. Top = frames[n] /\ NextOp = t[1] /\ Now(t) = Before(t[1])
    BY <1>1, <1>2, <1>3, TopFrame
<1>5. t[1].op = "write"
    BY <1>3 DEF WriteOps
<1>6. Masked(t)
    <2>1. Before(t[1]) = {t[1].device, "mask"}
        BY <1>5, Situations
    <2> QED
        BY <1>4, <2>1 DEF Masked
<1>7. ~enabled
    BY <1>1, <1>6 DEF Starting, Running, Handling, Failed
<1> QED
    BY <1>3, <1>4, <1>5, <1>7

\* The other steps write nothing, and put fresh code where they put any.
LEMMA QuietSteps ==
    ASSUME IInv, MessagesOK, Quiet(frames, log), [Next]_vars, ~WriteOne
    PROVE  MessagesOK'
<1> DEFINE n == Len(frames)
<1>1. StateOK /\ CodeOK /\ (Starting \/ Running \/ Handling \/ Failed)
    BY DEF IInv
<1>2. n \in {1, 2}
    BY <1>1, Places
<1>3. frames \in Seq(FreshFrame) /\ frames # <<>> /\ n \in 1..n /\ Top = frames[n]
    <2>1. frames \in Seq(FreshFrame)
        BY DEF Quiet
    <2>2. \A s \in Seq(FreshFrame) : Len(s) \in {1, 2} => s # <<>>
        OBVIOUS
    <2>3. Top = frames[n] /\ n \in 1..n
        BY <1>1, <1>2, TopFrame
    <2> QED
        BY <1>2, <2>1, <2>2, <2>3
<1>4. Top \in FreshFrame /\ Top.todo \in Seq(FreshOps)
    <2>1. frames[n] \in FreshFrame
        BY <1>3
    <2>2. \A g \in FreshFrame : g.todo \in Seq(FreshOps)
        BY DEF FreshFrame
    <2> QED
        BY <1>3, <2>1, <2>2
<1>5. ASSUME NEW name, At(name)
      PROVE  Fresh(Rest) /\ NextOp \in Ops /\ NextOp.op = name
    <2>1. Top.todo # <<>> /\ NextOp.op = name
        BY <1>5 DEF At
    <2>2. Rest \in Seq(FreshOps) /\ NextOp \in FreshOps
        BY <1>4, <2>1 DEF Rest, NextOp
    <2> QED
        BY <2>1, <2>2 DEF Fresh, FreshOps
<1>6. ASSUME NEW u, Fresh(u)
      PROVE  Continue(u) \in Seq(FreshFrame)
    BY <1>3, <1>6, FreshContinued DEF Continue
<1>7. ASSUME log' = log, writer' = writer, frames' \in Seq(FreshFrame)
      PROVE  MessagesOK'
    <2>1. LogOK' /\ WriterOK'
        BY <1>7 DEF MessagesOK, LogOK, WriterOK
    <2>2. Quiet(frames', log')
        BY <1>7 DEF Quiet
    <2> QED
        BY <2>1, <2>2 DEF MessagesOK
<1>8. ASSUME NEW u, Fresh(u), frames' = Continue(u), log' = log, writer' = writer
      PROVE  MessagesOK'
    BY <1>6, <1>7, <1>8
<1>9. CASE WithoutInterrupts
    <2>1. At("without_interrupts") /\ log' = log /\ writer' = writer
          /\ frames' = [frames EXCEPT ![n] = [@ EXCEPT !.todo = Rest, !.saved = enabled]]
        BY <1>9 DEF WithoutInterrupts
    <2> DEFINE g == [frames[n] EXCEPT !.todo = Rest, !.saved = enabled]
    <2>2. g \in FreshFrame
        <3>1. enabled \in BOOLEAN /\ Rest \in Seq(FreshOps) /\ frames[n] \in FreshFrame
            BY <1>1, <1>3, <1>4, <1>5, <2>1 DEF StateOK, Fresh
        <3>2. \A h \in FreshFrame : \A u \in Seq(FreshOps) : \A on \in BOOLEAN :
                    [h EXCEPT !.todo = u, !.saved = on] \in FreshFrame
            BY DEF FreshFrame
        <3> QED
            BY <3>1, <3>2
    <2>3. frames' = [frames EXCEPT ![n] = g]
        BY <2>1
    <2> HIDE DEF g
    <2>4. frames' \in Seq(FreshFrame)
        BY <1>3, <2>2, <2>3
    <2> QED
        BY <1>7, <2>1, <2>4
<1>10. CASE RestoreInterrupts \/ Acquire \/ Release \/ LoadTables \/ InitializePics
                \/ EnableInterrupts \/ EndOfInterrupt
    <2>1. \E name : At(name)
        BY <1>10 DEF RestoreInterrupts, Acquire, Release, LoadTables, InitializePics,
                     EnableInterrupts, EndOfInterrupt
    <2>2. frames' = Continue(Rest) /\ log' = log /\ writer' = writer
        BY <1>10 DEF RestoreInterrupts, Acquire, Release, LoadTables, InitializePics,
                     EnableInterrupts, EndOfInterrupt
    <2> QED
        BY <1>5, <1>8, <2>1, <2>2
<1>11. CASE ReadScancode
    <2>1. At("read_scancode") /\ log' = log /\ writer' = writer
        BY <1>11 DEF ReadScancode
    <2>2. PICK text \in Texts : frames' = Continue(IF text = <<>> THEN Rest ELSE println(text) \o Rest)
        BY <1>11, DecodedIsText DEF ReadScancode
    <2>3. text # <<>> => Fresh(println(text) \o Rest)
        BY <1>5, <2>1, FreshPrints, FreshJoined
    <2>4. Fresh(Rest)
        BY <1>5, <2>1
    <2>5. CASE text = <<>>
        BY <1>8, <2>1, <2>2, <2>4, <2>5
    <2>6. CASE text # <<>>
        BY <1>8, <2>1, <2>2, <2>3, <2>6
    <2> QED
        BY <2>5, <2>6
<1>12. ASSUME NEW vector, NEW below \in Seq(FreshFrame), NEW full, Enter(vector, below, full),
              log' = log, writer' = writer
       PROVE  MessagesOK'
    <2> DEFINE gate == IF vector \in DOMAIN IDT THEN vector ELSE DOUBLE_FAULT
               g == [todo |-> IDT[gate], flags |-> enabled, saved |-> FALSE]
    <2>1. frames' = Append(below, g) \/ frames' = frames
        BY <1>12 DEF Enter
    <2>2. gate \in DOMAIN IDT
        BY DEF IDT
    <2>3. g \in FreshFrame
        <3>1. Fresh(IDT[gate])
            BY <2>2, FreshHandlers
        <3>2. enabled \in BOOLEAN
            BY <1>1 DEF StateOK
        <3> HIDE DEF gate
        <3> QED
            BY <3>1, <3>2 DEF FreshFrame, Fresh
    <2> HIDE DEF g
    <2>4. frames' \in Seq(FreshFrame)
        BY <1>3, <2>1, <2>3
    <2> QED
        BY <1>7, <1>12, <2>4
<1>13. CASE Except
    <2>1. log' = log /\ writer' = writer
        BY <1>13 DEF Except
    <2>2. PICK vector, full : Enter(vector, Continue(Rest), full) /\ \E name : At(name)
        BY <1>13 DEF Except
    <2>3. Continue(Rest) \in Seq(FreshFrame)
        BY <1>5, <1>6, <2>2
    <2> QED
        BY <1>12, <2>1, <2>2, <2>3
<1>14. ASSUME NEW line \in {0, 1}, Interrupt(line) PROVE MessagesOK'
    <2>1. log' = log /\ writer' = writer /\ Enter(pic.offset + line, frames, FALSE)
        BY <1>14 DEF Interrupt
    <2> QED
        BY <1>3, <1>12, <2>1
<1>15. CASE ReturnFromInterrupt
    <2>1. log' = log /\ writer' = writer /\ frames' = Front(frames)
        BY <1>15 DEF ReturnFromInterrupt
    <2>2. Len(frames) = 2
        <3>1. Len(frames) > 1
            BY <1>15 DEF ReturnFromInterrupt
        <3>2. \A m \in {1, 2} : m > 1 => m = 2
            OBVIOUS
        <3> QED
            BY <1>2, <3>1, <3>2
    <2>3. Front(frames) \in Seq(FreshFrame)
        BY <1>3, <2>2, Popped
    <2> QED
        BY <1>7, <2>1, <2>3
<1>16. CASE Panic
    <2>1. log' = log /\ writer' = writer /\ frames' = Continue(panic)
        BY <1>16 DEF Panic
    <2> QED
        BY <1>8, <2>1, FreshEnds
<1>17. CASE AssertRow
    <2>1. log' = log /\ writer' = writer /\ At("assert_row")
          /\ (frames' = Continue(Rest) \/ frames' = Continue(panic))
        BY <1>17 DEF AssertRow
    <2>2. Fresh(Rest) /\ Fresh(panic)
        BY <1>5, <2>1, FreshEnds
    <2> QED
        BY <1>8, <2>1, <2>2
<1>18. CASE RunTests
    <2>1. log' = log /\ writer' = writer /\ At("for_test")
          /\ frames' = Continue(for_test(NextOp.suite) \o Rest)
        BY <1>18 DEF RunTests
    <2>2. NextOp.suite \in Seq(TestNames)
        <3>1. NextOp \in Ops /\ NextOp.op = "for_test"
            BY <1>5, <2>1
        <3>2. NextOp \in TestOps
            <4>1. Top.todo # <<>> /\ NextOp = frames[n].todo[1]
                <5>1. NextOp = frames[n].todo[1]
                    BY <1>1, <1>2, <2>1, Taken
                <5>2. Top.todo # <<>>
                    BY <2>1 DEF At
                <5> QED
                    BY <5>1, <5>2
            <4>2. frames[n].todo # <<>>
                BY <1>3, <4>1
            <4> QED
                BY <1>1, <3>1, <4>1, <4>2, Places
        <3> DEFINE op == NextOp
        <3>3. op \in TestOps /\ op.op = "for_test"
            BY <3>1, <3>2
        <3> HIDE DEF op
        <3>4. op \in [op : {"for_test"}, suite : Seq(TestNames)]
            BY <3>3 DEF TestOps, Named
        <3>5. op.suite \in Seq(TestNames)
            BY <3>4
        <3> QED
            BY <3>5 DEF op
    <2>3. Fresh(for_test(NextOp.suite) \o Rest)
        BY <1>5, <2>1, <2>2, FreshTests, FreshJoined
    <2> QED
        BY <1>8, <2>1, <2>3
<1>19. CASE ExitQemu \/ Tick \/ PressKey \/ UNCHANGED vars
    <2>1. log' = log /\ writer' = writer /\ frames' = frames
        BY <1>19 DEF ExitQemu, Tick, PressKey, vars
    <2> QED
        BY <1>3, <1>7, <2>1
<1> QED
    BY <1>9, <1>10, <1>11, <1>13, <1>14, <1>15, <1>16, <1>17, <1>18, <1>19 DEF Next, Execute

LEMMA MessageSteps == IInv /\ MessagesOK /\ [Next]_vars => MessagesOK'
<1> SUFFICES ASSUME IInv, MessagesOK, [Next]_vars PROVE MessagesOK'
    OBVIOUS
<1>1. StateOK /\ CodeOK /\ (Starting \/ Running \/ Handling \/ Failed)
    BY DEF IInv
<1>2. Len(frames) \in {1, 2}
    BY <1>1, Places
<1>3. CASE WriteOne
    BY <1>1, <1>2, <1>3, WriteOneSteps
<1>4. CASE ~WriteOne /\ Quiet(frames, log)
    BY <1>4, QuietSteps
<1>5. CASE ~WriteOne /\ Speaking(frames, log)
    <2>1. Top.todo # <<>> /\ NextOp.op = "write" /\ ~enabled
        BY <1>5, Uninterrupted
    <2>2. ASSUME NEW name, At(name) PROVE name = "write"
        BY <2>1, <2>2 DEF At
    <2>3. ~WithoutInterrupts /\ ~RestoreInterrupts /\ ~Acquire /\ ~Release /\ ~InitializePics
          /\ ~EnableInterrupts /\ ~EndOfInterrupt /\ ~ReadScancode /\ ~Panic /\ ~AssertRow /\ ~RunTests
          /\ ~ExitQemu
        BY <2>1 DEF At, WithoutInterrupts, RestoreInterrupts, Acquire, Release, InitializePics,
                    EnableInterrupts, EndOfInterrupt, ReadScancode, Panic, AssertRow, RunTests, ExitQemu
    <2>4. ~LoadTables
        BY <2>1 DEF At, LoadTables
    <2>5. ~Except
        BY <2>1 DEF At, Except
    <2>6. ~ReturnFromInterrupt
        BY <2>1 DEF ReturnFromInterrupt
    <2>7. \A line \in {0, 1} : ~Interrupt(line)
        BY <2>1 DEF Interrupt
    <2>8. Tick \/ PressKey \/ UNCHANGED vars
        BY <1>5, <2>3, <2>4, <2>5, <2>6, <2>7 DEF Next, Execute
    <2>9. UNCHANGED <<frames, log, writer>>
        BY <2>8 DEF Tick, PressKey, vars
    <2>10. LogOK' /\ WriterOK'
        BY <2>9 DEF MessagesOK, LogOK, WriterOK
    <2>11. Speaking(frames', log')
        BY <1>5, <2>9
    <2> QED
        BY <2>10, <2>11 DEF MessagesOK
<1> QED
    BY <1>3, <1>4, <1>5 DEF MessagesOK

LEMMA MessagesBegin == Init => MessagesOK
<1> SUFFICES ASSUME Init PROVE MessagesOK
    OBVIOUS
<1> DEFINE t == start(entry, tests)
           g == [todo |-> t, flags |-> FALSE, saved |-> FALSE]
<1>1. entry \in {"main", "main_test", "lib_test"} /\ tests \in Seq(TestNames)
    <2>1. <<>> \in Seq(TestNames)
        OBVIOUS
    <2> QED
        BY <2>1, KernelAssumption DEF Init
<1>2. Fresh(t)
    BY <1>1, FreshStart
<1>3. frames = <<g>> /\ writer = NewWriter /\ log = [WRITER |-> <<>>, SERIAL1 |-> <<>>]
    BY DEF Init
<1> HIDE DEF t
<1>4. g \in FreshFrame
    BY <1>2 DEF FreshFrame, Fresh
<1> HIDE DEF g
<1>5. frames \in Seq(FreshFrame)
    BY <1>3, <1>4
<1>6. \A d \in Devices : log[d] = <<>>
    BY <1>3 DEF Devices
<1>7. log \in [Devices -> Seq(Entry)]
    <2>1. log = [d \in Devices |-> log[d]]
        BY <1>3 DEF Devices
    <2>2. <<>> \in Seq(Entry)
        OBVIOUS
    <2> QED
        BY <1>6, <2>1, <2>2
<1>8. WholeMessages(<<>>) /\ Complete(<<>>) /\ Bytes(<<>>) = <<>> /\ <<>> \in Seq(Words)
    BY DEF WholeMessages, Complete, Bytes
<1>9. LogOK
    BY <1>6, <1>7, <1>8 DEF LogOK
<1>10. WriterOK
    <2>1. log["WRITER"] = <<>>
        BY <1>6 DEF Devices
    <2> QED
        BY <1>3, <1>8, <2>1, NoLines, NothingWritten DEF WriterOK
<1>11. Quiet(frames, log)
    BY <1>5, <1>6, <1>8 DEF Quiet
<1> QED
    BY <1>9, <1>10, <1>11 DEF MessagesOK

LEMMA MessagesAreWhole == MessagesOK => ScreenShowsWholeMessages
<1> SUFFICES ASSUME MessagesOK PROVE ScreenShowsWholeMessages
    OBVIOUS
<1>1. DOMAIN log = Devices /\ \A d \in Devices : WholeMessages(log[d])
    BY DEF MessagesOK, LogOK
<1>2. writer.chars = Panel(Lines(Bytes(log["WRITER"])))
    BY DEF MessagesOK, WriterOK, Wrote
<1>3. writer.chars = Screen(Bytes(log["WRITER"]))
    BY <1>2, ScreenIsPanel
<1> QED
    BY <1>1, <1>3 DEF ScreenShowsWholeMessages

\* What is printed comes out whole, whoever interrupts whom, and the rows in the
\* writer's buffer are the end of the text, for any size of screen, any texts the
\* tests and the keys print, and any interrupts (vga_buffer.rs:70-120, 153-155;
\* serial.rs:18-23).
THEOREM MessagesStayWhole == Spec => []ScreenShowsWholeMessages
<1>1. Init => IInv /\ MessagesOK
    BY InitHolds, MessagesBegin
<1>2. (IInv /\ MessagesOK) /\ [Next]_vars => (IInv /\ MessagesOK)'
    BY StepHolds, MessageSteps
<1>3. IInv /\ MessagesOK => ScreenShowsWholeMessages
    BY MessagesAreWhole
<1> QED
    BY <1>1, <1>2, <1>3, PTL DEF Spec

-----------------------------------------------------------------------------
(***************************************************************************)
(* The test harness: what code says over the serial port, and how it ends. *)
(***************************************************************************)

\* The line that test_println_output writes and looks at.
Line == <<"\n", "o", "\n">>

\* The words still to come, the operation that they end with, and whether the row
\* above the last must show the line now.
Outcomes == [words : Seq(Words), end : Ops \cup {Op("lost")}, needs : BOOLEAN]

Ending(op) == [words |-> <<>>, end |-> op, needs |-> FALSE]
Exit(code) == [op |-> "exit", code |-> code]
Succeeded == Ending(Exit("Success"))
Failure == [words |-> <<"[failed]", "Error">>, end |-> Exit("Failed"), needs |-> FALSE]
Halted == Ending(Op("hlt"))
Lost == Ending(Op("lost"))

\* Words before what is said later.
Preceded(words, later) == [words |-> words \o later.words, end |-> later.end, needs |-> later.needs]

\* What an operation and what follows it will say.
Said(op, later) ==
    IF later.needs
    THEN IF op.op = "write" /\ op.device = "WRITER" /\ op.text = Line
         THEN [later EXCEPT !.needs = FALSE] ELSE Lost
    ELSE CASE op.op = "write" /\ op.device = "SERIAL1" ->
                IF Len(op.text) = 1 /\ op.pos = 1
                THEN Preceded(op.text, later) ELSE Lost
           [] op.op = "exit" -> Ending(op)
           [] op.op = "for_test" -> IF later = Succeeded THEN Ending(op) ELSE Lost
           [] op.op \in {"panic", "overflow_stack"} -> Failure
           [] op.op = "assert_row" -> [(IF op.char = "o" THEN later ELSE Failure) EXCEPT !.needs = TRUE]
           [] OTHER -> later

\* Code and what follows it: out[k] is what is said from its operation k on.
Tells(t, later, first) ==
    \E out \in [1..Len(t) + 1 -> Outcomes] :
        /\ out[Len(t) + 1] = later /\ out[1] = first
        /\ \A k \in 1..Len(t) : out[k] = Said(t[k], out[k + 1])

LEMMA FixedOutcomes ==
    /\ Succeeded \in Outcomes /\ Failure \in Outcomes /\ Halted \in Outcomes /\ Lost \in Outcomes
    /\ \A op \in Ops : Ending(op) \in Outcomes
<1>1. <<>> \in Seq(Words) /\ <<"[failed]", "Error">> \in Seq(Words)
    BY TwoWords DEF Words
<1>2. Exit("Success") \in Ops /\ Exit("Failed") \in Ops /\ Op("hlt") \in Ops
    BY FreshOperations DEF FreshOps, Exit
<1>3. \A op \in Ops \cup {Op("lost")} : Ending(op) \in Outcomes
    BY <1>1 DEF Ending, Outcomes
<1>4. Failure \in Outcomes
    BY <1>1, <1>2 DEF Failure, Outcomes
<1> QED
    BY <1>2, <1>3, <1>4 DEF Succeeded, Halted, Lost

LEMMA SaidIsOutcome ==
    ASSUME NEW op \in Ops, NEW later \in Outcomes
    PROVE  Said(op, later) \in Outcomes
<1>1. \A o \in Outcomes : \A b \in BOOLEAN : [o EXCEPT !.needs = b] \in Outcomes
    BY DEF Outcomes
<1>2. \A o \in Outcomes : \A w \in Seq(Words) : Preceded(w, o) \in Outcomes
    <2> SUFFICES ASSUME NEW o \in Outcomes, NEW w \in Seq(Words)
                 PROVE  Preceded(w, o) \in Outcomes
        OBVIOUS
    <2>1. w \o o.words \in Seq(Words)
        BY ConcatProperties DEF Outcomes
    <2> QED
        BY <2>1 DEF Outcomes, Preceded
<1>3. op.op = "write" => op.text \in Seq(Words)
    BY WritesAreWriteOps DEF WriteOps, Texts
<1>4. Ending(op) \in Outcomes /\ Lost \in Outcomes /\ Failure \in Outcomes
    BY FixedOutcomes
<1>5. CASE later.needs
    BY <1>1, <1>4, <1>5 DEF Said
<1>6. CASE ~later.needs
    <2>1. CASE op.op = "write"
        BY <1>2, <1>3, <1>4, <1>6, <2>1 DEF Said
    <2>2. CASE op.op = "assert_row"
        BY <1>1, <1>4, <1>6, <2>2 DEF Said
    <2>3. CASE op.op \notin {"write", "assert_row"}
        BY <1>4, <1>6, <2>3 DEF Said
    <2> QED
        BY <2>1, <2>2, <2>3
<1> QED
    BY <1>5, <1>6

LEMMA TellsNothing ==
    \A later \in Outcomes : Tells(<<>>, later, later)
<1> SUFFICES ASSUME NEW later \in Outcomes
             PROVE  Tells(<<>>, later, later)
    OBVIOUS
<1> DEFINE out == [k \in 1..1 |-> later]
<1>1. Len(<<>>) = 0 /\ 0 + 1 = 1 /\ 1..0 = {}
    OBVIOUS
<1>2. out \in [1..Len(<<>>) + 1 -> Outcomes] /\ out[1] = later
    BY <1>1
<1> HIDE DEF out
<1> QED
    BY <1>1, <1>2 DEF Tells

\* The first operation done, what is told is what the rest tells.
LEMMA TellsRest ==
    ASSUME NEW t \in Seq(Ops), NEW later, NEW first, Tells(t, later, first)
    PROVE  /\ t = <<>> => first = later
           /\ t # <<>> => \E next \in Outcomes :
                                first = Said(t[1], next) /\ Tells(Tail(t), later, next)
           /\ first \in Outcomes
<1>1. PICK out \in [1..Len(t) + 1 -> Outcomes] :
        /\ out[Len(t) + 1] = later /\ out[1] = first
        /\ \A k \in 1..Len(t) : out[k] = Said(t[k], out[k + 1])
    BY DEF Tells
<1> DEFINE n == Len(t)
<1>2. n \in Nat /\ (t = <<>> <=> n = 0)
    OBVIOUS
<1>3. t = <<>> => first = later
    BY <1>1, <1>2
<1>4. first \in Outcomes
    <2>1. 1 \in 1..n + 1
        BY <1>2
    <2> QED
        BY <1>1, <2>1
<1>5. ASSUME t # <<>>
      PROVE  \E next \in Outcomes : first = Said(t[1], next) /\ Tells(Tail(t), later, next)
    <2> DEFINE u == Tail(t)
               g == [k \in 1..n |-> out[k + 1]]
    <2>1. n >= 1 /\ Len(u) = n - 1 /\ Len(u) + 1 = n /\ \A k \in 1..n - 1 : u[k] = t[k + 1]
        <3>1. t # <<>> /\ n >= 1
            BY <1>2, <1>5
        <3>2. Len(u) = n - 1 /\ \A k \in 1..Len(u) : u[k] = t[k + 1]
            BY <3>1, HeadTailProperties
        <3> QED
            BY <1>2, <3>1, <3>2
    <2>2. \A k \in 1..n : k + 1 \in 1..n + 1
        BY <1>2
    <2>3. g \in [1..Len(u) + 1 -> Outcomes]
        BY <1>1, <2>1, <2>2
    <2>4. 1 \in 1..n /\ n \in 1..n /\ 2 \in 1..n + 1 /\ 1 + 1 = 2
        BY <1>2, <2>1
    <2>5. g[n] = later /\ g[1] = out[2] /\ first = Said(t[1], out[2]) /\ out[2] \in Outcomes
        BY <1>1, <2>4
    <2>6. \A k \in 1..Len(u) : g[k] = Said(u[k], g[k + 1])
        <3> SUFFICES ASSUME NEW k \in 1..n - 1 PROVE g[k] = Said(u[k], g[k + 1])
            BY <2>1
        <3>1. k \in 1..n /\ k + 1 \in 1..n
            BY <1>2
        <3>2. g[k] = out[k + 1] /\ g[k + 1] = out[(k + 1) + 1] /\ u[k] = t[k + 1]
            BY <2>1, <3>1
        <3>3. out[k + 1] = Said(t[k + 1], out[(k + 1) + 1])
            BY <1>1, <3>1
        <3> QED
            BY <3>2, <3>3
    <2> HIDE DEF g, u
    <2>7. g[Len(u) + 1] = later /\ g[1] = out[2]
        BY <2>1, <2>5
    <2>8. Tells(u, later, out[2])
        BY <2>3, <2>6, <2>7 DEF Tells
    <2> QED
        BY <2>5, <2>8 DEF u
<1> QED
    BY <1>3, <1>4, <1>5

LEMMA TellsOne ==
    ASSUME NEW op \in Ops, NEW later \in Outcomes
    PROVE  Tells(<<op>>, later, Said(op, later))
<1> DEFINE t == <<op>>
           s == Said(op, later)
           out == [k \in 1..2 |-> IF k = 1 THEN s ELSE later]
<1>1. s \in Outcomes
    BY SaidIsOutcome
<1>2. Len(t) = 1 /\ t[1] = op
    OBVIOUS
<1> HIDE DEF t, s
<1>3. out \in [1..2 -> Outcomes] /\ out[2] = later /\ out[1] = s
    BY <1>1
<1> HIDE DEF out
<1>4. out \in [1..Len(t) + 1 -> Outcomes] /\ out[Len(t) + 1] = later
    BY <1>2, <1>3
<1>5. \A k \in 1..Len(t) : out[k] = Said(t[k], out[k + 1])
    <2>1. \A k \in 1..Len(t) : k = 1 /\ k + 1 = 2
        BY <1>2
    <2> QED
        BY <1>2, <1>3, <2>1 DEF s
<1>6. Tells(t, later, s)
    BY <1>3, <1>4, <1>5 DEF Tells
<1> QED
    BY <1>6 DEF t, s

LEMMA TellsJoined ==
    ASSUME NEW s \in Seq(Ops), NEW t \in Seq(Ops), NEW later, NEW next, NEW first,
           Tells(s, next, first), Tells(t, later, next)
    PROVE  Tells(s \o t, later, first)
<1> DEFINE n == Len(s)
           m == Len(t)
           u == s \o t
<1>1. PICK f \in [1..n + 1 -> Outcomes] :
        f[n + 1] = next /\ f[1] = first /\ \A k \in 1..n : f[k] = Said(s[k], f[k + 1])
    BY DEF Tells
<1>2. PICK g \in [1..m + 1 -> Outcomes] :
        g[m + 1] = later /\ g[1] = next /\ \A k \in 1..m : g[k] = Said(t[k], g[k + 1])
    BY DEF Tells
<1>3. /\ n \in Nat /\ m \in Nat /\ Len(u) = n + m
      /\ \A k \in 1..n : u[k] = s[k]
      /\ \A k \in n + 1..n + m : u[k] = t[k - n]
    BY Positions
<1> HIDE DEF u, n, m
<1> DEFINE h == [k \in 1..n + m + 1 |-> IF k <= n THEN f[k] ELSE g[k - n]]
<1>4. \A k \in 1..n + m + 1 : (k <= n => k \in 1..n + 1) /\ (~(k <= n) => k - n \in 1..m + 1)
    BY <1>3
<1>5. h \in [1..Len(u) + 1 -> Outcomes]
    BY <1>1, <1>2, <1>3, <1>4
<1>6. h[Len(u) + 1] = later
    <2>1. n + m + 1 \in 1..n + m + 1 /\ ~(n + m + 1 <= n) /\ (n + m + 1) - n = m + 1
        BY <1>3
    <2> QED
        BY <1>2, <1>3, <2>1
<1>7. \A k \in 1..n + 1 : h[k] = f[k]
    <2> SUFFICES ASSUME NEW k \in 1..n + 1 PROVE h[k] = f[k]
        OBVIOUS
    <2>1. k \in 1..n + m + 1 /\ (~(k <= n) => k = n + 1 /\ k - n = 1)
        BY <1>3
    <2> QED
        BY <1>1, <1>2, <2>1
<1>8. \A k \in n + 1..n + m + 1 : h[k] = g[k - n]
    <2> SUFFICES ASSUME NEW k \in n + 1..n + m + 1 PROVE h[k] = g[k - n]
        OBVIOUS
    <2>1. k \in 1..n + m + 1 /\ ~(k <= n)
        BY <1>3
    <2> QED
        BY <2>1
<1> HIDE DEF h
<1>9. h[1] = first
    <2>1. 1 \in 1..n + 1
        BY <1>3
    <2> QED
        BY <1>1, <1>7, <2>1
<1>10. \A k \in 1..Len(u) : h[k] = Said(u[k], h[k + 1])
    <2> SUFFICES ASSUME NEW k \in 1..n + m PROVE h[k] = Said(u[k], h[k + 1])
        BY <1>3
    <2>1. CASE k <= n
        <3>1. k \in 1..n /\ k \in 1..n + 1 /\ k + 1 \in 1..n + 1
            BY <1>3, <2>1
        <3> QED
            <4>1. h[k] = f[k] /\ h[k + 1] = f[k + 1] /\ u[k] = s[k]
                BY <1>3, <1>7, <3>1
            <4> QED
                BY <1>1, <3>1, <4>1
    <2>2. CASE ~(k <= n)
        <3>1. /\ k \in n + 1..n + m /\ k \in n + 1..n + m + 1 /\ k + 1 \in n + 1..n + m + 1
              /\ k - n \in 1..m /\ (k + 1) - n = (k - n) + 1
            BY <1>3, <2>2
        <3>2. h[k] = g[k - n] /\ h[k + 1] = g[(k - n) + 1]
            BY <1>8, <3>1
        <3> QED
            BY <1>2, <1>3, <3>1, <3>2
    <2> QED
        BY <2>1, <2>2
<1>11. Tells(u, later, first)
    BY <1>5, <1>6, <1>9, <1>10 DEF Tells
<1> QED
    BY <1>11 DEF u

-----------------------------------------------------------------------------
(***************************************************************************)
(* What each function tells.                                               *)
(***************************************************************************)

\* Operations that say nothing to the host and decide nothing.
SilentOps ==
    {op \in Ops : /\ op.op \notin {"exit", "for_test", "panic", "overflow_stack", "assert_row"}
                  /\ op.op = "write" => op.device = "WRITER"}

LEMMA SilentSays ==
    ASSUME NEW op \in SilentOps, NEW later \in Outcomes, ~later.needs
    PROVE  Said(op, later) = later
<1>1. /\ op.op \notin {"exit", "for_test", "panic", "overflow_stack", "assert_row"}
      /\ op.op = "write" => op.device = "WRITER"
    BY DEF SilentOps
<1>2. ~(op.op = "write" /\ op.device = "SERIAL1")
    BY <1>1
<1> QED
    BY <1>1, <1>2 DEF Said

LEMMA SilentTells ==
    ASSUME NEW t \in Seq(SilentOps), NEW later \in Outcomes, ~later.needs
    PROVE  Tells(t, later, later) /\ t \in Seq(Ops)
<1> DEFINE out == [k \in 1..Len(t) + 1 |-> later]
<1>1. Len(t) \in Nat /\ \A k \in 1..Len(t) : t[k] \in SilentOps
    OBVIOUS
<1>2. out \in [1..Len(t) + 1 -> Outcomes]
    OBVIOUS
<1>3. \A k \in 1..Len(t) + 1 : out[k] = later
    OBVIOUS
<1>4. \A k \in 1..Len(t) : k \in 1..Len(t) + 1 /\ k + 1 \in 1..Len(t) + 1
    BY <1>1
<1>5. Len(t) + 1 \in 1..Len(t) + 1 /\ 1 \in 1..Len(t) + 1
    <2> DEFINE n == Len(t)
    <2>1. n \in Nat
        BY <1>1
    <2> HIDE DEF n
    <2>2. n + 1 \in 1..n + 1 /\ 1 \in 1..n + 1
        BY <2>1
    <2> QED
        BY <2>2 DEF n
<1> HIDE DEF out
<1>6. \A k \in 1..Len(t) : out[k] = Said(t[k], out[k + 1])
    <2> SUFFICES ASSUME NEW k \in 1..Len(t) PROVE out[k] = Said(t[k], out[k + 1])
        OBVIOUS
    <2>1. Said(t[k], later) = later
        BY <1>1, SilentSays
    <2>2. out[k] = later /\ out[k + 1] = later
        BY <1>3, <1>4
    <2> QED
        BY <2>1, <2>2
<1>7. Tells(t, later, later)
    BY <1>2, <1>3, <1>5, <1>6 DEF Tells
<1>8. SilentOps \subseteq Ops
    BY DEF SilentOps
<1>9. t \in Seq(Ops)
    BY <1>8
<1> QED
    BY <1>7, <1>9

LEMMA SilentOperations ==
    /\ \A name \in {"without_interrupts", "restore_interrupts", "hlt", "int3",
                    "load_tss", "load_idt", "initialize_pics", "read_scancode", "enable_interrupts"} :
            Op(name) \in SilentOps
    /\ \A lock \in Devices \cup {"PICS", "KEYBOARD"} : Lock(lock) \in SilentOps /\ Unlock(lock) \in SilentOps
    /\ \A text \in Texts : text # <<>> => Write("WRITER", text) \in SilentOps
    /\ \A vector \in Nat : [op |-> "end_of_interrupt", vector |-> vector] \in SilentOps
<1>1. FreshOps \subseteq Ops
    BY DEF FreshOps
<1>2. \A name \in {"without_interrupts", "restore_interrupts", "hlt", "int3",
                    "load_tss", "load_idt", "initialize_pics", "read_scancode", "enable_interrupts"} :
            Op(name) \in SilentOps
    <2> SUFFICES ASSUME NEW name \in {"without_interrupts", "restore_interrupts", "hlt", "int3", "load_tss",
                                      "load_idt", "initialize_pics", "read_scancode", "enable_interrupts"}
                 PROVE  Op(name) \in SilentOps
        OBVIOUS
    <2>1. Op(name) \in Ops /\ Op(name).op = name
        BY <1>1, FreshOperations DEF Op
    <2> QED
        BY <2>1 DEF SilentOps
<1>3. \A lock \in Devices \cup {"PICS", "KEYBOARD"} : Lock(lock) \in SilentOps /\ Unlock(lock) \in SilentOps
    <2> SUFFICES ASSUME NEW lock \in Devices \cup {"PICS", "KEYBOARD"}
                 PROVE  Lock(lock) \in SilentOps /\ Unlock(lock) \in SilentOps
        OBVIOUS
    <2>1. Lock(lock) \in Ops /\ Unlock(lock) \in Ops
        BY <1>1, FreshOperations
    <2>2. Lock(lock).op = "lock" /\ Unlock(lock).op = "unlock"
        BY DEF Lock, Unlock
    <2> QED
        BY <2>1, <2>2 DEF SilentOps
<1>4. \A text \in Texts : text # <<>> => Write("WRITER", text) \in SilentOps
    <2> SUFFICES ASSUME NEW text \in Texts, text # <<>>
                 PROVE  Write("WRITER", text) \in SilentOps
        OBVIOUS
    <2>1. Write("WRITER", text) \in Ops
        BY <1>1, FreshOperations DEF Devices
    <2>2. Write("WRITER", text).op = "write" /\ Write("WRITER", text).device = "WRITER"
        BY DEF Write
    <2> QED
        BY <2>1, <2>2 DEF SilentOps
<1>5. \A vector \in Nat : [op |-> "end_of_interrupt", vector |-> vector] \in SilentOps
    <2> SUFFICES ASSUME NEW vector \in Nat
                 PROVE  [op |-> "end_of_interrupt", vector |-> vector] \in SilentOps
        OBVIOUS
    <2>1. [op |-> "end_of_interrupt", vector |-> vector] \in Ops
        BY <1>1, FreshOperations
    <2> QED
        BY <2>1 DEF SilentOps
<1> QED
    BY <1>2, <1>3, <1>4, <1>5

LEMMA SilentCode ==
    /\ \A text \in Texts : text # <<>> => println(text) \in Seq(SilentOps)
    /\ \A vector \in {BREAKPOINT, InterruptIndex.Timer, InterruptIndex.Keyboard} :
            IDT[vector] \in Seq(SilentOps)
    /\ init \in Seq(SilentOps) /\ hlt_loop \in Seq(SilentOps)
<1>1. ASSUME NEW text \in Texts, text # <<>> PROVE println(text) \in Seq(SilentOps)
    <2> DEFINE a == Op("without_interrupts")
               b == Lock("WRITER")
               c == Write("WRITER", text)
               d == Unlock("WRITER")
               e == Op("restore_interrupts")
    <2>1. a \in SilentOps /\ b \in SilentOps /\ c \in SilentOps /\ d \in SilentOps /\ e \in SilentOps
        BY <1>1, SilentOperations DEF Devices
    <2> HIDE DEF a, b, c, d, e
    <2>2. <<a, b, c, d, e>> \in Seq(SilentOps)
        BY <2>1
    <2> QED
        BY <2>2 DEF println, print, a, b, c, d, e
<1>2. ASSUME NEW vector \in Nat PROVE notify_end_of_interrupt(vector) \in Seq(SilentOps)
    <2> DEFINE a == Lock("PICS")
               b == [op |-> "end_of_interrupt", vector |-> vector]
               c == Unlock("PICS")
    <2>1. a \in SilentOps /\ b \in SilentOps /\ c \in SilentOps
        BY SilentOperations
    <2> HIDE DEF a, b, c
    <2>2. <<a, b, c>> \in Seq(SilentOps)
        BY <2>1
    <2> QED
        BY <2>2 DEF notify_end_of_interrupt, a, b, c
<1>3. InterruptIndex.Timer \in Nat
    BY DEF InterruptIndex, PIC_1_OFFSET
<1>4. timer_interrupt_handler \in Seq(SilentOps)
    <2>1. <<".">> \in Texts /\ <<".">> # <<>>
        BY OneWord DEF Texts, Words
    <2> QED
        BY <1>1, <1>2, <1>3, <2>1, ConcatProperties DEF timer_interrupt_handler
<1>5. keyboard_handler \in Seq(SilentOps)
    <2> DEFINE a == Lock("KEYBOARD")
               b == Op("read_scancode")
               c == Unlock("KEYBOARD")
    <2>1. a \in SilentOps /\ b \in SilentOps /\ c \in SilentOps
        BY SilentOperations
    <2> HIDE DEF a, b, c
    <2>2. <<a, b>> \in Seq(SilentOps) /\ <<c>> \in Seq(SilentOps)
        BY <2>1
    <2>3. keyboard_handler = (<<a, b>> \o notify_end_of_interrupt(InterruptIndex.Timer)) \o <<c>>
        BY DEF keyboard_handler, a, b, c
    <2> QED
        BY <1>2, <1>3, <2>2, <2>3, ConcatProperties
<1>6. breakpoint_handler \in Seq(SilentOps)
    <2>1. <<"B", "\n">> \in Texts /\ <<"B", "\n">> # <<>>
        BY TwoWords DEF Texts, Words
    <2> QED
        BY <1>1, <2>1 DEF breakpoint_handler
<1>7. ASSUME NEW vector \in {BREAKPOINT, InterruptIndex.Timer, InterruptIndex.Keyboard}
      PROVE  IDT[vector] \in Seq(SilentOps)
    <2>1. IDT[vector] \in {timer_interrupt_handler, keyboard_handler, breakpoint_handler}
        BY DEF IDT, BREAKPOINT, DOUBLE_FAULT, InterruptIndex, PIC_1_OFFSET
    <2> QED
        BY <1>4, <1>5, <1>6, <2>1
<1>8. init \in Seq(SilentOps)
    <2> DEFINE a == Lock("PICS")
               b == Op("initialize_pics")
               c == Unlock("PICS")
               d == Op("enable_interrupts")
    <2>1. a \in SilentOps /\ b \in SilentOps /\ c \in SilentOps /\ d \in SilentOps
        BY SilentOperations
    <2> HIDE DEF a, b, c, d
    <2>2. <<a, b, c, d>> \in Seq(SilentOps)
        BY <2>1
    <2>3. gdt_init \in Seq(SilentOps) /\ init_idt \in Seq(SilentOps)
        BY SilentOperations DEF gdt_init, init_idt
    <2>4. init = (gdt_init \o init_idt) \o <<a, b, c, d>>
        BY DEF init, a, b, c, d
    <2> QED
        BY <2>2, <2>3, <2>4, ConcatProperties
<1>9. hlt_loop \in Seq(SilentOps)
    BY SilentOperations DEF hlt_loop
<1> QED
    BY <1>1, <1>7, <1>8, <1>9

\* Silent code before and after an operation that is not.
LEMMA TellsAround ==
    ASSUME NEW s \in Seq(SilentOps), NEW op \in Ops, NEW t \in Seq(SilentOps),
           NEW later \in Outcomes, ~later.needs, ~Said(op, later).needs
    PROVE  Tells((s \o <<op>>) \o t, later, Said(op, later)) /\ (s \o <<op>>) \o t \in Seq(Ops)
<1>1. Tells(t, later, later) /\ t \in Seq(Ops)
    BY SilentTells
<1>2. Said(op, later) \in Outcomes
    BY SaidIsOutcome
<1>3. Tells(<<op>>, later, Said(op, later)) /\ <<op>> \in Seq(Ops)
    BY TellsOne
<1>4. Tells(s, Said(op, later), Said(op, later)) /\ s \in Seq(Ops)
    BY <1>2, SilentTells
<1>5. s \o <<op>> \in Seq(Ops)
    BY <1>3, <1>4, ConcatProperties
<1>6. Tells(s \o <<op>>, later, Said(op, later))
    BY <1>3, <1>4, TellsJoined
<1>7. Tells((s \o <<op>>) \o t, later, Said(op, later))
    BY <1>1, <1>5, <1>6, TellsJoined
<1> QED
    BY <1>1, <1>5, <1>7, ConcatProperties

Prefixed(word, later) == Preceded(<<word>>, later)

\* Words put together, few enough to write them out.
LEMMA FewWords ==
    \A a, b, c : /\ <<a>> \o <<>> = <<a>>
                 /\ <<a>> \o <<b>> = <<a, b>>
                 /\ <<a>> \o <<b, c>> = <<a, b, c>>
<1> SUFFICES ASSUME NEW a, NEW b, NEW c
             PROVE  /\ <<a>> \o <<>> = <<a>>
                    /\ <<a>> \o <<b>> = <<a, b>>
                    /\ <<a>> \o <<b, c>> = <<a, b, c>>
    OBVIOUS
<1> DEFINE S == {a, b, c}
<1>1. a \in S /\ b \in S /\ c \in S
    OBVIOUS
<1> HIDE DEF S
<1>2. /\ <<a>> \in Seq(S) /\ <<b>> \in Seq(S) /\ <<b, c>> \in Seq(S) /\ <<>> \in Seq(S)
      /\ <<a, b>> \in Seq(S) /\ <<a, b, c>> \in Seq(S)
    BY <1>1
<1>3. <<a>> \o <<>> = <<a>>
    BY <1>2, ConcatEmptySeq
<1>4. <<a>> \o <<b>> = <<a, b>>
    <2> DEFINE s == <<a>>
               t == <<b>>
               u == <<a, b>>
               v == s \o t
    <2>1. s \in Seq(S) /\ t \in Seq(S) /\ u \in Seq(S)
        BY <1>2
    <2>2. Len(s) = 1 /\ Len(t) = 1 /\ Len(u) = 2 /\ s[1] = a /\ t[1] = b /\ u[1] = a /\ u[2] = b
        OBVIOUS
    <2> HIDE DEF s, t, u
    <2>3. v \in Seq(S) /\ Len(v) = 2
        <3>1. v \in Seq(S) /\ Len(v) = Len(s) + Len(t)
            BY <2>1, ConcatProperties
        <3> HIDE DEF v
        <3> QED
            BY <2>2, <3>1
    <2>4. v[1] = a /\ v[2] = b
        <3>1. 1 \in 1..Len(s) /\ 2 \in Len(s) + 1..Len(s) + Len(t) /\ 2 - Len(s) = 1
            BY <2>2
        <3>2. /\ \A k \in 1..Len(s) : v[k] = s[k]
              /\ \A k \in Len(s) + 1..Len(s) + Len(t) : v[k] = t[k - Len(s)]
            BY <2>1, Positions
        <3> HIDE DEF v
        <3> QED
            BY <2>2, <3>1, <3>2
    <2> HIDE DEF v
    <2>5. \A k \in 1..2 : v[k] = u[k]
        BY <2>2, <2>4
    <2>6. v = u
        BY <2>1, <2>2, <2>3, <2>5, SeqEqual
    <2> QED
        BY <2>6 DEF v, u, s, t
<1>5. <<a>> \o <<b, c>> = <<a, b, c>>
    <2> DEFINE s == <<a>>
               t == <<b, c>>
               u == <<a, b, c>>
               v == s \o t
    <2>1. s \in Seq(S) /\ t \in Seq(S) /\ u \in Seq(S)
        BY <1>2
    <2>2. /\ Len(s) = 1 /\ Len(t) = 2 /\ Len(u) = 3 /\ s[1] = a /\ t[1] = b /\ t[2] = c
          /\ u[1] = a /\ u[2] = b /\ u[3] = c
        OBVIOUS
    <2> HIDE DEF s, t, u
    <2>3. v \in Seq(S) /\ Len(v) = 3
        <3>1. v \in Seq(S) /\ Len(v) = Len(s) + Len(t)
            BY <2>1, ConcatProperties
        <3> HIDE DEF v
        <3> QED
            BY <2>2, <3>1
    <2>4. v[1] = a /\ v[2] = b /\ v[3] = c
        <3>1. /\ 1 \in 1..Len(s) /\ 2 \in Len(s) + 1..Len(s) + Len(t) /\ 3 \in Len(s) + 1..Len(s) + Len(t)
              /\ 2 - Len(s) = 1 /\ 3 - Len(s) = 2
            BY <2>2
        <3>2. /\ \A k \in 1..Len(s) : v[k] = s[k]
              /\ \A k \in Len(s) + 1..Len(s) + Len(t) : v[k] = t[k - Len(s)]
            BY <2>1, Positions
        <3> HIDE DEF v
        <3> QED
            BY <2>2, <3>1, <3>2
    <2> HIDE DEF v
    <2>5. \A k \in 1..3 : v[k] = u[k]
        BY <2>2, <2>4
    <2>6. v = u
        BY <2>1, <2>2, <2>3, <2>5, SeqEqual
    <2> QED
        BY <2>6 DEF v, u, s, t
<1> QED
    BY <1>3, <1>4, <1>5

LEMMA PrefixedRecord ==
    \A word, words, end : Prefixed(word, [words |-> words, end |-> end, needs |-> FALSE])
                            = [words |-> <<word>> \o words, end |-> end, needs |-> FALSE]
    BY DEF Prefixed, Preceded

LEMMA SerialTells ==
    ASSUME NEW word \in Words, NEW later \in Outcomes, ~later.needs
    PROVE  /\ Tells(serial_print(word), later, Prefixed(word, later)) /\ serial_print(word) \in Seq(Ops)
           /\ Prefixed(word, later) \in Outcomes /\ ~Prefixed(word, later).needs
<1> DEFINE s == <<Op("without_interrupts"), Lock("SERIAL1")>>
           t == <<Unlock("SERIAL1"), Op("restore_interrupts")>>
           op == Write("SERIAL1", <<word>>)
<1>1. s \in Seq(SilentOps) /\ t \in Seq(SilentOps)
    <2>1. /\ Op("without_interrupts") \in SilentOps /\ Lock("SERIAL1") \in SilentOps
          /\ Unlock("SERIAL1") \in SilentOps /\ Op("restore_interrupts") \in SilentOps
        BY SilentOperations DEF Devices
    <2> QED
        BY <2>1
<1>2. op \in Ops
    <2>1. <<word>> \in Texts /\ <<word>> # <<>>
        BY OneWord DEF Texts
    <2> QED
        BY <2>1, FreshOperations DEF Devices, FreshOps
<1>3. Said(op, later) = Prefixed(word, later)
    <2>1. op.op = "write" /\ op.device = "SERIAL1" /\ op.text = <<word>> /\ op.pos = 1 /\ Len(<<word>>) = 1
        BY DEF Write
    <2> HIDE DEF op
    <2> QED
        BY <2>1 DEF Said, Prefixed
<1>4. Prefixed(word, later) \in Outcomes /\ ~Prefixed(word, later).needs
    <2>1. Said(op, later) \in Outcomes
        BY <1>2, SaidIsOutcome
    <2>2. Prefixed(word, later).needs = later.needs
        BY DEF Prefixed, Preceded, Outcomes
    <2> QED
        BY <1>3, <2>1, <2>2
<1>5. serial_print(word) = (s \o <<op>>) \o t
    BY DEF serial_print, print
<1> HIDE DEF s, t, op
<1>6. Tells((s \o <<op>>) \o t, later, Said(op, later)) /\ (s \o <<op>>) \o t \in Seq(Ops)
    BY <1>1, <1>2, <1>3, <1>4, TellsAround
<1> QED
    BY <1>3, <1>4, <1>5, <1>6

LEMMA ExitTells ==
    ASSUME NEW code \in {"Success", "Failed"}, NEW later \in Outcomes, ~later.needs
    PROVE  Tells(exit_qemu(code), later, Ending(Exit(code))) /\ exit_qemu(code) \in Seq(Ops)
<1>1. Exit(code) \in Ops
    BY FreshOperations DEF Exit, FreshOps
<1>2. Said(Exit(code), later) = Ending(Exit(code))
    <2>1. Exit(code).op = "exit"
        BY DEF Exit
    <2> QED
        BY <2>1 DEF Said
<1>3. Tells(<<Exit(code)>>, later, Ending(Exit(code)))
    BY <1>1, <1>2, TellsOne
<1> QED
    BY <1>1, <1>3 DEF exit_qemu, Exit

LEMMA PanicTells ==
    ASSUME entry # "main", NEW later \in Outcomes, ~later.needs
    PROVE  Tells(panic, later, Failure) /\ panic \in Seq(Ops)
<1> DEFINE e == Ending(Exit("Failed"))
           f == Prefixed("Error", e)
<1>1. Tells(hlt_loop, later, later) /\ hlt_loop \in Seq(Ops)
    BY SilentCode, SilentTells
<1>2. Tells(exit_qemu("Failed"), later, e) /\ exit_qemu("Failed") \in Seq(Ops)
    BY ExitTells
<1>3. e \in Outcomes /\ ~e.needs
    <2>1. Exit("Failed") \in Ops
        BY FreshOperations DEF Exit, FreshOps
    <2> QED
        BY <2>1, FixedOutcomes DEF Ending
<1>4. "Error" \in Words /\ "[failed]" \in Words
    BY DEF Words
<1>5. Tells(serial_print("Error"), e, f) /\ serial_print("Error") \in Seq(Ops) /\ f \in Outcomes /\ ~f.needs
    <2> HIDE DEF e
    <2> QED
        BY <1>3, <1>4, SerialTells
<1>6. /\ Tells(serial_print("[failed]"), f, Prefixed("[failed]", f)) /\ serial_print("[failed]") \in Seq(Ops)
    <2> HIDE DEF f
    <2> QED
        BY <1>4, <1>5, SerialTells
<1>7. Prefixed("[failed]", f) = Failure
    <2>1. f = [words |-> <<"Error">>, end |-> Exit("Failed"), needs |-> FALSE]
        BY FewWords, PrefixedRecord DEF Ending
    <2>2. <<"[failed]">> \o <<"Error">> = <<"[failed]", "Error">>
        BY FewWords
    <2> HIDE DEF f
    <2> QED
        BY <2>1, <2>2, PrefixedRecord DEF Failure
<1>8. panic = ((serial_print("[failed]") \o serial_print("Error")) \o exit_qemu("Failed")) \o hlt_loop
    BY DEF panic, test_panic_handler
<1> HIDE DEF e, f
<1> DEFINE a == serial_print("[failed]")
           b == serial_print("Error")
           c == exit_qemu("Failed")
<1> HIDE DEF a, b, c
<1>9. a \o b \in Seq(Ops) /\ (a \o b) \o c \in Seq(Ops) /\ ((a \o b) \o c) \o hlt_loop \in Seq(Ops)
    BY <1>1, <1>2, <1>5, <1>6, ConcatProperties DEF a, b, c
<1>10. Tells(a \o b, e, Failure)
    BY <1>5, <1>6, <1>7, TellsJoined DEF a, b
<1>11. Tells((a \o b) \o c, later, Failure)
    BY <1>2, <1>9, <1>10, TellsJoined DEF c
<1>12. Tells(((a \o b) \o c) \o hlt_loop, later, Failure)
    BY <1>1, <1>9, <1>11, TellsJoined
<1> QED
    BY <1>8, <1>9, <1>12 DEF a, b, c

LEMMA OutputTells ==
    ASSUME NEW char \in Words, NEW later \in Outcomes, ~later.needs
    PROVE  /\ Tells(println_output(char), later, IF char = "o" THEN later ELSE Failure)
           /\ println_output(char) \in Seq(Ops)
<1> DEFINE s == <<Op("without_interrupts"), Lock("WRITER")>>
           t == <<Unlock("WRITER"), Op("restore_interrupts")>>
           write == Write("WRITER", Line)
           check == [op |-> "assert_row", char |-> char]
           x == IF char = "o" THEN later ELSE Failure
           y == [x EXCEPT !.needs = TRUE]
<1>1. s \in Seq(SilentOps) /\ t \in Seq(SilentOps)
    <2>1. /\ Op("without_interrupts") \in SilentOps /\ Lock("WRITER") \in SilentOps
          /\ Unlock("WRITER") \in SilentOps /\ Op("restore_interrupts") \in SilentOps
        BY SilentOperations DEF Devices
    <2> QED
        BY <2>1
<1>2. write \in Ops /\ check \in Ops
    <2>1. Line \in Texts /\ Line # <<>>
        BY DEF Line, Texts, Words
    <2> QED
        BY <2>1, FreshOperations DEF Devices, FreshOps
<1>3. x \in Outcomes /\ ~x.needs
    BY FixedOutcomes DEF Failure
<1>4. y \in Outcomes /\ y.needs /\ [y EXCEPT !.needs = FALSE] = x
    <2> HIDE DEF x
    <2>1. x.needs = FALSE
        BY <1>3 DEF Outcomes
    <2> QED
        BY <1>3, <2>1 DEF Outcomes
<1>5. Said(check, later) = y
    <2>1. check.op = "assert_row" /\ check.char = char
        OBVIOUS
    <2> HIDE DEF check
    <2> QED
        BY <2>1 DEF Said
<1>6. Said(write, y) = x
    <2>1. write.op = "write" /\ write.device = "WRITER" /\ write.text = Line
        BY DEF Write
    <2> HIDE DEF write, y, x
    <2> QED
        BY <1>4, <2>1 DEF Said
<1>7. println_output(char) = ((s \o <<write>>) \o <<check>>) \o t
    BY DEF println_output, Line
<1> HIDE DEF s, t, write, check, x, y
<1>8. Tells(t, later, later) /\ t \in Seq(Ops) /\ Tells(s, x, x) /\ s \in Seq(Ops)
    BY <1>1, <1>3, SilentTells
<1>9. Tells(<<check>>, later, y) /\ <<check>> \in Seq(Ops) /\ Tells(<<write>>, y, x) /\ <<write>> \in Seq(Ops)
    BY <1>2, <1>4, <1>5, <1>6, TellsOne
<1>10. s \o <<write>> \in Seq(Ops) /\ (s \o <<write>>) \o <<check>> \in Seq(Ops)
       /\ ((s \o <<write>>) \o <<check>>) \o t \in Seq(Ops)
    BY <1>8, <1>9, ConcatProperties
<1>11. Tells(s \o <<write>>, y, x)
    BY <1>8, <1>9, TellsJoined
<1>12. Tells((s \o <<write>>) \o <<check>>, later, x)
    BY <1>9, <1>10, <1>11, TellsJoined
<1>13. Tells(((s \o <<write>>) \o <<check>>) \o t, later, x)
    BY <1>8, <1>10, <1>12, TellsJoined
<1> QED
    BY <1>7, <1>10, <1>13 DEF x

LEMMA TestTells ==
    ASSUME NEW test \in TestNames, NEW later \in Outcomes, ~later.needs
    PROVE  /\ Tells(TestBody(test), later, IF test \in Failing THEN Failure ELSE later)
           /\ TestBody(test) \in Seq(Ops)
<1>1. ASSUME NEW name \in {"panic", "overflow_stack"}
      PROVE  Tells(<<Op(name)>>, later, Failure) /\ <<Op(name)>> \in Seq(Ops)
    <2>1. Op(name) \in Ops /\ Op(name).op = name
        BY FreshOperations DEF FreshOps, Op
    <2>2. Said(Op(name), later) = Failure
        BY <2>1 DEF Said
    <2> QED
        BY <2>1, <2>2, TellsOne
<1>2. Tells(<<>>, later, later) /\ <<>> \in Seq(Ops)
    BY TellsNothing
<1>3. Tells(println(<<"s", "\n">>), later, later) /\ println(<<"s", "\n">>) \in Seq(Ops)
    <2>1. <<"s", "\n">> \in Texts /\ <<"s", "\n">> # <<>>
        BY TwoWords DEF Texts, Words
    <2> QED
        BY <2>1, SilentCode, SilentTells
<1>4. Tells(<<Op("int3")>>, later, later) /\ <<Op("int3")>> \in Seq(Ops)
    <2>1. <<Op("int3")>> \in Seq(SilentOps)
        BY SilentOperations
    <2> QED
        BY <2>1, SilentTells
<1>5. /\ Tells(println_output("o"), later, later) /\ println_output("o") \in Seq(Ops)
      /\ Tells(println_output("x"), later, Failure) /\ println_output("x") \in Seq(Ops)
    <2>1. "o" \in Words /\ "x" \in Words /\ "x" # "o"
        BY DEF Words
    <2>2. ASSUME NEW char \in Words
          PROVE  Tells(println_output(char), later, IF char = "o" THEN later ELSE Failure)
                 /\ println_output(char) \in Seq(Ops)
        BY OutputTells
    <2> QED
        BY <2>1, <2>2
<1>6. CASE test = "trivial_assertion"
    BY <1>2, <1>6 DEF TestBody, Failing
<1>7. CASE test = "println_simple"
    BY <1>3, <1>7 DEF TestBody, Failing
<1>8. CASE test = "println_output"
    BY <1>5, <1>8 DEF TestBody, Failing
<1>9. CASE test = "break_point_exception"
    BY <1>4, <1>9 DEF TestBody, Failing
<1>10. CASE test = "failing_assertion"
    BY <1>1, <1>10 DEF TestBody, Failing
<1>11. CASE test = "failing_output"
    BY <1>5, <1>11 DEF TestBody, Failing
<1>12. CASE test = "stack_overflow"
    BY <1>1, <1>12 DEF TestBody, Failing
<1> QED
    BY <1>6, <1>7, <1>8, <1>9, <1>10, <1>11, <1>12 DEF TestNames

\* What a turn of the loop over the tests says: the tests that are left come after it.
Again(suite) == [op |-> "for_test", suite |-> suite]
Turn(suite) ==
    IF suite = <<>> THEN Succeeded
    ELSE IF Head(suite) \in Failing
    THEN [words |-> <<Head(suite), "[failed]", "Error">>, end |-> Exit("Failed"), needs |-> FALSE]
    ELSE [words |-> <<Head(suite), "[ok]">>, end |-> Again(Tail(suite)), needs |-> FALSE]

LEMMA TurnTells ==
    ASSUME NEW suite \in Seq(TestNames)
    PROVE  /\ Tells(for_test(suite), Succeeded, Turn(suite)) /\ for_test(suite) \in Seq(Ops)
           /\ Turn(suite) \in Outcomes /\ ~Turn(suite).needs
<1>1. Succeeded \in Outcomes /\ ~Succeeded.needs
    BY FixedOutcomes DEF Succeeded, Ending
<1>2. CASE suite = <<>>
    <2>1. for_test(suite) = <<>> /\ Turn(suite) = Succeeded
        BY <1>2 DEF for_test, Turn
    <2> QED
        BY <1>1, <2>1, TellsNothing
<1>3. CASE suite # <<>>
    <2> DEFINE test == Head(suite)
               again == Again(Tail(suite))
               e == Ending(again)
               o == Prefixed("[ok]", e)
               x == IF test \in Failing THEN Failure ELSE o
    <2>1. test \in TestNames /\ Tail(suite) \in Seq(TestNames)
        BY <1>3
    <2>2. again \in Ops /\ again.op = "for_test"
        BY <2>1, FreshOperations DEF FreshOps, Again
    <2>3. test \in Words /\ "[ok]" \in Words
        BY <2>1 DEF Words
    <2> HIDE DEF test, again
    <2>4. Said(again, Succeeded) = e /\ e \in Outcomes /\ ~e.needs
        <3>1. Said(again, Succeeded) = e
            BY <1>1, <2>2 DEF Said
        <3>2. e \in Outcomes
            BY <2>2, FixedOutcomes
        <3>3. ~e.needs
            BY DEF Ending
        <3> QED
            BY <3>1, <3>2, <3>3
    <2>5. Tells(<<again>>, Succeeded, e) /\ <<again>> \in Seq(Ops)
        BY <1>1, <2>2, <2>4, TellsOne
    <2>6. o = [words |-> <<"[ok]">>, end |-> again, needs |-> FALSE]
        BY FewWords, PrefixedRecord DEF Ending
    <2> HIDE DEF e
    <2>7. /\ Tells(serial_print("[ok]"), e, o) /\ serial_print("[ok]") \in Seq(Ops)
          /\ o \in Outcomes /\ ~o.needs
        BY <2>3, <2>4, SerialTells
    <2> HIDE DEF o
    <2>8. /\ Tells(TestBody(test), o, x) /\ TestBody(test) \in Seq(Ops)
        BY <2>1, <2>7, TestTells
    <2>9. x \in Outcomes /\ ~x.needs
        BY <2>7, FixedOutcomes DEF Failure
    <2> HIDE DEF x
    <2>10. /\ Tells(serial_print(test), x, Prefixed(test, x)) /\ serial_print(test) \in Seq(Ops)
           /\ Prefixed(test, x) \in Outcomes /\ ~Prefixed(test, x).needs
        BY <2>3, <2>9, SerialTells
    <2>11. Prefixed(test, x) = Turn(suite)
        <3>1. CASE test \in Failing
            <4>1. x = [words |-> <<"[failed]", "Error">>, end |-> Exit("Failed"), needs |-> FALSE]
                BY <3>1 DEF x, Failure
            <4>2. <<test>> \o <<"[failed]", "Error">> = <<test, "[failed]", "Error">>
                BY FewWords
            <4> QED
                BY <1>3, <3>1, <4>1, <4>2, PrefixedRecord DEF Turn, test
        <3>2. CASE test \notin Failing
            <4>1. x = [words |-> <<"[ok]">>, end |-> again, needs |-> FALSE]
                BY <2>6, <3>2 DEF x
            <4>2. <<test>> \o <<"[ok]">> = <<test, "[ok]">>
                BY FewWords
            <4> QED
                BY <1>3, <3>2, <4>1, <4>2, PrefixedRecord DEF Turn, test, again
        <3> QED
            BY <3>1, <3>2
    <2> DEFINE a == serial_print(test)
               b == TestBody(test)
               c == serial_print("[ok]")
    <2>12. for_test(suite) = ((a \o b) \o c) \o <<again>>
        BY <1>3 DEF for_test, run, test, again, Again
    <2> HIDE DEF a, b, c
    <2>13. a \o b \in Seq(Ops) /\ (a \o b) \o c \in Seq(Ops) /\ ((a \o b) \o c) \o <<again>> \in Seq(Ops)
        BY <2>5, <2>7, <2>8, <2>10, ConcatProperties DEF a, b, c
    <2>14. Tells(a \o b, o, Prefixed(test, x))
        BY <2>8, <2>10, TellsJoined DEF a, b
    <2>15. Tells((a \o b) \o c, e, Prefixed(test, x))
        BY <2>7, <2>13, <2>14, TellsJoined DEF c
    <2>16. Tells(((a \o b) \o c) \o <<again>>, Succeeded, Prefixed(test, x))
        BY <2>5, <2>13, <2>15, TellsJoined
    <2> QED
        BY <2>10, <2>11, <2>12, <2>13, <2>16
<1> QED
    BY <1>2, <1>3

LEMMA StartTells ==
    ASSUME NEW program \in {"main", "main_test", "lib_test"}, NEW suite \in Seq(TestNames)
    PROVE  /\ Tells(start(program, suite), Halted,
                    IF program = "main" THEN Halted ELSE Prefixed("Running", Turn(suite)))
           /\ Prefixed("Running", Turn(suite)) \in Outcomes /\ ~Prefixed("Running", Turn(suite)).needs
<1> DEFINE p == println(<<"H", "i", "!", "\n">>)
           q == println(<<"c", "\n">>)
           r == serial_print("Running")
           f == for_test(suite)
           e == exit_qemu("Success")
           running == Prefixed("Running", Turn(suite))
<1>1. p \in Seq(SilentOps) /\ q \in Seq(SilentOps)
    <2>1. <<"H", "i", "!", "\n">> \in Texts /\ <<"H", "i", "!", "\n">> # <<>>
        BY DEF Texts, Words
    <2>2. <<"c", "\n">> \in Texts /\ <<"c", "\n">> # <<>>
        BY TwoWords DEF Texts, Words
    <2> QED
        BY <2>1, <2>2, SilentCode
<1>2. init \in Seq(SilentOps) /\ hlt_loop \in Seq(SilentOps)
    BY SilentCode
<1>3. Halted \in Outcomes /\ ~Halted.needs /\ Succeeded \in Outcomes /\ ~Succeeded.needs
    BY FixedOutcomes DEF Halted, Succeeded, Ending
<1>4. /\ Tells(f, Succeeded, Turn(suite)) /\ f \in Seq(Ops)
      /\ Turn(suite) \in Outcomes /\ ~Turn(suite).needs
    BY TurnTells
<1>5. /\ Tells(r, Turn(suite), running) /\ r \in Seq(Ops) /\ running \in Outcomes /\ ~running.needs
    <2>1. "Running" \in Words
        BY DEF Words
    <2> QED
        BY <1>4, <2>1, SerialTells
<1>6. Tells(e, Halted, Succeeded) /\ e \in Seq(Ops)
    BY <1>3, ExitTells DEF Succeeded
<1> HIDE DEF p, q, r, f, e, running
<1>7. r \o f \in Seq(Ops) /\ (r \o f) \o e \in Seq(Ops)
    BY <1>4, <1>5, <1>6, ConcatProperties
<1>8. Tells(r \o f, Succeeded, running)
    BY <1>4, <1>5, TellsJoined
<1>9. Tells((r \o f) \o e, Halted, running)
    BY <1>6, <1>7, <1>8, TellsJoined
<1>10. CASE program = "main"
    <2>1. start(program, suite) = ((p \o init) \o q) \o hlt_loop
        BY <1>10 DEF start, p, q
    <2>2. ((p \o init) \o q) \o hlt_loop \in Seq(SilentOps)
        BY <1>1, <1>2, ConcatProperties
    <2>3. Tells(start(program, suite), Halted, Halted)
        BY <1>3, <2>1, <2>2, SilentTells
    <2> QED
        BY <1>5, <1>10, <2>3 DEF running
<1>11. CASE program = "main_test"
    <2>1. start(program, suite) = (((p \o init) \o ((r \o f) \o e)) \o q) \o hlt_loop
        BY <1>11 DEF start, test_runner, p, q, r, f, e
    <2> DEFINE a == p \o init
               b == (r \o f) \o e
    <2>2. a \in Seq(SilentOps)
        BY <1>1, <1>2, ConcatProperties
    <2>3. Tells(a, running, running) /\ a \in Seq(Ops)
        BY <1>5, <2>2, SilentTells
    <2>4. Tells(q, Halted, Halted) /\ q \in Seq(Ops) /\ Tells(hlt_loop, Halted, Halted) /\ hlt_loop \in Seq(Ops)
        BY <1>1, <1>2, <1>3, SilentTells
    <2>5. b \in Seq(Ops) /\ Tells(b, Halted, running)
        BY <1>7, <1>9
    <2> HIDE DEF a, b
    <2>6. a \o b \in Seq(Ops) /\ (a \o b) \o q \in Seq(Ops)
        BY <2>3, <2>4, <2>5, ConcatProperties
    <2>7. Tells(a \o b, Halted, running)
        BY <2>3, <2>5, TellsJoined
    <2>8. Tells((a \o b) \o q, Halted, running)
        BY <2>4, <2>6, <2>7, TellsJoined
    <2>9. Tells(((a \o b) \o q) \o hlt_loop, Halted, running)
        BY <2>4, <2>6, <2>8, TellsJoined
    <2> QED
        BY <1>5, <1>11, <2>1, <2>9 DEF running, a, b
<1>12. CASE program = "lib_test"
    <2>1. start(program, suite) = (init \o ((r \o f) \o e)) \o hlt_loop
        BY <1>12 DEF start, test_runner, r, f, e
    <2> DEFINE b == (r \o f) \o e
    <2>2. Tells(init, running, running) /\ init \in Seq(Ops)
        BY <1>2, <1>5, SilentTells
    <2>3. Tells(hlt_loop, Halted, Halted) /\ hlt_loop \in Seq(Ops)
        BY <1>2, <1>3, SilentTells
    <2>4. b \in Seq(Ops) /\ Tells(b, Halted, running)
        BY <1>7, <1>9
    <2> HIDE DEF b
    <2>5. init \o b \in Seq(Ops)
        BY <2>2, <2>4, ConcatProperties
    <2>6. Tells(init \o b, Halted, running)
        BY <2>2, <2>4, TellsJoined
    <2>7. Tells((init \o b) \o hlt_loop, Halted, running)
        BY <2>3, <2>5, <2>6, TellsJoined
    <2> QED
        BY <1>5, <1>12, <2>1, <2>7 DEF running, b
<1> QED
    BY <1>10, <1>11, <1>12

-----------------------------------------------------------------------------
(***************************************************************************)
(* The assertion on the screen.                                            *)
(***************************************************************************)
LEMMA GrownIsOK ==
    ASSUME NEW bytes \in Seq(Words), NEW f, Grown(f, bytes, Len(bytes))
    PROVE  \A k \in 0..Len(bytes) : LinesOK(f[k])
<1> DEFINE n == Len(bytes)
           bad == {k \in 0..n : ~LinesOK(f[k])}
<1>1. n \in Nat
    OBVIOUS
<1>2. SUFFICES ASSUME bad # {}
               PROVE  FALSE
    OBVIOUS
<1>3. bad \subseteq Nat
    OBVIOUS
<1>4. PICK k \in bad : \A y \in bad : k <= y
    BY <1>2, <1>3, LeastElement
<1>5. k \in 0..n /\ ~LinesOK(f[k]) /\ k \in Nat
    BY <1>4
<1>6. f[k] = IF k = 0 THEN <<<<>>>> ELSE AddToLines(f[k - 1], bytes[k])
    BY <1>5 DEF Grown
<1>7. CASE k = 0
    <2>1. LinesOK(<<<<>>>>)
        BY NothingWritten DEF Wrote
    <2> QED
        BY <1>5, <1>6, <1>7, <2>1
<1>8. CASE k # 0
    <2>1. k - 1 \in 0..n /\ ~(k <= k - 1) /\ k \in 1..n
        BY <1>1, <1>5, <1>8
    <2>2. LinesOK(f[k - 1])
        BY <1>4, <2>1
    <2> DEFINE lines == f[k - 1]
               w == [column_position |-> Len(lines[Len(lines)]), chars |-> Panel(lines)]
    <2>3. Wrote(w, lines)
        BY <2>2 DEF Wrote
    <2>4. bytes[k] \in Words
        BY <2>1
    <2> HIDE DEF lines, w
    <2>5. LinesOK(AddToLines(lines, bytes[k]))
        BY <2>3, <2>4, ByteWrites DEF Wrote
    <2> QED
        BY <1>5, <1>6, <1>8, <2>5 DEF lines
<1> QED
    BY <1>7, <1>8

\* A line of its own is on the row above the last.
LEMMA LineOfItsOwn ==
    ASSUME NEW bytes \in Seq(Words), Len(bytes) >= 3, bytes[Len(bytes) - 2] = "\n",
           bytes[Len(bytes) - 1] = "o", bytes[Len(bytes)] = "\n"
    PROVE  Panel(Lines(bytes))[BUFFER_HEIGHT - 1][1].ascii_character = "o"
<1> DEFINE n == Len(bytes)
<1>1. n \in Nat
    OBVIOUS
<1>2. PICK f : Grown(f, bytes, n) /\ Lines(bytes) = f[n]
    BY <1>1, TheLines
<1>3. /\ n - 3 \in 0..n /\ n - 2 \in 0..n /\ n - 1 \in 0..n /\ n \in 0..n
      /\ n - 2 # 0 /\ n - 1 # 0 /\ n # 0
      /\ (n - 2) - 1 = n - 3 /\ (n - 1) - 1 = n - 2
    BY <1>1
<1>4. /\ f[n - 2] = AddToLines(f[n - 3], "\n")
      /\ f[n - 1] = AddToLines(f[n - 2], "o")
      /\ f[n] = AddToLines(f[n - 1], "\n")
    <2>1. \A k \in 0..n : k # 0 => f[k] = AddToLines(f[k - 1], bytes[k])
        BY <1>2 DEF Grown
    <2> QED
        BY <1>3, <2>1
<1> DEFINE a == f[n - 3]
           b == f[n - 2]
           c == f[n - 1]
           d == f[n]
           m == Len(b)
           line == <<"o">>
<1>5. LinesOK(a) /\ LinesOK(b) /\ LinesOK(c) /\ LinesOK(d)
    BY <1>2, <1>3, GrownIsOK
<1>6. b = Append(a, <<>>) /\ d = Append(c, <<>>)
    BY <1>4 DEF AddToLines
<1>7. /\ c = (IF Len(Last(b)) = BUFFER_WIDTH THEN Append(b, <<Shown("o")>>)
              ELSE [b EXCEPT ![Len(b)] = Append(Last(b), Shown("o"))])
    BY <1>4 DEF AddToLines
<1> HIDE DEF a, b, c, d, n
<1>8. Shown("o") = "o"
    BY KernelAssumption DEF Shown
<1>9. m \in Nat /\ m >= 1 /\ b[m] = <<>> /\ Last(b) = <<>>
    <2>1. a \in Seq(Seq(Glyphs)) /\ <<>> \in Seq(Glyphs)
        BY <1>5 DEF LinesOK
    <2>2. b \in Seq(Seq(Glyphs)) /\ Len(b) = Len(a) + 1 /\ b[Len(a) + 1] = <<>> /\ Len(a) \in Nat
        BY <1>6, <2>1, AppendProperties
    <2> QED
        BY <2>2 DEF Last
<1>10. Append(<<>>, "o") = line /\ Len(line) = 1 /\ line[1] = "o" /\ line \in Seq(Glyphs)
    <2>1. "o" \in Glyphs
        BY DEF Glyphs, Words
    <2> QED
        BY <2>1
<1>11. c = [b EXCEPT ![m] = line]
    <2>1. Len(<<>>) # BUFFER_WIDTH
        BY BufferAssumption
    <2> QED
        BY <1>7, <1>8, <1>9, <1>10, <2>1
<1> HIDE DEF line
<1>12. Len(c) = m /\ c[m] = line /\ c \in Seq(Seq(Glyphs))
    <2>1. b \in Seq(Seq(Glyphs)) /\ c \in Seq(Seq(Glyphs))
        BY <1>5 DEF LinesOK
    <2> QED
        BY <1>9, <1>11, <2>1
<1>13. Len(d) = m + 1 /\ d[m] = line
    <2>1. <<>> \in Seq(Glyphs)
        OBVIOUS
    <2>2. m \in 1..m
        BY <1>9
    <2> HIDE DEF m
    <2>3. Len(d) = m + 1
        BY <1>6, <1>12, <2>1, AppendProperties
    <2>4. d[m] = c[m]
        BY <1>6, <1>12, <2>1, <2>2, AppendProperties
    <2> QED
        BY <1>12, <2>3, <2>4
<1> HIDE DEF m
<1>14. BUFFER_HEIGHT - 1 \in Rows /\ 1 \in Columns /\ BUFFER_HEIGHT \in Nat
    BY BufferAssumption, KernelAssumption DEF Rows, Columns
<1>15. RowOf(d, BUFFER_HEIGHT - 1) = m
    <2>1. BUFFER_HEIGHT - (BUFFER_HEIGHT - 1) = 1
        BY <1>14
    <2> QED
        BY <1>9, <1>13, <2>1 DEF RowOf
<1>16. CharAt(d, BUFFER_HEIGHT - 1, 1) = ScreenChar("o", color_code)
    <2> DEFINE r == RowOf(d, BUFFER_HEIGHT - 1)
    <2>1. r >= 1 /\ 1 <= Len(d[r]) /\ d[r][1] = "o"
        BY <1>9, <1>10, <1>13, <1>15
    <2>2. CharAt(d, BUFFER_HEIGHT - 1, 1) =
            IF r >= 1 /\ 1 <= Len(d[r]) THEN ScreenChar(d[r][1], color_code)
            ELSE IF r > 1 THEN Blank ELSE BootChar
        BY DEF CharAt
    <2> HIDE DEF r
    <2> QED
        BY <2>1, <2>2
<1>17. Panel(d)[BUFFER_HEIGHT - 1][1] = CharAt(d, BUFFER_HEIGHT - 1, 1)
    BY <1>14 DEF Panel
<1> QED
    BY <1>2, <1>16, <1>17 DEF d, n, ScreenChar

\* With the whole line written last, test_println_output finds it.
LEMMA LineIsShown ==
    ASSUME MessagesOK, log["WRITER"] # <<>>,
           log["WRITER"][Len(log["WRITER"])] = [text |-> Line, pos |-> 3]
    PROVE  writer.chars[BUFFER_HEIGHT - 1][1].ascii_character = "o"
<1> DEFINE entries == log["WRITER"]
           n == Len(entries)
           bytes == Bytes(entries)
<1>1. /\ entries \in Seq(Entry) /\ WholeMessages(entries) /\ bytes \in Seq(Words)
      /\ writer.chars = Panel(Lines(bytes))
    BY DEF MessagesOK, LogOK, WriterOK, Wrote, Devices
<1>2. n \in Nat /\ n >= 1 /\ DOMAIN entries = 1..n
    BY <1>1
<1>3. bytes = [i \in 1..n |-> entries[i].text[entries[i].pos]] /\ Len(bytes) = n
    <2>1. bytes = [i \in 1..n |-> entries[i].text[entries[i].pos]]
        BY <1>2 DEF Bytes
    <2> QED
        BY <1>2, <2>1
<1>4. ASSUME NEW i \in 1..n, entries[i].pos # 1
      PROVE  i - 1 \in 1..n /\ entries[i - 1] = [entries[i] EXCEPT !.pos = @ - 1]
    <2>1. LET this == entries[i] IN
            IF i = 1 \/ this.pos = 1
            THEN this.pos = 1 /\ (i > 1 => entries[i - 1].pos = Len(entries[i - 1].text))
            ELSE entries[i - 1] = [this EXCEPT !.pos = @ - 1]
        BY <1>1, <1>2 DEF WholeMessages
    <2>2. i # 1 /\ entries[i - 1] = [entries[i] EXCEPT !.pos = @ - 1]
        BY <1>4, <2>1
    <2> QED
        BY <1>2, <2>2
<1> DEFINE e(pos) == [text |-> Line, pos |-> pos]
<1>5. \A pos : e(pos).pos = pos /\ e(pos).text = Line
    OBVIOUS
<1>6. [e(3) EXCEPT !.pos = @ - 1] = e(2) /\ [e(2) EXCEPT !.pos = @ - 1] = e(1)
    OBVIOUS
<1>7. entries[n] = e(3) /\ n \in 1..n
    BY <1>2
<1> HIDE DEF e, entries, n, bytes
<1>8. n - 1 \in 1..n /\ entries[n - 1] = e(2)
    <2>1. entries[n].pos # 1
        <3>1. entries[n].pos = 3
            BY <1>5, <1>7
        <3> QED
            BY <3>1
    <2>2. n - 1 \in 1..n /\ entries[n - 1] = [entries[n] EXCEPT !.pos = @ - 1]
        BY <1>4, <1>7, <2>1
    <2> QED
        BY <1>6, <1>7, <2>2
<1>9. (n - 1) - 1 \in 1..n /\ entries[(n - 1) - 1] = e(1)
    <2> DEFINE k == n - 1
    <2>1. k \in 1..n /\ entries[k] = e(2)
        BY <1>8
    <2> HIDE DEF k
    <2>2. k - 1 \in 1..n /\ entries[k - 1] = e(1)
        <3>1. entries[k].pos = 2
            BY <1>5, <2>1
        <3>2. k - 1 \in 1..n /\ entries[k - 1] = [entries[k] EXCEPT !.pos = @ - 1]
            BY <1>4, <2>1, <3>1
        <3> QED
            BY <1>6, <2>1, <3>2
    <2> QED
        BY <2>2 DEF k
<1>10. n >= 3 /\ (n - 1) - 1 = n - 2
    BY <1>2, <1>9
<1>11. bytes[n] = Line[3] /\ bytes[n - 1] = Line[2] /\ bytes[n - 2] = Line[1]
    BY <1>3, <1>5, <1>7, <1>8, <1>9, <1>10
<1>12. Line[1] = "\n" /\ Line[2] = "o" /\ Line[3] = "\n"
    BY DEF Line
<1> QED
    BY <1>1, <1>3, <1>10, <1>11, <1>12, LineOfItsOwn

-----------------------------------------------------------------------------
(***************************************************************************)
(* The verdict: what the host has read and will read.                      *)
(***************************************************************************)

\* What is below the top frame tells this, and the top frame tells that before it.
Below(f, later) == IF Len(f) = 1 THEN later = Halted ELSE Tells(f[1].todo, Halted, later)
Told(f, first) ==
    \E later \in Outcomes : ~later.needs /\ Below(f, later) /\ Tells(f[Len(f)].todo, later, first)

\* The tests after the first n.
Left(suite, n) ==
    /\ suite \in Seq(TestNames) /\ Len(suite) = Len(tests) - n
    /\ \A k \in 1..Len(suite) : suite[k] = tests[n + k]

\* The first n tests have passed, and the rest are next; or there is no other; or
\* the next one fails.
GoingOn(all, end, n) ==
    Len(all) = 2 * n + 1 /\ \E suite : Left(suite, n) /\ end = Again(suite)
AllPassed(all, end, n) ==
    Len(all) = 2 * n + 1 /\ n = Len(tests) /\ end = Exit("Success")
OneFails(all, end, n) ==
    /\ n < Len(tests) /\ tests[n + 1] \in Failing /\ Len(all) = 2 * n + 4 /\ end = Exit("Failed")
    /\ all[2 * n + 2] = tests[n + 1] /\ all[2 * n + 3] = "[failed]" /\ all[2 * n + 4] = "Error"

\* What the host will have read when the processor comes to the operation `end'.
Judged(all, end) ==
    IF entry = "main" THEN all = <<>> /\ end = Op("hlt")
    ELSE \E n \in 0..Len(tests) :
            /\ \A i \in 1..n : tests[i] \notin Failing
            /\ Passed(all, n)
            /\ GoingOn(all, end, n) \/ AllPassed(all, end, n) \/ OneFails(all, end, n)

LineWritten ==
    /\ log["WRITER"] # <<>>
    /\ log["WRITER"][Len(log["WRITER"])] = [text |-> Line, pos |-> 3]
Due(first) ==
    /\ first \in Outcomes
    /\ Judged(Bytes(log["SERIAL1"]) \o first.words, first.end)
    /\ first.needs => LineWritten

VerdictOK ==
    /\ tests \in Seq(TestNames)
    /\ \E first : Told(frames, first) /\ Due(first)
    /\ exit # "none" => Top.todo # <<>> /\ NextOp.op = "exit" /\ NextOp.code = exit

LEMMA NeverLost ==
    \A first : Due(first) => /\ first # Lost
                             /\ first.end = Exit("Failed") => entry # "main"
                             /\ first.end.op = "for_test" => entry # "main"
<1> SUFFICES ASSUME NEW first, Due(first)
             PROVE  /\ first # Lost
                    /\ first.end = Exit("Failed") => entry # "main"
                    /\ first.end.op = "for_test" => entry # "main"
    OBVIOUS
<1>1. /\ \A code : Exit(code).op = "exit"
      /\ \A suite : Again(suite).op = "for_test"
      /\ Op("hlt").op = "hlt" /\ Op("lost").op = "lost"
    BY DEF Exit, Again, Op
<1>2. Lost.end = Op("lost")
    BY DEF Lost, Ending
<1>3. CASE entry = "main"
    <2>1. first.end = Op("hlt")
        BY <1>3 DEF Due, Judged
    <2>2. first.end.op = "hlt"
        BY <1>1, <2>1
    <2> QED
        BY <1>1, <1>2, <2>2
<1>4. CASE entry # "main"
    <2>1. \/ \E suite : first.end = Again(suite)
          \/ first.end = Exit("Success") \/ first.end = Exit("Failed")
        BY <1>4 DEF Due, Judged, GoingOn, AllPassed, OneFails
    <2>2. first.end.op \in {"for_test", "exit"}
        BY <1>1, <2>1
    <2> QED
        BY <1>1, <1>2, <1>4, <2>2
<1> QED
    BY <1>3, <1>4

\* A turn of the loop: what is said with it is what is due for one test more.
LEMMA TurnIsJudged ==
    ASSUME entry # "main", tests \in Seq(TestNames), NEW said \in Seq(Words), NEW n \in 0..Len(tests),
           \A i \in 1..n : tests[i] \notin Failing,
           Passed(said, n), Len(said) = 2 * n + 1, NEW suite, Left(suite, n)
    PROVE  Judged(said \o Turn(suite).words, Turn(suite).end)
<1> DEFINE words == Turn(suite).words
           all == said \o words
           end == Turn(suite).end
           m == Len(said)
<1>1. suite \in Seq(TestNames) /\ Turn(suite) \in Outcomes
    BY TurnTells DEF Left
<1>2. words \in Seq(Words)
    BY <1>1 DEF Outcomes
<1>3. n \in Nat /\ m = 2 * n + 1 /\ Len(tests) \in Nat /\ m \in Nat
    OBVIOUS
<1> HIDE DEF words, end
<1>4. /\ Len(all) = m + Len(words) /\ Len(words) \in Nat
      /\ \A k \in 1..m : all[k] = said[k]
      /\ \A k \in m + 1..m + Len(words) : all[k] = words[k - m]
    BY <1>2, Positions
<1> HIDE DEF all
<1>8. \A k, i : k \in m + 1..m + Len(words) /\ k - m = i => all[k] = words[i]
    BY <1>4
<1>5. Passed(all, n)
    <2>1. said[1] = "Running" /\ \A i \in 1..n : said[2 * i] = tests[i] /\ said[2 * i + 1] = "[ok]"
        BY DEF Passed
    <2>2. 1 \in 1..m /\ \A i \in 1..n : 2 * i \in 1..m /\ 2 * i + 1 \in 1..m
        BY <1>3
    <2> HIDE DEF m
    <2>3. all[1] = "Running"
        BY <1>4, <2>1, <2>2
    <2>4. ASSUME NEW i \in 1..n PROVE all[2 * i] = tests[i] /\ all[2 * i + 1] = "[ok]"
        BY <1>4, <2>1, <2>2
    <2> QED
        BY <2>3, <2>4 DEF Passed
<1>6. CASE suite = <<>>
    <2>1. Turn(suite) = Succeeded
        BY <1>6 DEF Turn
    <2>2. words = <<>> /\ end = Exit("Success")
        BY <2>1 DEF words, end, Succeeded, Ending
    <2>3. n = Len(tests)
        <3>1. Len(suite) = 0 /\ Len(suite) = Len(tests) - n
            BY <1>6 DEF Left
        <3> QED
            BY <1>3, <3>1
    <2>4. Len(all) = 2 * n + 1
        <3>1. Len(words) = 0
            BY <2>2
        <3> QED
            BY <1>3, <1>4, <3>1
    <2>5. AllPassed(all, end, n)
        BY <2>2, <2>3, <2>4 DEF AllPassed
    <2>6. Judged(all, end)
        BY <1>5, <2>5 DEF Judged
    <2> QED
        BY <2>6 DEF all, words, end
<1>7. CASE suite # <<>>
    <2> DEFINE test == Head(suite)
    <2>1. Len(suite) >= 1 /\ test = suite[1] /\ Len(suite) \in Nat /\ Len(suite) = Len(tests) - n
        BY <1>1, <1>7 DEF Left
    <2>2. n + 1 \in 1..Len(tests) /\ n < Len(tests) /\ test = tests[n + 1]
        <3>1. 1 \in 1..Len(suite)
            BY <2>1
        <3>2. suite[1] = tests[n + 1]
            BY <3>1 DEF Left
        <3> QED
            BY <1>3, <2>1, <3>2
    <2>3. CASE test \in Failing
        <3>1. Turn(suite) = [words |-> <<test, "[failed]", "Error">>, end |-> Exit("Failed"), needs |-> FALSE]
            BY <1>7, <2>3 DEF Turn
        <3>2. words = <<test, "[failed]", "Error">> /\ end = Exit("Failed")
            BY <3>1 DEF words, end
        <3> HIDE DEF test
        <3>3. Len(words) = 3 /\ words[1] = test /\ words[2] = "[failed]" /\ words[3] = "Error"
            BY <3>2
        <3>4. /\ 2 * n + 2 \in m + 1..m + Len(words) /\ (2 * n + 2) - m = 1
              /\ 2 * n + 3 \in m + 1..m + Len(words) /\ (2 * n + 3) - m = 2
              /\ 2 * n + 4 \in m + 1..m + Len(words) /\ (2 * n + 4) - m = 3
              /\ m + Len(words) = 2 * n + 4
            BY <1>3, <3>3
        <3>5. Len(all) = 2 * n + 4
            BY <1>4, <3>4
        <3> HIDE DEF m
        <3>6. all[2 * n + 2] = words[1] /\ all[2 * n + 3] = words[2] /\ all[2 * n + 4] = words[3]
            BY <1>8, <3>4
        <3>7. OneFails(all, end, n)
            BY <2>2, <2>3, <3>2, <3>3, <3>5, <3>6 DEF OneFails
        <3>8. Judged(all, end)
            BY <1>5, <3>7 DEF Judged
        <3> QED
            BY <3>8 DEF all, words, end
    <2>4. CASE test \notin Failing
        <3>1. Turn(suite) = [words |-> <<test, "[ok]">>, end |-> Again(Tail(suite)), needs |-> FALSE]
            BY <1>7, <2>4 DEF Turn
        <3>2. words = <<test, "[ok]">> /\ end = Again(Tail(suite))
            BY <3>1 DEF words, end
        <3> HIDE DEF test
        <3>3. Len(words) = 2 /\ words[1] = test /\ words[2] = "[ok]"
            BY <3>2
        <3> DEFINE j == n + 1
        <3>4. /\ 2 * j \in m + 1..m + Len(words) /\ 2 * j - m = 1
              /\ 2 * j + 1 \in m + 1..m + Len(words) /\ (2 * j + 1) - m = 2
              /\ m + Len(words) = 2 * j + 1
            BY <1>3, <3>3
        <3>5. Len(all) = 2 * j + 1
            BY <1>4, <3>4
        <3>6. j \in 0..Len(tests) /\ \A i \in 1..j : i = j \/ i \in 1..n
            BY <1>3, <2>2
        <3>7. j = n + 1
            OBVIOUS
        <3> HIDE DEF m, j
        <3>8. all[2 * j] = words[1] /\ all[2 * j + 1] = words[2]
            BY <1>8, <3>4
        <3>9. \A i \in 1..j : tests[i] \notin Failing
            BY <2>2, <2>4, <3>6, <3>7
        <3>10. Passed(all, j)
            <4>1. \A i \in 1..n : all[2 * i] = tests[i] /\ all[2 * i + 1] = "[ok]"
                BY <1>5 DEF Passed
            <4>2. \A i \in 1..j : all[2 * i] = tests[i] /\ all[2 * i + 1] = "[ok]"
                BY <2>2, <3>3, <3>6, <3>7, <3>8, <4>1
            <4> QED
                BY <1>5, <4>2 DEF Passed
        <3>11. Left(Tail(suite), j)
            <4> DEFINE u == Tail(suite)
            <4>1. u \in Seq(TestNames) /\ Len(u) = Len(suite) - 1 /\ \A k \in 1..Len(u) : u[k] = suite[k + 1]
                BY <1>1, <1>7, HeadTailProperties
            <4> HIDE DEF u
            <4>2. Len(u) = Len(tests) - j
                BY <1>3, <2>1, <3>7, <4>1
            <4>3. ASSUME NEW k \in 1..Len(u) PROVE u[k] = tests[j + k]
                <5>1. k + 1 \in 1..Len(suite) /\ n + (k + 1) = j + k
                    BY <1>3, <2>1, <3>7, <4>1
                <5>2. suite[k + 1] = tests[n + (k + 1)]
                    BY <5>1 DEF Left
                <5> QED
                    BY <4>1, <5>1, <5>2
            <4> QED
                BY <4>1, <4>2, <4>3 DEF Left, u
        <3>12. GoingOn(all, end, j)
            BY <3>2, <3>5, <3>11 DEF GoingOn
        <3>13. Judged(all, end)
            BY <3>6, <3>9, <3>10, <3>12 DEF Judged
        <3> QED
            BY <3>13 DEF all, words, end
    <2> QED
        BY <2>3, <2>4
<1> QED
    BY <1>6, <1>7

-----------------------------------------------------------------------------
(***************************************************************************)
(* The operation the processor is at, and what it makes of what is told.   *)
(***************************************************************************)

\* What was due is still due when nothing has been said.
LEMMA StillDue ==
    ASSUME NEW first, Due(first), NEW next \in Outcomes, next.words = first.words, next.end = first.end,
           next.needs => LineWritten', log'["SERIAL1"] = log["SERIAL1"], UNCHANGED <<entry, tests>>
    PROVE  Due(next)'
<1> PICK all : all = Bytes(log["SERIAL1"]) \o first.words
    OBVIOUS
<1>1. Judged(all, first.end)
    BY DEF Due
<1>2. (Bytes(log["SERIAL1"]) \o next.words)' = all
    BY DEF Bytes
<1>3. Judged(all, first.end)'
    BY <1>1 DEF Judged, Passed, GoingOn, AllPassed, OneFails, Left
<1> QED
    BY <1>2, <1>3 DEF Due

LEMMA Reading ==
    ASSUME IInv, VerdictOK, Top.todo # <<>>
    PROVE  /\ NextOp \in Ops /\ Rest \in Seq(Ops) /\ Len(frames) \in {1, 2}
           /\ \E later \in Outcomes : \E next \in Outcomes :
                /\ ~later.needs /\ Below(frames, later) /\ Tells(Rest, later, next)
                /\ Due(Said(NextOp, next)) /\ Said(NextOp, next) # Lost
<1> DEFINE n == Len(frames)
           t == frames[n].todo
<1>1. StateOK /\ CodeOK /\ (Starting \/ Running \/ Handling \/ Failed)
    BY DEF IInv
<1>2. n \in {1, 2}
    BY <1>1, Places
<1>3. Top = frames[n] /\ t \in Seq(Ops)
    BY <1>1, <1>2, TopFrame
<1>4. t # <<>>
    BY <1>3
<1>5. NextOp = t[1] /\ Rest = Tail(t) /\ t[1] \in Ops /\ Tail(t) \in Seq(Ops)
    <2>1. Tail(t) \in Seq(Ops)
        BY <1>3, <1>4
    <2>2. t # <<>> => NextOp = t[1] /\ Rest = Tail(t) /\ t[1] \in Ops
        BY <1>1, <1>2, TopFrame
    <2> QED
        BY <1>4, <2>1, <2>2
<1>9. PICK first : Told(frames, first) /\ Due(first)
    BY DEF VerdictOK
<1>6. PICK later \in Outcomes : ~later.needs /\ Below(frames, later) /\ Tells(t, later, first)
    BY <1>9 DEF Told
<1>7. PICK next \in Outcomes : first = Said(t[1], next) /\ Tells(Tail(t), later, next)
    BY <1>3, <1>4, <1>6, TellsRest
<1>8. first # Lost
    BY <1>9, NeverLost
<1> QED
    BY <1>2, <1>5, <1>6, <1>7, <1>8, <1>9

\* An operation that has nothing to do with the verdict.
LEMMA SilentReading ==
    ASSUME IInv, VerdictOK, NEW name, At(name),
           name \notin {"write", "exit", "for_test", "panic", "overflow_stack", "assert_row"}
    PROVE  \E later \in Outcomes : \E next \in Outcomes :
                /\ ~later.needs /\ Below(frames, later) /\ Tells(Rest, later, next)
                /\ Due(next) /\ ~next.needs
<1>1. Top.todo # <<>> /\ NextOp.op = name
    BY DEF At
<1>2. PICK later \in Outcomes, next \in Outcomes :
                /\ ~later.needs /\ Below(frames, later) /\ Tells(Rest, later, next)
                /\ Due(Said(NextOp, next)) /\ Said(NextOp, next) # Lost
    BY <1>1, Reading
<1>3. ~next.needs
    BY <1>1, <1>2 DEF Said
<1>4. Said(NextOp, next) = next
    BY <1>1, <1>3 DEF Said
<1> QED
    BY <1>2, <1>3, <1>4

\* The top frame goes on with other code.
LEMMA ToldContinued ==
    ASSUME Len(frames) \in {1, 2}, NEW later \in Outcomes, ~later.needs, Below(frames, later),
           NEW u, NEW first, Tells(u, later, first),
           NEW f, Len(f) = Len(frames), f[Len(f)].todo = u,
           \A i \in 1..Len(frames) : i # Len(frames) => f[i] = frames[i]
    PROVE  Told(f, first)
<1>1. Below(f, later)
    <2>1. CASE Len(frames) = 1
        BY <2>1 DEF Below
    <2>2. CASE Len(frames) = 2
        <3>1. 1 \in 1..2 /\ 1 # 2
            OBVIOUS
        <3>2. f[1] = frames[1]
            BY <2>2, <3>1
        <3> QED
            BY <2>2, <3>2 DEF Below
    <2> QED
        BY <2>1, <2>2
<1> QED
    BY <1>1 DEF Told

LEMMA ToldContinue ==
    ASSUME IInv, NEW later \in Outcomes, ~later.needs, Below(frames, later),
           NEW u \in Seq(Ops), NEW first, Tells(u, later, first), frames' = Continue(u)
    PROVE  Told(frames', first)
<1> DEFINE n == Len(frames)
           f == Continue(u)
<1>1. StateOK /\ CodeOK /\ (Starting \/ Running \/ Handling \/ Failed)
    BY DEF IInv
<1>2. n \in {1, 2}
    BY <1>1, Places
<1>3. Len(f) = n /\ f[n].todo = u /\ \A i \in 1..n : i # n => f[i] = frames[i]
    BY <1>1, <1>2, Continued
<1>4. frames' = f
    OBVIOUS
<1> HIDE DEF f
<1>5. Told(f, first)
    BY <1>2, <1>3, ToldContinued
<1> QED
    BY <1>4, <1>5

\* A handler begins over the top frame.
LEMMA ToldEntered ==
    ASSUME NEW below \in Seq(Frame), Len(below) = 1, NEW g \in Frame,
           NEW later \in Outcomes, ~later.needs, Tells(below[1].todo, Halted, later),
           NEW first, Tells(g.todo, later, first), frames' = Append(below, g)
    PROVE  Told(frames', first)
<1> DEFINE f == Append(below, g)
<1>1. Len(f) = 2 /\ f[1] = below[1] /\ f[2] = g
    <2>1. Len(f) = Len(below) + 1
        BY AppendProperties
    <2>2. f[Len(below) + 1] = g
        BY AppendProperties
    <2>3. \A i \in 1..Len(below) : f[i] = below[i]
        BY AppendProperties
    <2> HIDE DEF f
    <2> QED
        BY <2>1, <2>2, <2>3
<1>2. frames' = f
    OBVIOUS
<1> HIDE DEF f
<1>3. Below(f, later) /\ Tells(f[Len(f)].todo, later, first)
    BY <1>1 DEF Below
<1> QED
    BY <1>2, <1>3 DEF Told

-----------------------------------------------------------------------------
(***************************************************************************)
(* The steps.                                                              *)
(***************************************************************************)
Verdict == \E first : Told(frames, first) /\ Due(first)

LEMMA SilentVerdict ==
    ASSUME IInv, VerdictOK, UNCHANGED <<entry, tests, log>>,
           \/ WithoutInterrupts \/ RestoreInterrupts \/ Acquire \/ Release \/ LoadTables
           \/ InitializePics \/ EnableInterrupts \/ EndOfInterrupt \/ ReadScancode
    PROVE  Verdict'
<1> DEFINE n == Len(frames)
<1>1. StateOK /\ CodeOK /\ (Starting \/ Running \/ Handling \/ Failed)
    BY DEF IInv
<1>2. n \in {1, 2}
    BY <1>1, Places
<1>3. PICK name : /\ At(name)
                  /\ name \in {"without_interrupts", "restore_interrupts", "lock", "unlock", "load_tss",
                               "load_idt", "initialize_pics", "enable_interrupts", "end_of_interrupt",
                               "read_scancode"}
    BY DEF WithoutInterrupts, RestoreInterrupts, Acquire, Release, LoadTables, InitializePics,
           EnableInterrupts, EndOfInterrupt, ReadScancode
<1>4. PICK later \in Outcomes, next \in Outcomes :
                /\ ~later.needs /\ Below(frames, later) /\ Tells(Rest, later, next)
                /\ Due(next) /\ ~next.needs
    BY <1>3, SilentReading
<1>5. Top.todo # <<>>
    BY <1>3 DEF At
<1>6. Rest \in Seq(Ops)
    BY <1>5, Reading
<1>7. Due(next)'
    BY <1>4, StillDue
<1>8. CASE WithoutInterrupts
    <2>1. frames' = [frames EXCEPT ![n] = [@ EXCEPT !.todo = Rest, !.saved = enabled]]
        BY <1>8 DEF WithoutInterrupts
    <2> DEFINE g == [frames[n] EXCEPT !.todo = Rest, !.saved = enabled]
               f == [frames EXCEPT ![n] = g]
    <2>2. n \in 1..n /\ frames[n] \in Frame /\ frames \in Seq(Frame)
        BY <1>1, <1>2, TopFrame DEF StateOK
    <2>3. g \in Frame /\ g.todo = Rest
        <3>1. enabled \in BOOLEAN
            BY <1>1 DEF StateOK
        <3> QED
            BY <1>6, <2>2, <3>1 DEF Frame
    <2> HIDE DEF g
    <2>4. Len(f) = n /\ f[n] = g /\ \A i \in 1..n : i # n => f[i] = frames[i]
        BY <2>2, <2>3
    <2>5. frames' = f
        BY <2>1 DEF g
    <2> HIDE DEF f
    <2>6. Told(f, next)
        BY <1>2, <1>4, <2>3, <2>4, ToldContinued
    <2> QED
        BY <1>7, <2>5, <2>6 DEF Verdict
<1>9. CASE ReadScancode
    <2>1. PICK text \in Texts : frames' = Continue(IF text = <<>> THEN Rest ELSE println(text) \o Rest)
        BY <1>9, DecodedIsText DEF ReadScancode
    <2>2. CASE text = <<>>
        <3>1. Told(frames', next)
            BY <1>4, <1>6, <2>1, <2>2, ToldContinue
        <3> QED
            BY <1>7, <3>1 DEF Verdict
    <2>3. CASE text # <<>>
        <3>1. Tells(println(text), next, next) /\ println(text) \in Seq(Ops)
            BY <1>4, <2>3, SilentCode, SilentTells
        <3>2. Tells(println(text) \o Rest, later, next)
            BY <1>4, <1>6, <3>1, TellsJoined
        <3>3. println(text) \o Rest \in Seq(Ops)
            BY <1>6, <3>1, ConcatProperties
        <3>4. Told(frames', next)
            BY <1>4, <2>1, <2>3, <3>2, <3>3, ToldContinue
        <3> QED
            BY <1>7, <3>4 DEF Verdict
    <2> QED
        BY <2>2, <2>3
<1>10. CASE \/ RestoreInterrupts \/ Acquire \/ Release \/ LoadTables
            \/ InitializePics \/ EnableInterrupts \/ EndOfInterrupt
    <2>1. frames' = Continue(Rest)
        BY <1>10 DEF RestoreInterrupts, Acquire, Release, LoadTables, InitializePics,
                     EnableInterrupts, EndOfInterrupt
    <2>2. Told(frames', next)
        BY <1>4, <1>6, <2>1, ToldContinue
    <2> QED
        BY <1>7, <2>2 DEF Verdict
<1> QED
    BY <1>8, <1>9, <1>10

LEMMA AppendedBefore ==
    ASSUME NEW s \in Seq(Words), NEW x \in Words, NEW t \in Seq(Words)
    PROVE  Append(s, x) \o t = s \o (<<x>> \o t)
<1>1. Append(s, x) = s \o <<x>>
    BY AppendIsConcat
<1>2. <<x>> \in Seq(Words)
    BY OneWord
<1> QED
    BY <1>1, <1>2, ConcatAssociative

LEMMA WriteVerdict ==
    ASSUME IInv, MessagesOK, VerdictOK, WriteOne
    PROVE  Verdict'
<1> DEFINE op == NextOp
           e == [text |-> op.text, pos |-> op.pos]
           v == [op EXCEPT !.pos = @ + 1]
<1>1. StateOK /\ CodeOK /\ (Starting \/ Running \/ Handling \/ Failed)
    BY DEF IInv
<1>2. At("write") /\ Top.todo # <<>> /\ op.op = "write" /\ UNCHANGED <<entry, tests>>
    BY DEF WriteOne, At
<1>3. Len(frames) \in {1, 2} /\ op \in Ops /\ Rest \in Seq(Ops)
    BY <1>2, Reading
<1>4. PICK later \in Outcomes, next \in Outcomes :
                /\ ~later.needs /\ Below(frames, later) /\ Tells(Rest, later, next)
                /\ Due(Said(NextOp, next)) /\ Said(NextOp, next) # Lost
    BY <1>2, Reading
<1>5. /\ op \in WriteOps /\ op.pos \in 1..Len(op.text)
      /\ \/ op.pos = 1 /\ Complete(log[op.device])
         \/ /\ op.pos # 1 /\ log[op.device] # <<>>
            /\ log[op.device][Len(log[op.device])] = [text |-> op.text, pos |-> op.pos - 1]
    BY <1>1, <1>2, <1>3, NextByteIsDue DEF MessagesOK
<1>6. /\ log' = [log EXCEPT ![op.device] = Append(@, e)]
      /\ frames' = Continue(IF op.pos = Len(op.text) THEN Rest ELSE <<v>> \o Rest)
    BY DEF WriteOne
<1>7. log \in [Devices -> Seq(Entry)] /\ \A d \in Devices : WholeMessages(log[d]) /\ Bytes(log[d]) \in Seq(Words)
    BY DEF MessagesOK, LogOK
<1>8. op.device \in Devices /\ op.text \in Seq(Words) /\ op.pos \in Nat /\ e \in Entry
    BY <1>5 DEF WriteOps, Entry, Texts
<1>9. CASE op.device = "WRITER"
    <2>1. log'["SERIAL1"] = log["SERIAL1"] /\ log'["WRITER"] = Append(log["WRITER"], e)
        BY <1>6, <1>7, <1>9 DEF Devices
    <2> PICK first : first = Said(op, next)
        OBVIOUS
    <2>2. Due(first) /\ first \in Outcomes /\ ~first.needs
        <3>1. first \in Outcomes /\ Due(first)
            BY <1>4 DEF Due
        <3>2. ~first.needs
            <4>1. \A o \in Outcomes : ~[o EXCEPT !.needs = FALSE].needs
                BY DEF Outcomes
            <4> QED
                BY <1>2, <1>4, <1>9, <4>1 DEF Said
        <3> QED
            BY <3>1, <3>2
    <2>3. CASE op.pos = Len(op.text)
        <3>1. Told(frames', next)
            BY <1>3, <1>4, <1>6, <2>3, ToldContinue
        <3>2. next.words = first.words /\ next.end = first.end /\ (next.needs => op.text = Line)
            <4>1. \A o \in Outcomes : LET p == [o EXCEPT !.needs = FALSE] IN p.words = o.words /\ p.end = o.end
                BY DEF Outcomes
            <4>2. CASE next.needs
                BY <1>4, <4>1, <4>2 DEF Said
            <4>3. CASE ~next.needs
                BY <1>2, <1>9, <4>3 DEF Said
            <4> QED
                BY <4>2, <4>3
        <3>3. next.needs => LineWritten'
            <4> HAVE next.needs
            <4>1. op.text = Line /\ Len(Line) = 3
                BY <3>2 DEF Line
            <4>2. e = [text |-> Line, pos |-> 3]
                BY <2>3, <4>1
            <4>3. log["WRITER"] \in Seq(Entry)
                BY <1>7 DEF Devices
            <4> DEFINE l == Append(log["WRITER"], e)
            <4> HIDE DEF e
            <4>4. l # <<>> /\ l[Len(l)] = e
                BY <1>8, <4>3, AppendProperties
            <4>5. log'["WRITER"] = l
                BY <2>1
            <4> HIDE DEF l
            <4> QED
                BY <4>2, <4>4, <4>5 DEF LineWritten
        <3> HIDE DEF op
        <3>4. Due(next)'
            BY <1>2, <2>1, <2>2, <3>2, <3>3, StillDue
        <3> QED
            BY <3>1, <3>4 DEF Verdict
    <2>4. CASE op.pos # Len(op.text)
        <3>1. v \in Ops /\ v.op = op.op /\ v.device = op.device /\ v.text = op.text
            <4>1. v \in Ops
                BY <1>2, <1>3, NextByte DEF SameKind
            <4>2. \A o \in WriteOps : LET w == [o EXCEPT !.pos = @ + 1] IN
                        w.op = o.op /\ w.device = o.device /\ w.text = o.text
                BY DEF WriteOps
            <4> QED
                BY <1>5, <4>1, <4>2
        <3> HIDE DEF v
        <3>2. Said(v, next) = first
            BY <1>2, <1>9, <3>1 DEF Said
        <3>3. Tells(<<v>>, next, first) /\ <<v>> \in Seq(Ops)
            BY <3>1, <3>2, TellsOne
        <3>4. Tells(<<v>> \o Rest, later, first)
            BY <1>3, <1>4, <3>3, TellsJoined
        <3>5. <<v>> \o Rest \in Seq(Ops)
            BY <1>3, <3>3, ConcatProperties
        <3>6. Told(frames', first)
            BY <1>4, <1>6, <2>4, <3>4, <3>5, ToldContinue
        <3>7. Due(first)'
            BY <1>2, <2>1, <2>2, StillDue
        <3> QED
            BY <3>6, <3>7 DEF Verdict
    <2> QED
        BY <2>3, <2>4
<1>10. CASE op.device = "SERIAL1"
    <2> DEFINE x == op.text[1]
    <2>1. ~next.needs
        BY <1>4, <1>10 DEF Said
    <2>2. Len(op.text) = 1 /\ op.pos = 1 /\ Said(op, next) = Preceded(op.text, next)
        BY <1>2, <1>4, <1>10, <2>1 DEF Said
    <2>3. op.text = <<x>> /\ x \in Words
        BY <1>8, <2>2
    <2>4. Told(frames', next)
        BY <1>3, <1>4, <1>6, <2>2, ToldContinue
    <2>5. log'["SERIAL1"] = Append(log["SERIAL1"], e) /\ log["SERIAL1"] \in Seq(Entry)
          /\ Bytes(log["SERIAL1"]) \in Seq(Words)
        BY <1>6, <1>7, <1>10 DEF Devices
    <2>6. Bytes(log'["SERIAL1"]) = Append(Bytes(log["SERIAL1"]), x)
        <3>1. e.text = op.text /\ e.pos = op.pos
            OBVIOUS
        <3> HIDE DEF e
        <3> DEFINE l == log["SERIAL1"]
        <3>2. l \in Seq(Entry) /\ WholeMessages(l) /\ Bytes(l) \in Seq(Words)
            BY <1>7 DEF Devices
        <3>3. \/ e.pos = 1 /\ Complete(l)
              \/ e.pos # 1 /\ l # <<>> /\ l[Len(l)] = [text |-> e.text, pos |-> e.pos - 1]
            BY <1>5, <1>10, <3>1
        <3>4. e.pos \in 1..Len(e.text)
            BY <1>5, <3>1
        <3> HIDE DEF l
        <3>5. Bytes(Append(l, e)) = Append(Bytes(l), e.text[e.pos])
            BY <1>8, <3>2, <3>3, <3>4, OneMoreByte
        <3> QED
            BY <2>2, <2>5, <3>1, <3>5 DEF l
    <2> DEFINE b == Bytes(log["SERIAL1"])
    <2>7. Append(b, x) \o next.words = b \o (op.text \o next.words)
        <3>1. next.words \in Seq(Words)
            BY DEF Outcomes
        <3> HIDE DEF b, x
        <3>2. b \in Seq(Words)
            BY <2>5 DEF b
        <3>3. x \in Words /\ op.text = <<x>>
            BY <2>3 DEF x
        <3>4. Append(b, x) \o next.words = b \o (<<x>> \o next.words)
            BY <3>1, <3>2, <3>3, AppendedBefore
        <3> QED
            BY <3>3, <3>4
    <2>8. Due(next)'
        <3> PICK all : all = b \o (op.text \o next.words)
            OBVIOUS
        <3>1. Preceded(op.text, next).words = op.text \o next.words /\ Preceded(op.text, next).end = next.end
            BY DEF Preceded
        <3>2. Judged(all, next.end)
            BY <1>4, <2>2, <3>1 DEF Due
        <3>3. Judged(all, next.end)'
            BY <1>2, <3>2 DEF Judged, Passed, GoingOn, AllPassed, OneFails, Left
        <3>4. (Bytes(log["SERIAL1"]) \o next.words)' = all
            BY <2>6, <2>7
        <3> QED
            BY <2>1, <3>3, <3>4 DEF Due
    <2> QED
        BY <2>4, <2>8 DEF Verdict
<1> QED
    BY <1>8, <1>9, <1>10 DEF Devices

\* Panicking, wherever it is, ends in the failure.
LEMMA PanickedVerdict ==
    ASSUME IInv, VerdictOK, Due(Failure), NEW later \in Outcomes, ~later.needs, Below(frames, later),
           frames' = Continue(panic), UNCHANGED <<log, entry, tests>>
    PROVE  Verdict'
<1>1. entry # "main"
    BY NeverLost DEF Failure
<1>2. Tells(panic, later, Failure) /\ panic \in Seq(Ops)
    BY <1>1, PanicTells
<1>3. Told(frames', Failure)
    <2> PICK u : u = panic
        OBVIOUS
    <2> QED
        BY <1>2, ToldContinue
<1>4. Failure \in Outcomes /\ ~Failure.needs
    BY FixedOutcomes DEF Failure
<1>5. Due(Failure)'
    <2> PICK first : first = Failure
        OBVIOUS
    <2>1. Due(first)'
        BY <1>4, StillDue
    <2> QED
        BY <2>1 DEF Due, Failure, Exit
<1> QED
    BY <1>3, <1>5 DEF Verdict

LEMMA PanicVerdict ==
    ASSUME IInv, VerdictOK, Panic
    PROVE  Verdict'
<1>1. At("panic") /\ Top.todo # <<>> /\ NextOp.op = "panic" /\ frames' = Continue(panic)
      /\ UNCHANGED <<log, entry, tests>>
    BY DEF Panic, At
<1>2. PICK later \in Outcomes, next \in Outcomes :
                /\ ~later.needs /\ Below(frames, later)
                /\ Due(Said(NextOp, next)) /\ Said(NextOp, next) # Lost
    BY <1>1, Reading
<1>3. Said(NextOp, next) = Failure
    BY <1>1, <1>2 DEF Said
<1>4. Due(Failure)
    BY <1>2, <1>3
<1> QED
    BY <1>1, <1>2, <1>4, PanickedVerdict

\* The assertion in a test sees the line that the test has written.
LEMMA AssertVerdict ==
    ASSUME IInv, MessagesOK, VerdictOK, AssertRow
    PROVE  Verdict'
<1>1. At("assert_row") /\ Top.todo # <<>> /\ NextOp.op = "assert_row" /\ UNCHANGED <<log, entry, tests>>
      /\ frames' = Continue(IF writer.chars[BUFFER_HEIGHT - 1][1].ascii_character = NextOp.char
                            THEN Rest ELSE panic)
    BY DEF AssertRow, At
<1>2. PICK later \in Outcomes, next \in Outcomes :
                /\ ~later.needs /\ Below(frames, later) /\ Tells(Rest, later, next)
                /\ Due(Said(NextOp, next)) /\ Said(NextOp, next) # Lost
    BY <1>1, Reading
<1> DEFINE x == IF NextOp.char = "o" THEN next ELSE Failure
<1>3. ~next.needs /\ Said(NextOp, next) = [x EXCEPT !.needs = TRUE]
    BY <1>1, <1>2 DEF Said
<1>4. x \in Outcomes /\ ~x.needs
    BY <1>3, FixedOutcomes DEF Failure
<1>5. Due([x EXCEPT !.needs = TRUE])
    BY <1>2, <1>3
<1> HIDE DEF x
<1>6. [x EXCEPT !.needs = TRUE].needs /\ [x EXCEPT !.needs = TRUE].words = x.words
      /\ [x EXCEPT !.needs = TRUE].end = x.end
    BY <1>4 DEF Outcomes
<1>7. LineWritten /\ Due(x)
    <2>1. Due([x EXCEPT !.needs = TRUE]) => LineWritten
        BY <1>6 DEF Due
    <2> QED
        BY <1>4, <1>5, <1>6, <2>1 DEF Due
<1>8. writer.chars[BUFFER_HEIGHT - 1][1].ascii_character = "o"
    BY <1>7, LineIsShown DEF LineWritten
<1>9. CASE NextOp.char = "o"
    <2>1. frames' = Continue(Rest)
        BY <1>1, <1>8, <1>9
    <2>2. Rest \in Seq(Ops)
        BY <1>1, Reading
    <2>3. Told(frames', next)
        BY <1>2, <2>1, <2>2, ToldContinue
    <2>4. Due(next)
        BY <1>7, <1>9 DEF x
    <2>5. Due(next)'
        BY <1>1, <1>3, <2>4, StillDue
    <2> QED
        BY <2>3, <2>5 DEF Verdict
<1>10. CASE NextOp.char # "o"
    <2>1. frames' = Continue(panic)
        BY <1>1, <1>8, <1>10
    <2>2. Due(Failure)
        BY <1>7, <1>10 DEF x
    <2> QED
        BY <1>1, <1>2, <2>1, <2>2, PanickedVerdict
<1> QED
    BY <1>9, <1>10

\* The loop over the tests takes its next turn.
LEMMA TestsVerdict ==
    ASSUME IInv, MessagesOK, VerdictOK, RunTests
    PROVE  Verdict'
<1>1. At("for_test") /\ Top.todo # <<>> /\ NextOp.op = "for_test" /\ UNCHANGED <<log, entry, tests>>
      /\ frames' = Continue(for_test(NextOp.suite) \o Rest)
    BY DEF RunTests, At
<1>2. PICK later \in Outcomes, next \in Outcomes :
                /\ ~later.needs /\ Below(frames, later) /\ Tells(Rest, later, next)
                /\ Due(Said(NextOp, next)) /\ Said(NextOp, next) # Lost
    BY <1>1, Reading
<1>3. next = Succeeded /\ Said(NextOp, next) = Ending(NextOp)
    BY <1>1, <1>2 DEF Said
<1>4. Due(Ending(NextOp)) /\ Ending(NextOp).words = <<>> /\ Ending(NextOp).end = NextOp
    BY <1>2, <1>3 DEF Ending
<1>5. entry # "main"
    BY <1>1, <1>4, NeverLost
<1> DEFINE said == Bytes(log["SERIAL1"])
<1>6. said \in Seq(Words) /\ tests \in Seq(TestNames)
    BY DEF MessagesOK, LogOK, Devices, VerdictOK
<1>7. said \o <<>> = said
    <2> HIDE DEF said
    <2> QED
        BY <1>6, ConcatEmptySeq
<1>8. Judged(said, NextOp)
    BY <1>4, <1>7 DEF Due
<1>9. PICK n \in 0..Len(tests) :
            /\ \A i \in 1..n : tests[i] \notin Failing
            /\ Passed(said, n)
            /\ GoingOn(said, NextOp, n) \/ AllPassed(said, NextOp, n) \/ OneFails(said, NextOp, n)
    BY <1>5, <1>8 DEF Judged
<1>10. Len(said) = 2 * n + 1 /\ Left(NextOp.suite, n)
    <2>1. \A code : NextOp # Exit(code)
        BY <1>1 DEF Exit
    <2>2. GoingOn(said, NextOp, n)
        BY <1>9, <2>1 DEF AllPassed, OneFails
    <2>3. \A suite : Again(suite).suite = suite
        BY DEF Again
    <2> QED
        BY <2>2, <2>3 DEF GoingOn
<1> PICK suite : suite = NextOp.suite
    OBVIOUS
<1>11. suite \in Seq(TestNames)
    BY <1>10 DEF Left
<1>12. /\ Tells(for_test(suite), Succeeded, Turn(suite)) /\ for_test(suite) \in Seq(Ops)
       /\ Turn(suite) \in Outcomes /\ ~Turn(suite).needs
    BY <1>11, TurnTells
<1> PICK first : first = Turn(suite)
    OBVIOUS
<1>13. Told(frames', first)
    <2> DEFINE t == for_test(suite)
    <2>1. frames' = Continue(t \o Rest) /\ Rest \in Seq(Ops) /\ t \in Seq(Ops) /\ Tells(t, next, first)
        BY <1>1, <1>3, <1>12, Reading
    <2> HIDE DEF t
    <2>2. Tells(t \o Rest, later, first) /\ t \o Rest \in Seq(Ops)
        BY <1>2, <2>1, TellsJoined, ConcatProperties
    <2> QED
        BY <1>2, <2>1, <2>2, ToldContinue
<1>14. Judged(said \o first.words, first.end)
    <2> HIDE DEF said
    <2>1. Left(suite, n)
        BY <1>10
    <2> QED
        BY <1>5, <1>6, <1>9, <1>10, <2>1, TurnIsJudged
<1>15. Due(first)'
    <2>1. Due(first)
        BY <1>12, <1>14 DEF Due
    <2> QED
        BY <1>1, <1>12, <2>1, StillDue
<1> QED
    BY <1>13, <1>15 DEF Verdict

\* The handlers of what may come at any time say nothing to the host.
LEMMA HandlersAreSilent ==
    ASSUME NEW gate \in {BREAKPOINT, InterruptIndex.Timer, InterruptIndex.Keyboard},
           NEW later \in Outcomes, ~later.needs
    PROVE  Tells(IDT[gate], later, later) /\ IDT[gate] \in Seq(Ops)
<1> PICK t : t = IDT[gate]
    OBVIOUS
<1>1. t \in Seq(SilentOps)
    BY SilentCode
<1>2. Tells(t, later, later) /\ t \in Seq(Ops)
    BY <1>1, SilentTells
<1> QED
    BY <1>2

\* A handler begins over code that tells something, and tells this before it.
LEMMA HandlerVerdict ==
    ASSUME IInv, NEW below \in Seq(Frame), Len(below) = 1, NEW t \in Seq(Ops),
           NEW later \in Outcomes, ~later.needs, Tells(below[1].todo, Halted, later),
           NEW first \in Outcomes, ~first.needs, Tells(t, later, first), Due(first),
           frames' = Append(below, [todo |-> t, flags |-> enabled, saved |-> FALSE]),
           UNCHANGED <<entry, tests, log>>
    PROVE  Verdict'
<1> DEFINE g == [todo |-> t, flags |-> enabled, saved |-> FALSE]
<1>1. g \in Frame /\ g.todo = t
    <2>1. enabled \in BOOLEAN
        BY DEF IInv, StateOK
    <2> QED
        BY <2>1 DEF Frame
<1>2. frames' = Append(below, g)
    OBVIOUS
<1> HIDE DEF g
<1>3. Told(frames', first)
    BY <1>1, <1>2, ToldEntered
<1>4. Due(first)'
    BY StillDue
<1> QED
    BY <1>3, <1>4 DEF Verdict

LEMMA ExceptVerdict ==
    ASSUME IInv, VerdictOK, Except
    PROVE  Verdict'
<1> DEFINE f == Continue(Rest)
<1>1. StateOK /\ CodeOK /\ (Starting \/ Running \/ Handling \/ Failed)
    BY DEF IInv
<1>2. PICK name \in {"int3", "overflow_stack"} :
            /\ At(name)
            /\ name = "int3" => Enter(BREAKPOINT, f, FALSE)
            /\ name = "overflow_stack" => Enter(14, f, TRUE)
    BY DEF Except
<1>3. Top.todo # <<>> /\ NextOp.op = name /\ UNCHANGED <<entry, tests, log>>
    BY <1>2 DEF At, Except
<1>4. Len(frames) \in {1, 2} /\ Rest \in Seq(Ops) /\ NextOp \in Ops
    BY <1>3, Reading
<1>5. Running /\ Len(frames) = 1
    <2>1. /\ frames[Len(frames)].todo # <<>>
          /\ frames[Len(frames)].todo[1].op = name
        BY <1>1, <1>2, <1>4, Taken
    <2>2. Running
        BY <1>1, <2>1, Places
    <2> QED
        BY <2>2 DEF Running
<1>6. Ready
    BY <1>5 DEF Running
<1>7. f \in Seq(Frame) /\ Len(f) = 1 /\ f[1].todo = Rest
    BY <1>1, <1>4, <1>5, Continued
<1>8. DOMAIN IDT = {3, 8, 32, 33} /\ DOUBLE_FAULT = 8 /\ BREAKPOINT = 3
      /\ IDT[DOUBLE_FAULT] = double_fault_handler
    BY DEF IDT, BREAKPOINT, DOUBLE_FAULT, InterruptIndex, PIC_1_OFFSET
<1>9. "idt" \in tables /\ "tss" \in tables
    BY <1>6 DEF Ready
<1> HIDE DEF f
<1>10. CASE name = "int3"
    <2>1. frames' = Append(f, [todo |-> IDT[BREAKPOINT], flags |-> enabled, saved |-> FALSE])
        <3>1. Enter(BREAKPOINT, f, FALSE)
            BY <1>2, <1>10
        <3> QED
            BY <1>8, <1>9, <3>1 DEF Enter, OnOwnStack
    <2>2. PICK later \in Outcomes, next \in Outcomes :
                /\ ~later.needs /\ Below(frames, later) /\ Tells(Rest, later, next)
                /\ Due(next) /\ ~next.needs
        BY <1>2, <1>10, SilentReading
    <2>3. Tells(f[1].todo, Halted, next)
        BY <1>5, <1>7, <2>2 DEF Below
    <2> PICK t : t = IDT[BREAKPOINT]
        OBVIOUS
    <2>4. Tells(t, next, next) /\ t \in Seq(Ops)
        BY <2>2, HandlersAreSilent
    <2>5. frames' = Append(f, [todo |-> t, flags |-> enabled, saved |-> FALSE])
        BY <2>1
    <2> QED
        BY <1>3, <1>7, <2>2, <2>3, <2>4, <2>5, HandlerVerdict
<1>11. CASE name = "overflow_stack"
    <2>1. frames' = Append(f, [todo |-> <<Op("panic")>>, flags |-> enabled, saved |-> FALSE])
        <3>1. Enter(14, f, TRUE)
            BY <1>2, <1>11
        <3>2. frames' = Append(f, [todo |-> IDT[DOUBLE_FAULT], flags |-> enabled, saved |-> FALSE])
            <4>1. 14 \notin DOMAIN IDT /\ DOUBLE_FAULT \in OnOwnStack
                BY <1>8 DEF OnOwnStack
            <4> QED
                BY <1>9, <3>1, <4>1 DEF Enter
        <3> QED
            BY <1>8, <3>2 DEF double_fault_handler
    <2>2. PICK later \in Outcomes, next \in Outcomes :
                /\ ~later.needs /\ Below(frames, later) /\ Tells(Rest, later, next)
                /\ Due(Said(NextOp, next)) /\ Said(NextOp, next) # Lost
        BY <1>3, Reading
    <2>3. ~next.needs /\ Said(NextOp, next) = Failure
        BY <1>3, <1>11, <2>2 DEF Said
    <2>4. Tells(f[1].todo, Halted, next)
        BY <1>5, <1>7, <2>2 DEF Below
    <2> PICK t, op, first : op = Op("panic") /\ t = <<op>> /\ first = Failure
        OBVIOUS
    <2>5. Tells(t, next, first) /\ t \in Seq(Ops)
        <3>1. op \in Ops
            BY FreshOperations DEF FreshOps
        <3>2. Said(op, next) = Failure
            <4>1. op.op = "panic"
                BY DEF Op
            <4> QED
                BY <2>3, <4>1 DEF Said
        <3> QED
            BY <3>1, <3>2, TellsOne
    <2>6. first \in Outcomes /\ ~first.needs /\ Due(first)
        BY <2>2, <2>3, FixedOutcomes DEF Failure
    <2>7. frames' = Append(f, [todo |-> t, flags |-> enabled, saved |-> FALSE])
        BY <2>1
    <2> QED
        BY <1>3, <1>7, <2>2, <2>3, <2>4, <2>5, <2>6, <2>7, HandlerVerdict
<1> QED
    BY <1>10, <1>11

\* An interrupt comes between two operations, and never before the assertion.
LEMMA InterruptVerdict ==
    ASSUME IInv, VerdictOK, NEW line \in {0, 1}, Interrupt(line)
    PROVE  Verdict'
<1> DEFINE t == frames[1].todo
<1>1. StateOK /\ CodeOK /\ (Starting \/ Running \/ Handling \/ Failed)
    BY DEF IInv
<1>2. enabled /\ UNCHANGED <<entry, tests, log>> /\ Enter(pic.offset + line, frames, FALSE)
    BY DEF Interrupt
<1>3. Running /\ Len(frames) = 1 /\ Ready /\ ~Masked(t)
    BY <1>1, <1>2 DEF Starting, Running, Handling, Failed
<1>4. PICK first : Told(frames, first) /\ Due(first)
    BY DEF VerdictOK
<1>5. PICK later \in Outcomes : later = Halted /\ Tells(t, later, first)
    BY <1>3, <1>4 DEF Told, Below
<1>6. t \in Seq(Ops) /\ frames \in Seq(Frame)
    BY <1>1, <1>3, TopFrame DEF StateOK
<1>7. /\ t = <<>> => first = later
      /\ t # <<>> => \E next \in Outcomes : first = Said(t[1], next) /\ Tells(Tail(t), later, next)
      /\ first \in Outcomes
    BY <1>5, <1>6, TellsRest
<1>8. ~first.needs
    <2>1. CASE t = <<>>
        BY <1>5, <1>7, <2>1 DEF Halted, Ending
    <2>2. CASE t # <<>>
        <3>1. t[1].op # "assert_row"
            <4>1. t[1].op = "assert_row" => Masked(t)
                BY <2>2, Situations DEF Masked, Now
            <4> QED
                BY <1>3, <4>1
        <3>2. PICK next \in Outcomes : first = Said(t[1], next)
            BY <1>7, <2>2
        <3>3. \A o \in Outcomes : ~[o EXCEPT !.needs = FALSE].needs
            BY DEF Outcomes
        <3>4. ~Lost.needs /\ ~Failure.needs /\ \A op : ~Ending(op).needs
            BY DEF Lost, Failure, Ending
        <3>5. \A words : Preceded(words, next).needs = next.needs
            BY DEF Preceded
        <3> HIDE DEF t
        <3>6. CASE next.needs
            BY <3>2, <3>3, <3>4, <3>6 DEF Said
        <3>7. CASE ~next.needs
            BY <3>1, <3>2, <3>4, <3>5, <3>7 DEF Said
        <3> QED
            BY <3>6, <3>7
    <2> QED
        BY <2>1, <2>2
<1>9. PICK gate \in {InterruptIndex.Timer, InterruptIndex.Keyboard} :
            frames' = Append(frames, [todo |-> IDT[gate], flags |-> enabled, saved |-> FALSE])
    <2>1. /\ DOMAIN IDT = {3, 8, 32, 33} /\ DOUBLE_FAULT = 8
          /\ InterruptIndex.Timer = 32 /\ InterruptIndex.Keyboard = 33
        BY DEF IDT, BREAKPOINT, DOUBLE_FAULT, InterruptIndex, PIC_1_OFFSET
    <2>2. "idt" \in tables /\ pic.offset + line \in {32, 33}
        BY <1>3 DEF Ready, PIC_1_OFFSET
    <2> DEFINE vector == pic.offset + line
    <2> HIDE DEF vector
    <2>3. vector \in {32, 33} /\ Enter(vector, frames, FALSE)
        BY <1>2, <2>2 DEF vector
    <2>4. vector \in DOMAIN IDT /\ vector \notin OnOwnStack
        BY <2>1, <2>3 DEF OnOwnStack
    <2>5. frames' = Append(frames, [todo |-> IDT[vector], flags |-> enabled, saved |-> FALSE])
        BY <2>2, <2>3, <2>4 DEF Enter
    <2> QED
        BY <2>1, <2>3, <2>5
<1> PICK u : u = IDT[gate]
    OBVIOUS
<1>10. Tells(u, first, first) /\ u \in Seq(Ops)
    BY <1>7, <1>8, HandlersAreSilent
<1>11. frames' = Append(frames, [todo |-> u, flags |-> enabled, saved |-> FALSE])
    BY <1>9
<1>12. Tells(frames[1].todo, Halted, first)
    BY <1>5
<1> HIDE DEF t
<1> QED
    BY <1>2, <1>3, <1>4, <1>6, <1>7, <1>8, <1>10, <1>11, <1>12, HandlerVerdict

LEMMA ReturnVerdict ==
    ASSUME IInv, VerdictOK, ReturnFromInterrupt
    PROVE  Verdict'
<1>1. StateOK /\ CodeOK /\ (Starting \/ Running \/ Handling \/ Failed)
    BY DEF IInv
<1>2. Top.todo = <<>> /\ frames' = Front(frames) /\ Len(frames) > 1 /\ UNCHANGED <<entry, tests, log>>
    BY DEF ReturnFromInterrupt
<1>3. Len(frames) = 2
    <2>1. Len(frames) \in {1, 2}
        BY <1>1, Places
    <2>2. \A m \in {1, 2} : m > 1 => m = 2
        OBVIOUS
    <2> QED
        BY <1>2, <2>1, <2>2
<1>4. Top = frames[2] /\ frames[2].todo \in Seq(Ops) /\ frames \in Seq(Frame)
    BY <1>1, <1>3, TopFrame DEF StateOK
<1>5. PICK first : Told(frames, first) /\ Due(first)
    BY DEF VerdictOK
<1>6. PICK later \in Outcomes : /\ ~later.needs /\ Tells(frames[1].todo, Halted, later)
                                /\ Tells(frames[2].todo, later, first)
    <2>1. 2 # 1
        OBVIOUS
    <2> QED
        BY <1>3, <1>5, <2>1 DEF Told, Below
<1>7. first = later
    BY <1>2, <1>4, <1>6, TellsRest
<1> DEFINE f == Front(frames)
<1>8. Len(f) = 1 /\ f[1] = frames[1]
    BY <1>3, <1>4, Popped
<1> HIDE DEF f
<1>9. Told(f, later)
    <2> PICK last \in Outcomes : last = Halted
        BY FixedOutcomes
    <2>1. ~last.needs /\ Below(f, last) /\ Tells(f[Len(f)].todo, last, later)
        BY <1>6, <1>8 DEF Below, Halted, Ending
    <2> QED
        BY <2>1 DEF Told
<1>10. Due(later)'
    BY <1>2, <1>5, <1>6, <1>7, StillDue
<1> QED
    BY <1>2, <1>9, <1>10 DEF Verdict, f

LEMMA IdleVerdict ==
    ASSUME VerdictOK, UNCHANGED <<frames, log, entry, tests>>
    PROVE  Verdict'
<1>1. PICK first : Told(frames, first) /\ Due(first)
    BY DEF VerdictOK
<1>2. first \in Outcomes /\ (first.needs => LineWritten)
    BY <1>1 DEF Due
<1>3. LineWritten => LineWritten'
    BY DEF LineWritten
<1>4. Due(first)'
    BY <1>1, <1>2, <1>3, StillDue
<1>5. Told(frames', first)
    BY <1>1
<1> QED
    BY <1>4, <1>5 DEF Verdict

LEMMA VerdictSteps ==
    IInv /\ MessagesOK /\ VerdictOK /\ [Next]_vars => VerdictOK'
<1> SUFFICES ASSUME IInv, MessagesOK, VerdictOK, [Next]_vars PROVE VerdictOK'
    OBVIOUS
<1>1. tests' = tests /\ entry' = entry
    BY DEF Next, Execute, vars, WithoutInterrupts, RestoreInterrupts, Acquire, Release, WriteOne,
           LoadTables, InitializePics, EnableInterrupts, EndOfInterrupt, ReadScancode, Except,
           ReturnFromInterrupt, Panic, AssertRow, RunTests, ExitQemu, Interrupt, Tick, PressKey
<1>2. Verdict'
    <2>1. CASE \/ WithoutInterrupts \/ RestoreInterrupts \/ Acquire \/ Release \/ LoadTables
               \/ InitializePics \/ EnableInterrupts \/ EndOfInterrupt \/ ReadScancode
        <3>1. log' = log
            BY <2>1 DEF WithoutInterrupts, RestoreInterrupts, Acquire, Release, LoadTables,
                   InitializePics, EnableInterrupts, EndOfInterrupt, ReadScancode
        <3> QED
            BY <1>1, <2>1, <3>1, SilentVerdict
    <2>2. CASE WriteOne
        BY <2>2, WriteVerdict
    <2>3. CASE Except
        BY <2>3, ExceptVerdict
    <2>4. CASE ReturnFromInterrupt
        BY <2>4, ReturnVerdict
    <2>5. CASE Panic
        BY <2>5, PanicVerdict
    <2>6. CASE AssertRow
        BY <2>6, AssertVerdict
    <2>7. CASE RunTests
        BY <2>7, TestsVerdict
    <2>8. ASSUME NEW line \in {0, 1}, Interrupt(line) PROVE Verdict'
        BY <2>8, InterruptVerdict
    <2>9. CASE ExitQemu \/ Tick \/ PressKey \/ UNCHANGED vars
        <3>1. frames' = frames /\ log' = log
            BY <2>9 DEF ExitQemu, Tick, PressKey, vars
        <3> QED
            BY <1>1, <3>1, IdleVerdict
    <2> QED
        BY <2>1, <2>2, <2>3, <2>4, <2>5, <2>6, <2>7, <2>8, <2>9 DEF Next, Execute
<1>3. exit' # "none" => Top'.todo # <<>> /\ NextOp'.op = "exit" /\ NextOp'.code = exit'
    <2>1. CASE UNCHANGED vars
        <3>1. Top' = Top /\ NextOp' = NextOp /\ exit' = exit
            BY <2>1 DEF vars, Top, NextOp
        <3> QED
            BY <3>1 DEF VerdictOK
    <2>2. CASE ExitQemu
        <3>1. Top' = Top /\ NextOp' = NextOp /\ exit' = NextOp.code /\ Top.todo # <<>> /\ NextOp.op = "exit"
            BY <2>2 DEF ExitQemu, At, Top, NextOp
        <3> QED
            BY <3>1
    <2>3. CASE Except \/ \E line \in {0, 1} : Interrupt(line)
        <3>1. exit = "none" /\ (exit' = exit \/ exit' = "reset")
            BY <2>3 DEF Except, Interrupt, Enter, At
        <3>2. exit' # "reset"
            <4>1. exit' \in {"none", "Success", "Failed"}
                <5>1. IInv'
                    BY StepHolds
                <5> QED
                    BY <5>1 DEF IInv, StateOK
            <4> QED
                BY <4>1
        <3> QED
            BY <3>1, <3>2
    <2>4. CASE \/ WithoutInterrupts \/ RestoreInterrupts \/ Acquire \/ Release \/ WriteOne \/ LoadTables
               \/ InitializePics \/ EnableInterrupts \/ EndOfInterrupt \/ ReadScancode
               \/ ReturnFromInterrupt \/ Panic \/ AssertRow \/ RunTests \/ Tick \/ PressKey
        <3>1. exit = "none" /\ exit' = exit
            BY <2>4 DEF At, WithoutInterrupts, RestoreInterrupts, Acquire, Release, WriteOne, LoadTables,
               InitializePics, EnableInterrupts, EndOfInterrupt, ReadScancode,
               ReturnFromInterrupt, Panic, AssertRow, RunTests, Tick, PressKey
        <3> QED
            BY <3>1
    <2> QED
        BY <2>1, <2>2, <2>3, <2>4 DEF Next, Execute
<1> QED
    BY <1>1, <1>2, <1>3 DEF VerdictOK, Verdict

LEMMA VerdictBegins == Init => VerdictOK
<1> SUFFICES ASSUME Init PROVE VerdictOK
    OBVIOUS
<1>1. entry \in {"main", "main_test", "lib_test"} /\ tests \in Seq(TestNames)
    <2>1. <<>> \in Seq(TestNames)
        OBVIOUS
    <2> QED
        BY <2>1, KernelAssumption DEF Init
<1>2. PICK first : first = IF entry = "main" THEN Halted ELSE Prefixed("Running", Turn(tests))
    OBVIOUS
<1>3. /\ Tells(start(entry, tests), Halted, first)
      /\ first \in Outcomes /\ ~first.needs
    <2>1. /\ Tells(start(entry, tests), Halted, first)
          /\ Prefixed("Running", Turn(tests)) \in Outcomes /\ ~Prefixed("Running", Turn(tests)).needs
        BY <1>1, <1>2, StartTells
    <2>2. Halted \in Outcomes /\ ~Halted.needs
        BY FixedOutcomes DEF Halted, Ending
    <2> QED
        BY <1>2, <2>1, <2>2
<1>4. Told(frames, first)
    <2> DEFINE t == start(entry, tests)
    <2>1. frames = <<[todo |-> t, flags |-> FALSE, saved |-> FALSE]>>
        BY DEF Init
    <2>2. Tells(t, Halted, first)
        BY <1>3
    <2> HIDE DEF t
    <2>3. Len(frames) = 1 /\ frames[1].todo = t
        BY <2>1
    <2> PICK later \in Outcomes : later = Halted
        BY FixedOutcomes
    <2>4. ~later.needs
        BY DEF Halted, Ending
    <2>5. Below(frames, later) /\ Tells(frames[Len(frames)].todo, later, first)
        BY <2>2, <2>3 DEF Below
    <2> QED
        BY <2>4, <2>5 DEF Told
<1>5. Bytes(log["SERIAL1"]) = <<>>
    BY DEF Init, Bytes
<1>6. <<>> \o first.words = first.words /\ first.words \in Seq(Words)
    <2>1. first.words \in Seq(Words)
        BY <1>3 DEF Outcomes
    <2> QED
        BY <2>1, ConcatEmptySeq
<1>7. Judged(first.words, first.end)
    <2>1. CASE entry = "main"
        <3>1. first.words = <<>> /\ first.end = Op("hlt")
            BY <1>2, <2>1 DEF Halted, Ending
        <3> QED
            BY <2>1, <3>1 DEF Judged
    <2>2. CASE entry # "main"
        <3> DEFINE said == <<"Running">>
        <3>1. first.words = said \o Turn(tests).words /\ first.end = Turn(tests).end
            BY <1>2, <2>2 DEF Prefixed, Preceded
        <3>2. "Running" \in Words
            BY DEF Words
        <3>3. said \in Seq(Words) /\ Len(said) = 1 /\ said[1] = "Running"
            BY <3>2
        <3> HIDE DEF said
        <3>4. Len(tests) \in Nat
            BY <1>1
        <3> PICK n : n = 0
            OBVIOUS
        <3>5. n \in 0..Len(tests) /\ 1..n = {} /\ Len(said) = 2 * n + 1
            BY <3>3, <3>4
        <3>6. Passed(said, n)
            BY <3>3, <3>5 DEF Passed
        <3>7. Left(tests, n)
            <4>1. \A k \in 1..Len(tests) : n + k = k
                BY <3>4
            <4> QED
                BY <1>1, <3>4, <4>1 DEF Left
        <3>8. Judged(said \o Turn(tests).words, Turn(tests).end)
            BY <1>1, <2>2, <3>3, <3>5, <3>6, <3>7, TurnIsJudged
        <3> QED
            BY <3>1, <3>8
    <2> QED
        BY <2>1, <2>2
<1>8. Due(first)
    BY <1>3, <1>5, <1>6, <1>7 DEF Due
<1>9. exit = "none"
    BY DEF Init
<1> QED
    BY <1>1, <1>4, <1>8, <1>9 DEF VerdictOK

LEMMA VerdictHolds == IInv /\ MessagesOK /\ VerdictOK => VerdictIsTrue
<1> SUFFICES ASSUME IInv, MessagesOK, VerdictOK, exit \in {"Success", "Failed"} PROVE VerdictIsTrue
    BY DEF VerdictIsTrue
<1> DEFINE said == Bytes(log["SERIAL1"])
           failing == {i \in DOMAIN tests : tests[i] \in Failing}
<1>1. Top.todo # <<>> /\ NextOp.op = "exit" /\ NextOp.code = exit
    BY DEF VerdictOK
<1>2. PICK next \in Outcomes : Due(Said(NextOp, next)) /\ Said(NextOp, next) # Lost
    BY <1>1, Reading
<1>3. Said(NextOp, next) = Ending(NextOp)
    BY <1>1, <1>2 DEF Said
<1>4. said \in Seq(Words) /\ tests \in Seq(TestNames)
    BY DEF MessagesOK, LogOK, Devices, VerdictOK
<1>5. Judged(said, NextOp)
    <2>1. Ending(NextOp).words = <<>> /\ Ending(NextOp).end = NextOp
        BY DEF Ending
    <2>2. said \o <<>> = said
        <3> HIDE DEF said
        <3> QED
            BY <1>4, ConcatEmptySeq
    <2> QED
        BY <1>2, <1>3, <2>1, <2>2 DEF Due
<1>6. entry # "main"
    BY <1>1, <1>5 DEF Judged, Op
<1>7. PICK n \in 0..Len(tests) :
            /\ \A i \in 1..n : tests[i] \notin Failing
            /\ Passed(said, n)
            /\ GoingOn(said, NextOp, n) \/ AllPassed(said, NextOp, n) \/ OneFails(said, NextOp, n)
    BY <1>5, <1>6 DEF Judged
<1>8. Len(tests) \in Nat /\ DOMAIN tests = 1..Len(tests) /\ n \in Nat
    BY <1>4
<1>9. /\ ~GoingOn(said, NextOp, n)
      /\ exit = "Success" => AllPassed(said, NextOp, n)
      /\ exit = "Failed" => OneFails(said, NextOp, n)
    <2>1. /\ \A suite : Again(suite).op = "for_test"
          /\ Exit("Success").code = "Success" /\ Exit("Failed").code = "Failed"
        BY DEF Again, Exit
    <2>2. ~GoingOn(said, NextOp, n)
        BY <1>1, <2>1 DEF GoingOn
    <2>3. AllPassed(said, NextOp, n) => exit = "Success"
        BY <1>1, <2>1 DEF AllPassed
    <2>4. OneFails(said, NextOp, n) => exit = "Failed"
        BY <1>1, <2>1 DEF OneFails
    <2> QED
        BY <1>7, <2>2, <2>3, <2>4
<1>10. ASSUME exit = "Success"
       PROVE  failing = {} /\ Len(said) = 2 * Len(tests) + 1 /\ Passed(said, Len(tests))
    <2>1. Len(said) = 2 * n + 1 /\ n = Len(tests)
        BY <1>9, <1>10 DEF AllPassed
    <2>2. failing = {}
        BY <1>7, <1>8, <2>1
    <2> QED
        BY <1>7, <2>1, <2>2
<1>11. ASSUME exit = "Failed"
       PROVE  \E i \in failing :
                /\ \A j \in failing : i <= j
                /\ Len(said) = 2 * i + 2 /\ Passed(said, i - 1)
                /\ said[2 * i] = tests[i] /\ said[2 * i + 1] = "[failed]" /\ said[2 * i + 2] = "Error"
    <2>1. /\ n < Len(tests) /\ tests[n + 1] \in Failing /\ Len(said) = 2 * n + 4
          /\ said[2 * n + 2] = tests[n + 1] /\ said[2 * n + 3] = "[failed]" /\ said[2 * n + 4] = "Error"
        BY <1>9, <1>11 DEF OneFails
    <2> PICK i : i = n + 1
        OBVIOUS
    <2> HIDE DEF said
    <2>2. /\ i \in 1..Len(tests) /\ i - 1 = n /\ 2 * n + 2 = 2 * i /\ 2 * n + 3 = 2 * i + 1
          /\ 2 * n + 4 = 2 * i + 2
        BY <1>8, <2>1
    <2>3. i \in failing
        BY <1>8, <2>1, <2>2
    <2>4. \A j \in failing : i <= j
        <3> SUFFICES ASSUME NEW j \in failing PROVE i <= j
            OBVIOUS
        <3>1. j \in 1..Len(tests) /\ j \notin 1..n
            BY <1>7, <1>8
        <3> QED
            BY <1>8, <3>1
    <2>5. Len(said) = 2 * i + 2 /\ said[2 * i] = tests[i] /\ said[2 * i + 1] = "[failed]"
          /\ said[2 * i + 2] = "Error" /\ Passed(said, i - 1)
        BY <1>7, <2>1, <2>2
    <2> QED
        BY <2>3, <2>4, <2>5
<1> QED
    BY <1>10, <1>11 DEF VerdictIsTrue

\* A test run never lies to the host: it reports success only after every test of
\* the suite has been run and none fails, and failure at the first that does, with
\* nothing run after it, for any suite, screen and interrupts (lib.rs:44-57,
\* vga_buffer.rs:170-184).
THEOREM VerdictIsHonest == Spec => []VerdictIsTrue
<1> DEFINE Inv == IInv /\ MessagesOK /\ VerdictOK
<1>1. Init => Inv
    BY InitHolds, MessagesBegin, VerdictBegins
<1>2. Inv /\ [Next]_vars => Inv'
    BY StepHolds, MessageSteps, VerdictSteps
<1>3. Inv => VerdictIsTrue
    BY VerdictHolds
<1> QED
    BY <1>1, <1>2, <1>3, PTL DEF Spec

=============================================================================
