---------------------------- MODULE DeviceProofs ----------------------------
(***************************************************************************)
(* Theorems about the microphone and the screen.  The microphone driver's  *)
(* Recording, for every size of frame, buffer and scratch, every grain of  *)
(* the hardware and any request; the samples of a program that reads it,   *)
(* for every width of sample and whatever is to be heard; and what is on   *)
(* the panel, whoever draws, for any text, row and uptime.                 *)
(*                                                                         *)
(* They need arithmetic that no library has: powers of two (their          *)
(* quotients, and casts to a sample), and functions that are recursive on  *)
(* a sequence's positions, which are shown to be what is iterated.         *)
(***************************************************************************)
EXTENDS MicSamples, MCScreen, FiniteSetTheorems, SequenceTheorems, WellFoundedInduction, TLAPS

-----------------------------------------------------------------------------
\* Whole frames: multiples of FRAME_BYTES.

LEMMA FrameIsPositive == FRAME_BYTES \in Nat \ {0}
  BY RecordingAssumption

LEMMA Division ==
  ASSUME NEW F \in Nat \ {0}, NEW x \in Int
  PROVE  /\ x \div F \in Int
         /\ x % F \in 0 .. F - 1
         /\ x = F * (x \div F) + (x % F)
  BY SMT

LEMMA MultipleIsWhole ==
  ASSUME NEW F \in Nat \ {0}, NEW k \in Int
  PROVE  (F * k) % F = 0 /\ (F * k) \div F = k
  BY SMT

LEMMA SumOfMultiples ==
  ASSUME NEW F \in Int, NEW a \in Int, NEW b \in Int
  PROVE  F * a + F * b = F * (a + b) /\ F * a - F * b = F * (a - b)
  BY SMT

LEMMA SumIsWhole ==
  ASSUME NEW F \in Nat \ {0}, NEW x \in Int, NEW y \in Int, x % F = 0, y % F = 0
  PROVE  (x + y) % F = 0 /\ (x - y) % F = 0
<1> DEFINE a == x \div F
           b == y \div F
<1>1. a \in Int /\ b \in Int /\ x = F * a /\ y = F * b
  BY Division
<1> HIDE DEF a, b
<1>2. x + y = F * (a + b) /\ x - y = F * (a - b)
  BY <1>1, SumOfMultiples
<1> QED
  BY <1>1, <1>2, MultipleIsWhole

LEMMA ProductGrows ==
  ASSUME NEW M \in Nat, NEW a \in Int, NEW b \in Int, a <= b
  PROVE  M * a <= M * b
  BY SMT

\* The next multiple is not behind.
LEMMA NextMultiple ==
  ASSUME NEW F \in Nat \ {0}, NEW x \in Nat
  PROVE  /\ x + ((-x) % F) \in Nat
         /\ (x + ((-x) % F)) % F = 0
<1> DEFINE r == (-x) % F
           q == (-x) \div F
<1>1. r \in 0 .. F - 1 /\ q \in Int /\ -x = F * q + r
  BY Division, -x \in Int
<1> HIDE DEF r, q
<1>2. F * q \in Int
  BY <1>1
<1>3. F * (-q) = -(F * q)
  BY <1>1
<1>4. x + r = F * (-q) /\ -q \in Int
  BY <1>1, <1>2, <1>3
<1>5. (F * (-q)) % F = 0
  BY <1>4, MultipleIsWhole
<1>6. (x + r) % F = 0
  BY <1>4, <1>5
<1> QED
  BY <1>1, <1>6 DEF r

LEMMA RoundedDown ==
  ASSUME NEW x \in Nat
  PROVE  /\ RoundDown(x) \in 0 .. x
         /\ RoundDown(x) % FRAME_BYTES = 0
         /\ x % FRAME_BYTES = 0 => RoundDown(x) = x
<1> DEFINE F == FRAME_BYTES
           q == x \div F
<1>1. F \in Nat \ {0}
  BY FrameIsPositive
<1>2. q \in Int /\ x % F \in 0 .. F - 1 /\ x = F * q + (x % F)
  BY <1>1, Division
<1>3. RoundDown(x) = F * q
  BY <1>1, <1>2 DEF RoundDown
<1> HIDE DEF F, q
<1>4. F * q \in Int
  BY <1>1, <1>2
<1>5. q >= 0
  <2>1. SUFFICES ASSUME q <= -1 PROVE FALSE
    BY <1>2
  <2>2. F * q <= F * (-1)
    BY <1>1, <1>2, <2>1, ProductGrows
  <2> QED
    BY <1>1, <1>2, <1>4, <2>2
<1>6. F * q >= F * 0
  BY <1>1, <1>2, <1>5, ProductGrows
<1>7. F * q \in 0 .. x
  BY <1>1, <1>2, <1>4, <1>6
<1>8. (F * q) % F = 0
  BY <1>1, <1>2, MultipleIsWhole
<1> QED
  BY <1>2, <1>3, <1>7, <1>8 DEF F
-----------------------------------------------------------------------------
\* The inductive invariant.  What is available begins and ends with whole frames as
\* long as the transfer has not failed; a running discard is as far from its goal as
\* what is left says; nothing is left of one that failed; and a call that has asked
\* takes whole frames, no more than there is and than it has room for.

Calls == [op : {"start", "read", "discard"}, ok : BOOLEAN, from : Nat, bytes : Nat]

Aligned ==
  /\ PhaseNeverSlips
  /\ ~late => (head - available) % FRAME_BYTES = 0

OnTheWay ==
  /\ goal \in Int
  /\ ~late /\ left > 0 => head - available + left * FRAME_BYTES = goal
  /\ ~call.ok => left = 0

Pending ==
  /\ take % FRAME_BYTES = 0
  /\ take <= available /\ take <= wanted
  /\ take # 0 => call.ok /\ (left > 0 => wanted = left * FRAME_BYTES)

\* Nothing speaks against a pop that will take all there is, and only against others.
Reasoned ==
  /\ take # 0 => (reasons = {} <=> ~late /\ available = take)
  /\ RefusedOnlyWithReason

IInv ==
  /\ TypeOK
  /\ available <= head
  /\ Aligned
  /\ OnTheWay
  /\ Pending
  /\ Reasoned

LEMMA Sized ==
  ASSUME IInv
  PROVE  /\ head \in Nat /\ available \in 0 .. BufferBytes /\ available <= head
         /\ BufferBytes \in Nat /\ MaxSamples \in Nat /\ left \in 0 .. MaxSamples /\ goal \in Int
         /\ late \in BOOLEAN /\ call \in Calls
         /\ take \in Nat /\ wanted \in Nat
         /\ reasons \subseteq {"late", "more", "half", "captured"}
  BY RecordingAssumption DEF IInv, TypeOK, OnTheWay, Calls

LEMMA InitIInv == Init => IInv
<1> SUFFICES ASSUME Init PROVE IInv
  OBVIOUS
<1>1. 0 % FRAME_BYTES = 0
  BY FrameIsPositive, SMT
<1>2. /\ head = 0 /\ available = 0 /\ late = FALSE /\ take = 0 /\ wanted = 0 /\ reasons = {}
      /\ left = 0 /\ goal = 0
      /\ call = [op |-> "start", ok |-> TRUE, from |-> 0, bytes |-> 0]
  BY DEF Init, Popped
<1>3. TypeOK
  <2>1. call \in [op : {"start", "read", "discard"}, ok : BOOLEAN, from : Nat, bytes : Nat]
    BY <1>2
  <2>2. head \in Nat /\ available \in 0 .. BufferBytes /\ left \in 0 .. MaxSamples
    BY <1>2, RecordingAssumption
  <2> QED
    BY <1>2, <2>1, <2>2 DEF TypeOK
<1>4. Aligned
  BY <1>1, <1>2 DEF Aligned, PhaseNeverSlips
<1>5. OnTheWay /\ available <= head
  BY <1>2 DEF OnTheWay
<1>6. Pending /\ Reasoned
  BY <1>1, <1>2 DEF Pending, Reasoned, RefusedOnlyWithReason
<1> QED
  BY <1>3, <1>4, <1>5, <1>6 DEF IInv

\* What a call is told to take: whole frames, no more than there is and than it has
\* room for; and all there is exactly when nothing speaks against it.
LEMMA Taken ==
  ASSUME IInv, NEW room \in Nat
  PROVE  /\ take_size(room) \in 0 .. available
         /\ take_size(room) <= room
         /\ take_size(room) % FRAME_BYTES = 0
         /\ take_size(room) # 0 => (Obstacles(room) = {} <=> available = take_size(room))
<1> DEFINE space == Smaller(ScratchBytes, room)
           most == Smaller(available, space)
           F == FRAME_BYTES
<1>1. /\ space \in Nat /\ most \in Nat /\ most <= available /\ most <= room
      /\ available <= space <=> most = available
  BY RecordingAssumption DEF IInv, TypeOK, Smaller
<1>2. RoundDown(most) \in 0 .. most /\ RoundDown(most) % F = 0
  BY <1>1, RoundedDown
<1>3. 0 % F = 0
  BY FrameIsPositive, SMT
<1>4. available \in Nat
  BY Sized
<1>5. take_size(room) = IF available < F THEN 0 ELSE RoundDown(most)
  BY DEF take_size
<1>6. Obstacles(room) = {} <=> ~(available > space) /\ available % F = 0
  BY DEF Obstacles
<1>7. available % F = 0 => RoundDown(available) = available
  BY <1>4, RoundedDown
<1> HIDE DEF most, space, F
<1>8. CASE available < F
  <2>1. take_size(room) = 0
    BY <1>5, <1>8
  <2> QED
    BY <1>3, <1>4, <2>1 DEF F
<1>9. CASE ~(available < F)
  <2>1. take_size(room) = RoundDown(most)
    BY <1>5, <1>9
  <2>2. RoundDown(most) \in 0 .. available /\ RoundDown(most) <= room
    BY <1>1, <1>2, <1>4
  <2>3. ASSUME ~(available > space), available % F = 0 PROVE available = RoundDown(most)
    <3>1. most = available
      BY <1>1, <1>4, <2>3
    <3> QED
      BY <1>7, <2>3, <3>1
  <2>4. ASSUME available = RoundDown(most) PROVE ~(available > space) /\ available % F = 0
    <3>1. most = available
      BY <1>1, <1>2, <1>4, <2>4
    <3> QED
      BY <1>1, <1>2, <1>4, <2>4, <3>1
  <2> QED
    BY <1>2, <1>6, <2>1, <2>2, <2>3, <2>4 DEF F
<1> QED
  BY <1>8, <1>9 DEF F

\* Asking moves nothing: it finds the size of the pop, or ends the call.
LEMMA AskOutcome ==
  ASSUME IInv, NEW room \in Nat, NEW op \in {"read", "discard"}, Ask(op, room)
  PROVE  /\ UNCHANGED <<head, available, late>>
         /\ available' <= head' /\ Aligned' /\ call' \in Calls
         /\ take' \in Nat /\ take' % FRAME_BYTES = 0 /\ take' <= available' /\ take' <= wanted'
         /\ take' # 0 => call' = call /\ call.ok /\ wanted' = room
         /\ wanted' \in Nat /\ reasons' \subseteq {"late", "more", "half", "captured"}
         /\ Reasoned'
<1>0. /\ head \in Nat /\ available \in 0 .. BufferBytes /\ available <= head /\ BufferBytes \in Nat
      /\ late \in BOOLEAN /\ call \in Calls /\ wanted \in Nat
  BY Sized
<1>1. 0 % FRAME_BYTES = 0
  BY FrameIsPositive, SMT
<1>2. /\ take_size(room) \in 0 .. available /\ take_size(room) <= room
      /\ take_size(room) % FRAME_BYTES = 0
      /\ take_size(room) # 0 => (Obstacles(room) = {} <=> available = take_size(room))
  BY Taken
<1>3. /\ UNCHANGED <<head, available, late>> /\ call.ok
      /\ take' = IF late THEN 0 ELSE take_size(room)
  BY DEF Ask
<1>4. CASE take' > 0
  <2>1. ~late /\ take' = take_size(room)
    BY <1>0, <1>3, <1>4
  <2>2. wanted' = room /\ reasons' = Obstacles(room) /\ call' = call
    BY <1>4 DEF Ask
  <2>3. Obstacles(room) \subseteq {"late", "more", "half", "captured"}
    BY DEF Obstacles
  <2>4. take' # 0 /\ take' \in Nat
    BY <1>0, <1>2, <1>4, <2>1
  <2>5. Reasoned'
    BY <1>2, <1>3, <2>1, <2>2, <2>4 DEF Reasoned, RefusedOnlyWithReason
  <2>6. Aligned'
    BY <1>3, <2>2 DEF IInv, Aligned, PhaseNeverSlips
  <2> QED
    BY <1>0, <1>2, <1>3, <2>1, <2>2, <2>3, <2>4, <2>5, <2>6
<1>5. CASE ~(take' > 0)
  <2>1. take' = 0
    BY <1>0, <1>2, <1>3, <1>5
  <2>2. /\ wanted' = wanted /\ reasons' = IF late THEN {"late"} ELSE {}
        /\ call' = IF late THEN Overrun(op) ELSE Popped(op, 0)
    BY <1>5 DEF Ask
  <2>3. CASE late
    <3>1. call' = [op |-> op, ok |-> FALSE, from |-> 0, bytes |-> 0] /\ reasons' = {"late"}
      BY <2>2, <2>3 DEF Overrun
    <3>2. call'.ok = FALSE /\ call'.from = 0 /\ call'.bytes = 0 /\ call' \in Calls
      BY <3>1 DEF Calls
    <3>3. Reasoned'
      BY <2>1, <3>1, <3>2 DEF Reasoned, RefusedOnlyWithReason
    <3>4. Aligned'
      BY <1>1, <1>3, <2>3, <3>2 DEF Aligned, PhaseNeverSlips
    <3> QED
      BY <1>0, <1>1, <1>3, <2>1, <2>2, <3>1, <3>2, <3>3, <3>4
  <2>4. CASE ~late
    <3>1. /\ call' = [op |-> op, ok |-> TRUE, from |-> head - available, bytes |-> 0]
          /\ reasons' = {}
      BY <2>2, <2>4 DEF Popped
    <3>2. /\ call'.ok = TRUE /\ call'.from = head - available /\ call'.bytes = 0
      BY <3>1
    <3>3. call' \in Calls
      <4>1. head - available \in Nat
        BY <1>0
      <4> QED
        BY <3>1, <4>1 DEF Calls
    <3>4. Reasoned'
      BY <2>1, <3>1, <3>2 DEF Reasoned, RefusedOnlyWithReason
    <3>5. Aligned'
      BY <1>1, <1>3, <2>4, <3>2 DEF IInv, Aligned, PhaseNeverSlips
    <3> QED
      BY <1>0, <1>1, <1>3, <2>1, <2>2, <3>1, <3>3, <3>4, <3>5
  <2> QED
    BY <2>3, <2>4
<1> QED
  BY <1>4, <1>5

\* A pop that succeeds moves on by what was asked for; one that fails moves nothing.
LEMMA PopOutcome ==
  ASSUME IInv, NEW op \in {"read", "discard"}, Pop(op)
  PROVE  /\ UNCHANGED <<head, late>> /\ available' \in 0 .. BufferBytes /\ available' <= head'
         /\ Aligned' /\ call' \in Calls
         /\ call.ok /\ take' = 0 /\ wanted' = 0 /\ reasons' = reasons
         /\ call'.bytes \in {0, take}
         /\ call'.ok => /\ ~late /\ call'.bytes = take
                        /\ available' = available - call'.bytes
         /\ Reasoned'
<1>0. /\ head \in Nat /\ available \in 0 .. BufferBytes /\ available <= head /\ BufferBytes \in Nat
      /\ late \in BOOLEAN /\ take \in Nat
  BY Sized
<1>1. /\ take > 0 /\ UNCHANGED <<head, late, reasons>> /\ take' = 0 /\ wanted' = 0
      /\ call' = IF late \/ available > take THEN Overrun(op) ELSE Popped(op, take)
      /\ available' = available - call'.bytes
  BY DEF Pop
<1>2. /\ take % FRAME_BYTES = 0 /\ take <= available /\ call.ok
      /\ reasons = {} <=> ~late /\ available = take
  BY <1>0, <1>1 DEF IInv, Pending, Reasoned
<1>3. 0 % FRAME_BYTES = 0
  BY FrameIsPositive, SMT
<1>4. CASE late \/ available > take
  <2>1. call' = [op |-> op, ok |-> FALSE, from |-> 0, bytes |-> 0]
    BY <1>1, <1>4 DEF Overrun
  <2>2. call'.ok = FALSE /\ call'.from = 0 /\ call'.bytes = 0 /\ call' \in Calls
    BY <2>1 DEF Calls
  <2>3. available' = available
    BY <1>0, <1>1, <2>2
  <2>4. Aligned'
    BY <1>1, <1>3, <2>2, <2>3 DEF IInv, Aligned, PhaseNeverSlips
  <2>5. reasons # {}
    BY <1>0, <1>2, <1>4
  <2>6. Reasoned'
    BY <1>1, <2>2, <2>5 DEF Reasoned, RefusedOnlyWithReason
  <2> QED
    BY <1>0, <1>1, <1>2, <2>2, <2>3, <2>4, <2>6
<1>5. CASE ~(late \/ available > take)
  <2>1. call' = [op |-> op, ok |-> TRUE, from |-> head - available, bytes |-> take]
    BY <1>1, <1>5 DEF Popped
  <2>2. /\ call'.ok = TRUE /\ call'.from = head - available /\ call'.bytes = take
        /\ call' \in Calls
    <3>1. head - available \in Nat
      BY <1>0
    <3> QED
      BY <1>0, <2>1, <3>1 DEF Calls
  <2>3. ~late /\ available = take
    BY <1>0, <1>2, <1>5
  <2>4. (head - available) % FRAME_BYTES = 0
    BY <2>3 DEF IInv, Aligned
  <2>5. available' = available - take /\ head' - available' = (head - available) + take
    <3>1. available' = available - call'.bytes /\ head' = head
      BY <1>1
    <3>2. call'.bytes = take
      BY <2>2
    <3>3. available' = available - take
      BY <3>1, <3>2
    <3> QED
      BY <1>0, <3>1, <3>3
  <2>6. (head' - available') % FRAME_BYTES = 0
    <3> DEFINE done == head - available
    <3>1. done \in Int /\ take \in Int /\ done % FRAME_BYTES = 0 /\ take % FRAME_BYTES = 0
      BY <1>0, <1>2, <2>4
    <3>2. head' - available' = done + take
      BY <2>5
    <3> HIDE DEF done
    <3>3. (done + take) % FRAME_BYTES = 0
      BY <3>1, FrameIsPositive, SumIsWhole
    <3> QED
      BY <3>2, <3>3
  <2>7. Aligned'
    BY <1>2, <2>2, <2>4, <2>6 DEF Aligned, PhaseNeverSlips
  <2>8. Reasoned'
    BY <1>1, <1>2, <2>2, <2>3 DEF Reasoned, RefusedOnlyWithReason
  <2>9. available' \in 0 .. BufferBytes /\ available' <= head'
    <3>1. available' = available - take /\ head' = head /\ take <= available
      BY <1>1, <1>2, <2>5
    <3> QED
      BY <1>0, <3>1
  <2> QED
    BY <1>1, <1>2, <2>2, <2>3, <2>5, <2>7, <2>8, <2>9
<1> QED
  BY <1>4, <1>5

\* Bytes of a request.
LEMMA RequestInBytes ==
  ASSUME NEW n \in Nat
  PROVE  n * FRAME_BYTES \in Nat
  BY FrameIsPositive, SMT

\* One turn of discard's loop takes whole frames, no more than were left, and counts
\* them.
LEMMA DiscardAdvances ==
  ASSUME IInv, DiscardSome, call'.ok
  PROVE  /\ ~late
         /\ left' \in 0 .. left
         /\ head' - available' + left' * FRAME_BYTES = goal
<1> DEFINE F == FRAME_BYTES
           got == call'.bytes \div F
<1>0. /\ F \in Nat \ {0} /\ left \in Nat /\ left > 0
      /\ head \in Nat /\ available \in Nat /\ goal \in Int /\ take \in Nat /\ take # 0
  BY Sized, FrameIsPositive DEF DiscardSome, Pop
<1>1. left * F \in Nat
  BY <1>0
<1>2. Pop("discard")
  BY DEF DiscardSome
<1>3. /\ ~late /\ call'.bytes = take /\ available' = available - call'.bytes /\ head' = head
  BY <1>2, PopOutcome
<1>4. /\ call'.bytes \in Nat /\ call'.bytes <= left * F /\ call'.bytes % F = 0
  BY <1>0, <1>1, <1>3 DEF IInv, Pending
<1>5. got \in Int /\ call'.bytes = F * got
  <2> DEFINE b == call'.bytes
  <2>1. b \in Int /\ b % F = 0
    BY <1>4
  <2> HIDE DEF b
  <2>2. b \div F \in Int /\ b = F * (b \div F) + (b % F)
    BY <1>0, <2>1, Division
  <2>3. F * (b \div F) \in Int
    BY <1>0, <2>2
  <2>4. b \div F \in Int /\ b = F * (b \div F)
    BY <2>1, <2>2, <2>3
  <2> QED
    BY <2>4 DEF b
<1>6. left' = IF got >= left THEN 0 ELSE left - got
  BY DEF DiscardSome
<1>7. head - available + left * F = goal
  BY <1>0, <1>3 DEF IInv, OnTheWay
<1> HIDE DEF F, got
<1>8. got <= left
  <2>1. SUFFICES ASSUME left + 1 <= got PROVE FALSE
    BY <1>0, <1>5
  <2>2. F * (left + 1) <= F * got
    BY <1>0, <1>5, <2>1, ProductGrows
  <2>3. F * (left + 1) = left * F + F
    BY <1>0
  <2> QED
    BY <1>0, <1>1, <1>4, <1>5, <2>2, <2>3
<1>9. got >= 0
  <2>1. SUFFICES ASSUME got <= -1 PROVE FALSE
    BY <1>5
  <2>2. F * got <= F * (-1)
    BY <1>0, <1>5, <2>1, ProductGrows
  <2> QED
    BY <1>0, <1>4, <1>5, <2>2
<1>10. left' = left - got /\ left' \in 0 .. left
  BY <1>0, <1>5, <1>6, <1>8, <1>9
<1>11. left' * F = left * F - F * got
  BY <1>0, <1>5, <1>10
<1>12. head' - available' + left' * F = goal
  <2> DEFINE b == call'.bytes
             request == left * F
  <2>1. b \in Nat /\ request \in Nat
    BY <1>1, <1>4
  <2>2. left' * F = request - b
    BY <1>5, <1>11
  <2>3. head' - available' = head - (available - b)
    BY <1>3
  <2>4. head - available + request = goal
    BY <1>7
  <2> HIDE DEF b, request
  <2> QED
    BY <1>0, <2>1, <2>2, <2>3, <2>4
<1> QED
  BY <1>3, <1>10, <1>12 DEF F

LEMMA NextIInv == IInv /\ [Next]_vars => IInv'
<1> SUFFICES ASSUME IInv, [Next]_vars PROVE IInv'
  OBVIOUS
<1>0. /\ head \in Nat /\ available \in 0 .. BufferBytes /\ available <= head
      /\ BufferBytes \in Nat /\ MaxSamples \in Nat /\ left \in 0 .. MaxSamples /\ goal \in Int
      /\ late \in BOOLEAN /\ call \in Calls /\ take \in Nat /\ wanted \in Nat
      /\ reasons \subseteq {"late", "more", "half", "captured"}
  BY Sized
<1>t. ASSUME head' \in Nat, available' \in 0 .. BufferBytes, late' \in BOOLEAN, take' \in Nat,
             wanted' \in Nat, reasons' \subseteq {"late", "more", "half", "captured"},
             call' \in Calls, left' \in 0 .. MaxSamples
      PROVE  TypeOK'
  BY <1>t DEF TypeOK, Calls
<1>z. 0 % FRAME_BYTES = 0
  BY FrameIsPositive, SMT
<1>1. ASSUME NEW g \in Grains, Capture(g), UNCHANGED <<call, left, goal>> PROVE IInv'
  <2>1. /\ g \in Nat /\ g > 0 /\ head' = head + g /\ take' = take /\ wanted' = wanted
        /\ reasons' = IF take = 0 THEN reasons ELSE reasons \cup {"captured"}
        /\ IF available + g <= BufferBytes
             THEN available' = available + g /\ late' = late
             ELSE late' = TRUE /\ available' = available
    BY <1>1, RecordingAssumption DEF Capture
  <2>2. /\ head' \in Nat /\ available' \in 0 .. BufferBytes /\ available' <= head'
        /\ available <= available' /\ late' \in BOOLEAN
        /\ late' => late \/ available' = available
        /\ ~late' => ~late /\ head' - available' = head - available /\ available' > available
    <3>1. CASE available + g <= BufferBytes
      <4>1. available' = available + g /\ late' = late /\ head' = head + g /\ g \in Nat /\ g > 0
        BY <2>1, <3>1
      <4> QED
        BY <1>0, <3>1, <4>1
    <3>2. CASE ~(available + g <= BufferBytes)
      <4>1. available' = available /\ late' = TRUE /\ head' = head + g /\ g \in Nat
        BY <2>1, <3>2
      <4> QED
        BY <1>0, <4>1
    <3> QED
      BY <3>1, <3>2
  <2>3. reasons' \subseteq {"late", "more", "half", "captured"}
    BY <1>0, <2>1
  <2>4. TypeOK'
    BY <1>0, <1>1, <1>t, <2>1, <2>2, <2>3
  <2>5. Aligned'
    BY <1>1, <2>2 DEF IInv, Aligned, PhaseNeverSlips
  <2>6. OnTheWay'
    BY <1>1, <2>2 DEF IInv, OnTheWay
  <2>7. Pending'
    BY <1>0, <1>1, <2>1, <2>2 DEF IInv, Pending
  <2>8. Reasoned'
    <3>1. take # 0 => reasons' # {} /\ ~(~late' /\ available' = take)
      BY <1>0, <2>1, <2>2 DEF IInv, Pending
    <3>2. take = 0 => reasons' = reasons
      BY <2>1
    <3> QED
      BY <1>1, <2>1, <3>1, <3>2 DEF IInv, Reasoned, RefusedOnlyWithReason
  <2> QED
    BY <2>2, <2>4, <2>5, <2>6, <2>7, <2>8 DEF IInv
<1>2. ASSUME NEW n \in 1 .. MaxSamples, read(n) PROVE IInv'
  <2>1. n * FRAME_BYTES \in Nat
    BY <1>0, RequestInBytes
  <2>2. Ask("read", n * FRAME_BYTES) /\ left = 0 /\ left' = left /\ goal' = goal
    BY <1>2 DEF read
  <2>3. /\ UNCHANGED <<head, available, late>>
        /\ available' <= head' /\ Aligned' /\ call' \in Calls
        /\ take' \in Nat /\ take' % FRAME_BYTES = 0 /\ take' <= available' /\ take' <= wanted'
        /\ take' # 0 => call' = call /\ call.ok
        /\ wanted' \in Nat /\ reasons' \subseteq {"late", "more", "half", "captured"}
        /\ Reasoned'
    BY <2>1, <2>2, AskOutcome
  <2>4. TypeOK'
    BY <1>0, <1>t, <2>2, <2>3
  <2>5. OnTheWay'
    BY <1>0, <2>2 DEF OnTheWay
  <2>6. Pending'
    BY <1>0, <2>2, <2>3 DEF Pending
  <2> QED
    BY <2>3, <2>4, <2>5, <2>6 DEF IInv
<1>3. ASSUME ReadPop \/ DiscardSome PROVE IInv'
  <2>1. /\ UNCHANGED <<head, late>> /\ available' \in 0 .. BufferBytes /\ available' <= head'
        /\ Aligned' /\ call' \in Calls
        /\ take' = 0 /\ wanted' = 0 /\ reasons' = reasons /\ Reasoned'
    BY <1>3, PopOutcome DEF ReadPop, DiscardSome
  <2>2. left' \in 0 .. MaxSamples /\ OnTheWay'
    <3>1. CASE ReadPop
      BY <1>0, <3>1 DEF ReadPop, OnTheWay
    <3>2. CASE DiscardSome /\ call'.ok
      <4>1. left' \in 0 .. left /\ head' - available' + left' * FRAME_BYTES = goal
        BY <3>2, DiscardAdvances
      <4>2. left' \in 0 .. MaxSamples /\ goal' = goal
        BY <1>0, <3>2, <4>1 DEF DiscardSome
      <4> QED
        BY <1>0, <3>2, <4>1, <4>2 DEF OnTheWay
    <3>3. CASE DiscardSome /\ ~call'.ok
      <4>1. left' = 0 /\ goal' = goal
        BY <3>3 DEF DiscardSome
      <4> QED
        BY <1>0, <4>1 DEF OnTheWay
    <3> QED
      BY <1>3, <3>1, <3>2, <3>3
  <2>3. TypeOK'
    BY <1>0, <1>t, <2>1, <2>2
  <2>4. Pending'
    BY <1>0, <1>z, <2>1 DEF Pending
  <2> QED
    BY <2>1, <2>2, <2>3, <2>4 DEF IInv
<1>4. ASSUME NEW n \in 1 .. MaxSamples, BeginDiscard(n) PROVE IInv'
  <2>1. n * FRAME_BYTES \in Nat
    BY <1>0, RequestInBytes
  <2>2. /\ call.ok /\ left' = n /\ goal' = head - available + n * FRAME_BYTES /\ take = 0
        /\ UNCHANGED <<head, available, late, take, wanted, reasons, call>>
    BY <1>4 DEF BeginDiscard, attempt
  <2>3. goal' \in Int
    BY <1>0, <2>1, <2>2
  <2>4. TypeOK' /\ available' <= head'
    BY <1>0, <1>t, <2>2
  <2>5. Aligned'
    BY <2>2 DEF IInv, Aligned, PhaseNeverSlips
  <2>6. OnTheWay'
    BY <2>2, <2>3 DEF OnTheWay
  <2>7. Pending' /\ Reasoned'
    BY <2>2 DEF IInv, Pending, Reasoned, RefusedOnlyWithReason
  <2> QED
    BY <2>4, <2>5, <2>6, <2>7 DEF IInv
<1>5. ASSUME DiscardAsk PROVE IInv'
  <2>1. left * FRAME_BYTES \in Nat
    BY <1>0, RequestInBytes
  <2>2. /\ Ask("discard", left * FRAME_BYTES) /\ left > 0 /\ goal' = goal
        /\ left' = IF call'.ok THEN left ELSE 0
    BY <1>5 DEF DiscardAsk
  <2>3. /\ UNCHANGED <<head, available, late>>
        /\ available' <= head' /\ Aligned' /\ call' \in Calls
        /\ take' \in Nat /\ take' % FRAME_BYTES = 0 /\ take' <= available' /\ take' <= wanted'
        /\ take' # 0 => call' = call /\ call.ok /\ wanted' = left * FRAME_BYTES
        /\ wanted' \in Nat /\ reasons' \subseteq {"late", "more", "half", "captured"}
        /\ Reasoned'
    BY <2>1, <2>2, AskOutcome
  <2>4. TypeOK'
    <3>1. left' \in 0 .. MaxSamples
      BY <1>0, <2>2
    <3> QED
      BY <1>0, <1>t, <2>3, <3>1
  <2>5. OnTheWay'
    <3>1. CASE call'.ok
      BY <2>2, <2>3, <3>1 DEF IInv, OnTheWay
    <3>2. CASE ~call'.ok
      BY <1>0, <2>2, <3>2 DEF OnTheWay
    <3> QED
      BY <3>1, <3>2
  <2>6. Pending'
    BY <1>0, <2>2, <2>3 DEF Pending
  <2> QED
    BY <2>3, <2>4, <2>5, <2>6 DEF IInv
<1>6. ASSUME start PROVE IInv'
  <2>1. /\ head' = head + ((-head) % FRAME_BYTES) /\ available' = 0 /\ late' = FALSE
        /\ call' = [Popped("start", 0) EXCEPT !.from = head'] /\ left' = left /\ goal' = goal
        /\ ~call.ok /\ take' = take /\ wanted' = wanted /\ reasons' = {}
    BY <1>6 DEF start
  <2>2. head' \in Nat /\ head' % FRAME_BYTES = 0
    BY <1>0, <2>1, FrameIsPositive, NextMultiple
  <2>3. call' = [op |-> "start", ok |-> TRUE, from |-> head', bytes |-> 0]
    BY <2>1 DEF Popped
  <2>4. left' = 0 /\ take' = 0
    BY <2>1 DEF IInv, OnTheWay, Pending
  <2>5. call' \in Calls
    BY <2>2, <2>3 DEF Calls
  <2>6. late' \in BOOLEAN
    BY <2>1
  <2>7. TypeOK'
    BY <1>0, <1>t, <2>1, <2>2, <2>4, <2>5, <2>6
  <2>9. head' - available' = head' /\ available' <= head'
    BY <2>1, <2>2
  <2>10. call'.from = head' /\ call'.bytes = 0 /\ call'.ok = TRUE
    BY <2>3
  <2>11. Aligned'
    BY <1>z, <2>2, <2>9, <2>10 DEF Aligned, PhaseNeverSlips
  <2>12. OnTheWay'
    BY <1>0, <2>1, <2>4 DEF OnTheWay
  <2>13. Pending' /\ Reasoned'
    BY <1>0, <1>z, <2>1, <2>4, <2>10 DEF Pending, Reasoned, RefusedOnlyWithReason
  <2> QED
    BY <2>7, <2>9, <2>11, <2>12, <2>13 DEF IInv
<1>7. CASE UNCHANGED vars
  BY <1>7 DEF vars, attempt, IInv, TypeOK, Aligned, PhaseNeverSlips, OnTheWay, Pending, Reasoned,
              RefusedOnlyWithReason
<1> QED
  BY <1>1, <1>2, <1>3, <1>4, <1>5, <1>6, <1>7 DEF Next

LEMMA IInvAlways == Spec => []IInv
  BY InitIInv, NextIInv, PTL DEF Spec

-----------------------------------------------------------------------------
(* The theorems. *)

\* Left and right never swap, whatever the grain of the hardware, the sizes of frame,
\* buffer and scratch, the requests and the restarts (driver.rs:298-305).
THEOREM ChannelsNeverSwap == Spec => []PhaseNeverSlips
<1>1. IInv => PhaseNeverSlips
  BY DEF IInv, Aligned
<1> QED
  BY <1>1, IInvAlways, PTL

\* A discard ends exactly where it was asked to, in however many pieces the hardware
\* lets it go by (driver.rs:280-291).
THEOREM DiscardsWhatWasAsked == Spec => DiscardIsExact
<1> DEFINE A == ~late /\ left > 0 =>
                 /\ head - available + left * FRAME_BYTES = goal
                 /\ left' = 0 /\ call'.ok => head' - available' = goal
<1>1. IInv /\ [Next]_vars => [A]_vars
  <2>1. SUFFICES ASSUME IInv, Next, ~late, left > 0 PROVE A
    OBVIOUS
  <2>2. head - available + left * FRAME_BYTES = goal
    BY <2>1 DEF IInv, OnTheWay
  <2>3. ASSUME left' = 0, call'.ok PROVE head' - available' = goal
    <3>1. left \in Nat /\ MaxSamples \in Nat
      BY <2>1, RecordingAssumption DEF IInv, TypeOK
    <3>2. DiscardSome
      <4>0. ASSUME DiscardAsk PROVE FALSE
        BY <2>1, <2>3, <4>0 DEF DiscardAsk
      <4>1. ASSUME NEW g \in Grains, Capture(g), UNCHANGED <<call, left, goal>> PROVE FALSE
        BY <2>1, <2>3, <4>1
      <4>2. ASSUME NEW n \in 1 .. MaxSamples, read(n) \/ BeginDiscard(n) PROVE FALSE
        BY <2>1, <3>1, <4>2 DEF read, BeginDiscard
      <4>4. ASSUME ReadPop PROVE FALSE
        BY <2>1, <3>1, <4>4 DEF ReadPop
      <4>3. ASSUME start PROVE FALSE
        BY <2>1, <2>3, <4>3 DEF start
      <4> QED
        BY <2>1, <4>0, <4>1, <4>2, <4>3, <4>4 DEF Next
    <3>3. head' - available' + left' * FRAME_BYTES = goal
      BY <2>1, <2>3, <3>2, DiscardAdvances
    <3>4. left' * FRAME_BYTES = 0
      BY <2>3, FrameIsPositive
    <3>5. head' - available' \in Int
      <4>1. left * FRAME_BYTES \in Nat
        BY <3>1, RequestInBytes
      <4>2. head' \in Nat /\ available' \in 0 .. BufferBytes /\ BufferBytes \in Nat
        BY <2>1, NextIInv, RecordingAssumption DEF IInv, TypeOK
      <4> QED
        BY <4>2
    <3> QED
      BY <3>3, <3>4, <3>5
  <2> QED
    BY <2>2, <2>3
<1>2. []IInv /\ [][Next]_vars => [][A]_vars
  BY <1>1, PTL
<1> QED
  BY <1>2, IInvAlways, PTL DEF Spec, DiscardIsExact

\* A pop is refused only with reason, and never succeeds when audio was lost: whatever
\* the sizes, the grain and the requests, and whenever bytes come in between a call's
\* asking and popping, it fails exactly when the buffer has overflowed, more was waiting
\* than there was room for, half a frame was, or something came in between
\* (driver.rs:262-305).
THEOREM NoSpuriousOverrun == Spec => []RefusedOnlyWithReason
<1>1. IInv => RefusedOnlyWithReason
  BY DEF IInv, Reasoned
<1> QED
  BY <1>1, IInvAlways, PTL

-----------------------------------------------------------------------------
(* The samples of a program that reads the recording: first, what is iterated *)
(* and powers of two.                                                         *)

\* Induction, over a set.
LEMMA Upwards ==
    ASSUME NEW N \in Nat, NEW S, 0 \in S, \A n \in 0 .. N - 1 : n \in S => n + 1 \in S
    PROVE  \A n \in 0 .. N : n \in S
<1> DEFINE Failing == {n \in 0 .. N : n \notin S}
<1> SUFFICES ASSUME Failing # {} PROVE FALSE
    OBVIOUS
<1>1. Failing \subseteq Nat
    OBVIOUS
<1>2. PICK m \in Failing : \A x \in Failing : ~(<<x, m>> \in OpToRel(<, Nat))
    BY <1>1, NatLessThanWellFounded, WFMin
<1>3. m \in 0 .. N /\ m \notin S /\ m # 0
    BY <1>2
<1>4. m - 1 \in 0 .. N - 1 /\ m - 1 \in 0 .. N /\ m - 1 < m /\ m - 1 \in Nat /\ m \in Nat
    BY <1>3
<1>5. m - 1 \notin Failing
    BY <1>2, <1>4 DEF OpToRel
<1>6. m - 1 \in S
    BY <1>4, <1>5
<1>7. (m - 1) + 1 \in S
    BY <1>4, <1>6
<1> QED
    BY <1>3, <1>7

\* f is c, and then what the functions g make of it one after the other.
Iterate(f, N, c, g) == f[0] = c /\ \A i \in 1 .. N : f[i] = g[i][f[i - 1]]

\* There is such a function.
LEMMA Iterates ==
    ASSUME NEW N \in Nat, NEW T, NEW c \in T, NEW g \in [1 .. N -> [T -> T]]
    PROVE  \E f \in [0 .. N -> T] : Iterate(f, N, c, g)
<1> DEFINE Good(n) == \E f \in [0 .. n -> T] : f[0] = c /\ \A i \in 1 .. n : f[i] = g[i][f[i - 1]]
           S == {n \in 0 .. N : Good(n)}
<1>1. 0 \in S
  <2> DEFINE f == [i \in 0 .. 0 |-> c]
  <2>1. f \in [0 .. 0 -> T] /\ f[0] = c /\ \A i \in 1 .. 0 : f[i] = g[i][f[i - 1]]
      OBVIOUS
  <2>2. Good(0)
      BY <2>1
  <2> QED
      BY <2>2
<1>2. ASSUME NEW n \in 0 .. N - 1, n \in S PROVE n + 1 \in S
  <2>1. PICK f \in [0 .. n -> T] : f[0] = c /\ \A i \in 1 .. n : f[i] = g[i][f[i - 1]]
      BY <1>2
  <2> DEFINE h == [i \in 0 .. n + 1 |-> IF i = n + 1 THEN g[n + 1][f[n]] ELSE f[i]]
  <2>2. n + 1 \in 1 .. N /\ n \in 0 .. n /\ n + 1 \in 0 .. n + 1
      OBVIOUS
  <2>3. g[n + 1] \in [T -> T]
      BY <2>2
  <2>4. g[n + 1][f[n]] \in T
      BY <2>2, <2>3
  <2>5. \A i \in 0 .. n : h[i] = f[i]
      OBVIOUS
  <2>6. h \in [0 .. n + 1 -> T]
      BY <2>4
  <2>7. h[n + 1] = g[n + 1][f[n]]
      BY <2>2
  <2> HIDE DEF h
  <2>8. h[0] = c
      BY <2>1, <2>5
  <2>9. ASSUME NEW i \in 1 .. n + 1 PROVE h[i] = g[i][h[i - 1]]
    <3>1. CASE i = n + 1
      <4>1. h[i - 1] = f[n]
          BY <2>2, <2>5, <3>1
      <4> QED
          BY <2>7, <3>1, <4>1
    <3>2. CASE i # n + 1
      <4>1. i \in 1 .. n /\ i \in 0 .. n /\ i - 1 \in 0 .. n
          BY <3>2
      <4> QED
          BY <2>1, <2>5, <4>1
    <3> QED
        BY <3>1, <3>2
  <2>10. Good(n + 1)
      BY <2>6, <2>8, <2>9
  <2> HIDE DEF Good
  <2> QED
      BY <2>10
<1> HIDE DEF S
<1>3. \A n \in 0 .. N - 1 : n \in S => n + 1 \in S
    BY <1>2
<1>4. \A n \in 0 .. N : n \in S
    BY <1>1, <1>3, Upwards
<1>5. N \in S
    BY <1>4
<1> QED
    BY <1>5 DEF S, Iterate

-----------------------------------------------------------------------------
\* Powers of two.

LEMMA PowerIsNatural ==
    ASSUME NEW n \in Nat
    PROVE  /\ 2 ^ n \in Nat \ {0}
           /\ Cardinality(SUBSET (1 .. n)) = 2 ^ n /\ IsFiniteSet(SUBSET (1 .. n))
<1>1. IsFiniteSet(1 .. n) /\ Cardinality(1 .. n) = n
  <2>1. 1 \in Int /\ n \in Int /\ (IF 1 > n THEN 0 ELSE n - 1 + 1) = n
      OBVIOUS
  <2> QED
      BY <2>1, FS_Interval
<1>2. IsFiniteSet(SUBSET (1 .. n)) /\ Cardinality(SUBSET (1 .. n)) = 2 ^ n
    BY <1>1, FS_SUBSET
<1>3. Cardinality(SUBSET (1 .. n)) \in Nat /\ Cardinality(SUBSET (1 .. n)) # 0
  <2>1. {} \in SUBSET (1 .. n)
      OBVIOUS
  <2> QED
      BY <1>2, <2>1, FS_CardinalityType, FS_EmptySet
<1> QED
    BY <1>2, <1>3

LEMMA PowerDoubles ==
    ASSUME NEW n \in Nat
    PROVE  2 ^ (n + 1) = 2 * 2 ^ n
<1> DEFINE A == SUBSET (1 .. n)
           B == {s \cup {n + 1} : s \in A}
           add == [s \in A |-> s \cup {n + 1}]
<1>1. IsFiniteSet(A) /\ Cardinality(A) = 2 ^ n
    BY PowerIsNatural
<1>2. n + 1 \notin 1 .. n
    OBVIOUS
<1>3. add \in Bijection(A, B)
  <2>1. add \in [A -> B]
      OBVIOUS
  <2>2. \A s1, s2 \in A : add[s1] = add[s2] => s1 = s2
    <3> SUFFICES ASSUME NEW s1 \in A, NEW s2 \in A, s1 \cup {n + 1} = s2 \cup {n + 1}
                 PROVE  s1 = s2
        OBVIOUS
    <3>1. n + 1 \notin s1 /\ n + 1 \notin s2
        BY <1>2
    <3> QED
        BY <3>1
  <2>3. \A t \in B : \E s \in A : add[s] = t
      OBVIOUS
  <2> HIDE DEF A, B, add
  <2>4. add \in Injection(A, B) /\ add \in Surjection(A, B)
      BY <2>1, <2>2, <2>3 DEF Injection, IsInjective, Surjection
  <2> QED
      BY <2>4 DEF Bijection
<1>4. IsFiniteSet(B) /\ Cardinality(B) = Cardinality(A)
  <2> HIDE DEF A, B, add
  <2> QED
      BY <1>1, <1>3, FS_Bijection DEF ExistsBijection
<1>5. A \cap B = {}
    BY <1>2
<1>6. A \cup B = SUBSET (1 .. n + 1)
  <2>1. 1 .. n + 1 = (1 .. n) \cup {n + 1}
      OBVIOUS
  <2>2. ASSUME NEW t \in SUBSET (1 .. n + 1) PROVE t \in A \cup B
    <3>1. CASE n + 1 \notin t
        BY <2>1, <3>1
    <3>2. CASE n + 1 \in t
      <4>1. t \ {n + 1} \in A
          BY <2>1
      <4>2. t = (t \ {n + 1}) \cup {n + 1}
          BY <3>2
      <4> QED
          BY <4>1, <4>2
    <3> QED
        BY <3>1, <3>2
  <2>3. A \cup B \subseteq SUBSET (1 .. n + 1)
      BY <2>1
  <2> QED
      BY <2>2, <2>3
<1>7. Cardinality(A \cup B) = Cardinality(A) + Cardinality(B) - Cardinality(A \cap B)
  <2> HIDE DEF A, B
  <2> QED
      BY <1>1, <1>4, FS_Union
<1>8. Cardinality(A \cap B) = 0
    BY <1>5, FS_EmptySet
<1>9. n + 1 \in Nat
    OBVIOUS
<1>10. Cardinality(A \cup B) = 2 ^ (n + 1)
    BY <1>6, <1>9, PowerIsNatural
<1>11. 2 ^ n \in Nat
    BY PowerIsNatural
<1> QED
    BY <1>1, <1>4, <1>7, <1>8, <1>10, <1>11

LEMMA PowersMultiply ==
    ASSUME NEW m \in Nat, NEW n \in Nat
    PROVE  2 ^ (m + n) = 2 ^ m * 2 ^ n
<1> DEFINE S == {k \in 0 .. n : 2 ^ (m + k) = 2 ^ m * 2 ^ k}
<1>1. 0 \in S
  <2>1. m + 0 = m /\ 2 ^ 0 = 1 /\ 2 ^ m * 1 = 2 ^ m /\ 0 \in 0 .. n
      BY PowerIsNatural
  <2> QED
      BY <2>1
<1>2. ASSUME NEW k \in 0 .. n - 1, k \in S PROVE k + 1 \in S
  <2>1. k \in Nat /\ m + k \in Nat /\ m + (k + 1) = (m + k) + 1 /\ k + 1 \in 0 .. n
      OBVIOUS
  <2>2. 2 ^ (m + (k + 1)) = 2 * 2 ^ (m + k) /\ 2 ^ (k + 1) = 2 * 2 ^ k
      BY <2>1, PowerDoubles
  <2>3. 2 ^ (m + k) = 2 ^ m * 2 ^ k
      BY <1>2
  <2>4. 2 ^ m \in Nat /\ 2 ^ k \in Nat
      BY <2>1, PowerIsNatural
  <2>5. 2 ^ (m + (k + 1)) = 2 ^ m * 2 ^ (k + 1)
      BY <2>2, <2>3, <2>4
  <2> QED
      BY <2>1, <2>5
<1> HIDE DEF S
<1>3. n \in S
    BY <1>1, <1>2, Upwards
<1> QED
    BY <1>3 DEF S

-----------------------------------------------------------------------------
(* Samples. *)

\* Half of the numbers that a sample can be, and what a word is above its sample.
Half == 2 ^ (SampleBits - 1)
Shift == 2 ^ (SampleBits \div 2)

LEMMA Sizes ==
    /\ Half \in Nat \ {0} /\ Shift \in Nat \ {0} /\ SCALE \in Nat \ {0}
    /\ 2 ^ SampleBits = 2 * Half /\ 2 ^ SampleBits = Shift * Shift
    /\ SampleMin = -Half /\ SampleMax = Half - 1
    /\ Sound \in [{"Left", "Right"} -> Seq(-(Half * Shift) .. Half * Shift - 1) \ {<<>>}]
<1> DEFINE b == SampleBits - 1
           h == SampleBits \div 2
<1>1. SampleBits \in Nat \ {0} /\ SampleBits % 2 = 0 /\ MaxFed \in Nat
    BY MicSamplesAssumption
<1>2. b \in Nat /\ h \in Nat /\ SampleBits = b + 1 /\ SampleBits = h + h
    BY <1>1
<1>3. 2 ^ b \in Nat \ {0} /\ 2 ^ h \in Nat \ {0} /\ 2 ^ MaxFed \in Nat \ {0}
    BY <1>1, <1>2, PowerIsNatural
<1>4. 2 ^ SampleBits = 2 * 2 ^ b
    BY <1>2, PowerDoubles
<1>5. 2 ^ SampleBits = 2 ^ h * 2 ^ h
    BY <1>2, PowersMultiply
<1>6. 2 ^ (b + h) = 2 ^ b * 2 ^ h
    BY <1>2, PowersMultiply
<1>7. Half = 2 ^ b /\ Shift = 2 ^ h
    BY DEF Half, Shift
<1>8. SampleMin = -Half /\ SampleMax = Half - 1
    BY DEF SampleMin, SampleMax, Half
<1>9. Sound \in [{"Left", "Right"} -> Seq(-(2 ^ (b + h)) .. 2 ^ (b + h) - 1) \ {<<>>}]
    BY MicSamplesAssumption
<1> QED
    BY <1>3, <1>4, <1>5, <1>6, <1>7, <1>8, <1>9 DEF SCALE

\* What is heard is one sample and a half wide.
LEMMA HeardInWidth ==
    ASSUME NEW side \in {"Left", "Right"}, NEW n \in Nat
    PROVE  Heard(side, n) \in -(Half * Shift) .. Half * Shift - 1
<1> DEFINE s == Sound[side]
           W == -(Half * Shift) .. Half * Shift - 1
<1>1. s \in Seq(W) /\ s # <<>>
    BY Sizes
<1> HIDE DEF s, W
<1>2. Len(s) \in Nat \ {0}
    BY <1>1
<1>3. (n % Len(s)) + 1 \in 1 .. Len(s)
    BY <1>2
<1>4. s[(n % Len(s)) + 1] \in W
    BY <1>1, <1>3
<1> QED
    BY <1>4 DEF Heard, s, W

\* Dividing what was multiplied.
LEMMA Quotient ==
    ASSUME NEW n \in Nat \ {0}, NEW q \in Int, NEW r \in 0 .. n - 1
    PROVE  (n * q + r) \div n = q /\ (n * q + r) % n = r
<1> DEFINE x == n * q + r
           p == x \div n
<1>1. x \in Int
    OBVIOUS
<1>2. p \in Int /\ x % n \in 0 .. n - 1 /\ x = n * p + (x % n)
    BY <1>1, Division
<1> HIDE DEF p
<1>3. n * (q - p) = (x % n) - r
    BY <1>2
<1>4. CASE q - p >= 1
  <2>1. n * 1 <= n * (q - p)
      BY <1>2, <1>4, ProductGrows
  <2> QED
      BY <1>2, <1>3, <2>1
<1>5. CASE q - p <= -1
  <2>1. n * (q - p) <= n * (-1)
      BY <1>2, <1>5, ProductGrows
  <2> QED
      BY <1>2, <1>3, <2>1
<1>6. CASE q = p
  <2>1. n * (q - p) = 0
      BY <1>2, <1>6
  <2> QED
      BY <1>2, <1>3, <1>6, <2>1 DEF p
<1> QED
    BY <1>2, <1>4, <1>5, <1>6

LEMMA DividedTwice ==
    ASSUME NEW x \in Int, NEW h \in Nat \ {0}
    PROVE  (x * h) \div (h * h) = x \div h
<1> DEFINE q == x \div h
           r == x % h
<1>1. q \in Int /\ r \in 0 .. h - 1 /\ x = h * q + r
    BY Division
<1> HIDE DEF q, r
<1> DEFINE H == h * h
           R == r * h
<1>2. H \in Nat \ {0}
    OBVIOUS
<1>3. R \in 0 .. H - 1
  <2>1. R \in Nat
      BY <1>1
  <2>2. h * r <= h * (h - 1)
      BY <1>1, ProductGrows
  <2>3. h * r = R /\ h * (h - 1) = H - h
      BY <1>1
  <2> QED
      BY <1>2, <2>1, <2>2, <2>3
<1>4. x * h = H * q + R
    BY <1>1
<1> HIDE DEF H, R
<1>5. (H * q + R) \div H = q
    BY <1>1, <1>2, <1>3, Quotient
<1> QED
    BY <1>4, <1>5 DEF H, q

\* What is in the range of a sample stays there.
LEMMA CastKeeps ==
    ASSUME NEW x \in SampleMin .. SampleMax
    PROVE  Cast(x) = x
<1> DEFINE n == 2 * Half
           r == x + Half
<1>1. n \in Nat \ {0} /\ r \in 0 .. n - 1 /\ n * 0 + r = r
    BY Sizes
<1>2. (n * 0 + r) % n = r
  <2> HIDE DEF n, r
  <2> QED
      BY <1>1, Quotient
<1>3. Cast(x) = (r % n) - Half
    BY Sizes DEF Cast
<1> QED
    BY <1>1, <1>2, <1>3, Sizes

\* The top bits of what is heard are a sample, and what a word's are cast to.
LEMMA TopInRange ==
    ASSUME NEW x \in -(Half * Shift) .. Half * Shift - 1
    PROVE  /\ x \div Shift \in SampleMin .. SampleMax
           /\ Cast((x * Shift) \div (2 ^ SHIFT)) = x \div Shift
<1> DEFINE h == Shift
           q == x \div h
           r == x % h
<1>1. h \in Nat \ {0} /\ Half \in Nat \ {0} /\ Half * h \in Int /\ x \in Int
    BY Sizes
<1>2. q \in Int /\ r \in 0 .. h - 1 /\ x = h * q + r
    BY <1>1, Division
<1>3. (x * h) \div (2 ^ SHIFT) = q
  <2>1. 2 ^ SHIFT = h * h
      BY Sizes DEF SHIFT
  <2> QED
      BY <1>1, <2>1, DividedTwice
<1> HIDE DEF h, q, r
<1>4. q >= -Half
  <2> SUFFICES ASSUME q + 1 <= -Half PROVE FALSE
      BY <1>1, <1>2
  <2>1. h * (q + 1) <= h * (-Half)
      BY <1>1, <1>2, ProductGrows
  <2>2. h * (q + 1) = h * q + h /\ h * (-Half) = -(Half * h)
      BY <1>1, <1>2
  <2>3. x >= -(Half * h)
      BY DEF h
  <2> DEFINE hq == h * q
             W == Half * h
  <2>4. hq \in Int /\ W \in Int
      BY <1>1, <1>2
  <2>5. hq + h <= -W /\ x >= -W /\ x = hq + r
      BY <1>2, <2>1, <2>2, <2>3
  <2> HIDE DEF hq, W
  <2> QED
      BY <1>1, <1>2, <2>4, <2>5
<1>5. q <= Half - 1
  <2> SUFFICES ASSUME Half <= q PROVE FALSE
      BY <1>1, <1>2
  <2>1. h * Half <= h * q
      BY <1>1, <1>2, ProductGrows
  <2>2. h * Half = Half * h
      BY <1>1
  <2>3. x <= Half * h - 1
      BY DEF h
  <2> DEFINE hq == h * q
             W == Half * h
  <2>4. hq \in Int /\ W \in Int
      BY <1>1, <1>2
  <2>5. W <= hq /\ x <= W - 1 /\ x = hq + r
      BY <1>2, <2>1, <2>2, <2>3
  <2> HIDE DEF hq, W
  <2> QED
      BY <1>1, <1>2, <2>4, <2>5
<1>6. q \in SampleMin .. SampleMax
    BY <1>1, <1>2, <1>4, <1>5, Sizes
<1>7. Cast(q) = q
    BY <1>6, CastKeeps
<1> QED
    BY <1>3, <1>6, <1>7 DEF h, q

\* The words that are captured from a byte on, and the top of a side of some frames.
Captured(from, bytes) == [i \in 1 .. bytes |-> Word(from + i - 1)]
Tops(side, f, n) == [i \in 1 .. n |-> Heard(side, f + i - 1) \div Shift]

\* The samples that are unpacked are those of the slot.
LEMMA Unpacked ==
    ASSUME NEW side \in {"Left", "Right"}, NEW from \in Nat, from % 2 = 0,
           NEW bytes \in Nat, bytes % 2 = 0, NEW room \in Nat, bytes <= room * 2
    PROVE  unpack_mono(Captured(from, bytes), side, room) = Tops(side, from \div 2, bytes \div 2)
<1> DEFINE words == [i \in 1 .. bytes |-> Word(from + i - 1)]
           n == bytes \div 2
           f == from \div 2
<1>1. n \in Nat /\ bytes = 2 * n /\ n <= room
    BY Division
<1>2. f \in Nat /\ from = 2 * f
    BY Division
<1> HIDE DEF n, f
<1>3. Len(words) = bytes
    OBVIOUS
<1>4. Smaller(room, Len(words) \div 2) = n
    BY <1>1, <1>3 DEF Smaller, n
<1>5. ASSUME NEW i \in 1 .. n
      PROVE  Cast(words[2 * (i - 1) + offset(side) + 1] \div (2 ^ SHIFT))
               = Heard(side, f + i - 1) \div Shift
  <2> DEFINE o == offset(side)
             m == 2 * (f + i - 1) + o
  <2>1. o \in 0 .. 1 /\ (o = 0 <=> side = "Left")
      BY DEF offset
  <2> HIDE DEF o
  <2>2. 2 * (i - 1) + o + 1 \in 1 .. bytes
      BY <1>1, <2>1
  <2>3. words[2 * (i - 1) + o + 1] = Word(from + (2 * (i - 1) + o + 1) - 1)
      BY <2>2
  <2>4. from + (2 * (i - 1) + o + 1) - 1 = m
      BY <1>1, <1>2, <2>1
  <2>5. words[2 * (i - 1) + o + 1] = Word(m)
      BY <2>3, <2>4
  <2>6. f + i - 1 \in Nat
      BY <1>1, <1>2
  <2>7. m % 2 = o /\ m \div 2 = f + i - 1
      BY <2>1, <2>6
  <2>8. Word(m) = Heard(side, f + i - 1) * Shift
    <3>1. (IF m % 2 = 0 THEN "Left" ELSE "Right") = side
        BY <2>1, <2>7
    <3> QED
        BY <2>7, <3>1 DEF Word, Shift
  <2>9. Heard(side, f + i - 1) \in -(Half * Shift) .. Half * Shift - 1
      BY <2>6, HeardInWidth
  <2> QED
      BY <2>5, <2>8, <2>9, TopInRange DEF o
<1> QED
    BY <1>4, <1>5 DEF unpack_mono, Captured, Tops, n, f

-----------------------------------------------------------------------------
(* The filter. *)

\* n is y, which is in units of 1 / SCALE, rounded to zero and kept in range.
RoundsTo(n, y) ==
  \/ n = SampleMax /\ y >= SampleMax * SCALE
  \/ n = SampleMin /\ y <= SampleMin * SCALE
  \/ y >= 0 /\ n * SCALE <= y /\ y < (n + 1) * SCALE
  \/ y < 0 /\ n * SCALE >= y /\ y > (n - 1) * SCALE

LEMMA Scaling ==
    /\ \A n \in Int : n * SCALE \in Int /\ (n + 1) * SCALE = n * SCALE + SCALE /\ (n - 1) * SCALE = n * SCALE - SCALE
    /\ \A m, n \in Int : m <= n => m * SCALE <= n * SCALE
    /\ 0 * SCALE = 0 /\ SCALE \in Nat \ {0}
<1> DEFINE S == SCALE
<1>1. S \in Nat \ {0}
    BY Sizes
<1> HIDE DEF S
<1>2. \A n \in Int : n * S \in Int /\ (n + 1) * S = n * S + S /\ (n - 1) * S = n * S - S
    BY <1>1
<1>3. ASSUME NEW m \in Int, NEW n \in Int, m <= n PROVE m * S <= n * S
  <2>1. S * m <= S * n
      BY <1>1, <1>3, ProductGrows
  <2>2. S * m = m * S /\ S * n = n * S
      BY <1>1
  <2> QED
      BY <2>1, <2>2
<1>4. 0 * S = 0
    BY <1>1
<1> QED
    BY <1>1, <1>2, <1>3, <1>4 DEF S

\* No two samples are y rounded.
LEMMA RoundsToOne ==
    ASSUME NEW y \in Int, NEW m \in SampleMin .. SampleMax, NEW n \in SampleMin .. SampleMax,
           RoundsTo(m, y), RoundsTo(n, y)
    PROVE  m = n
<1>1. Half \in Nat \ {0} /\ SampleMin = -Half /\ SampleMax = Half - 1
    BY Sizes
<1>2. ASSUME NEW a \in SampleMin .. SampleMax, NEW b \in SampleMin .. SampleMax,
             RoundsTo(a, y), RoundsTo(b, y), a < b
      PROVE  FALSE
  <2> DEFINE S == SCALE
             A == a * S
             B == b * S
             L == SampleMin * S
             H == SampleMax * S
  <2>1. a \in Int /\ b \in Int /\ SampleMin \in Int /\ SampleMax \in Int /\ S \in Nat \ {0}
      BY <1>1, Scaling
  <2>2. A \in Int /\ B \in Int /\ L \in Int /\ H \in Int
        /\ (a + 1) * S = A + S /\ (b + 1) * S = B + S /\ (a - 1) * S = A - S /\ (b - 1) * S = B - S
      BY <2>1, Scaling
  <2>3. A + S <= B
    <3>1. a + 1 \in Int /\ a + 1 <= b
        BY <1>2, <2>1
    <3>2. (a + 1) * S <= b * S
        BY <2>1, <3>1, Scaling
    <3> QED
        BY <2>2, <3>2
  <2>4. L <= A /\ B <= H /\ H >= 0 /\ L < 0
    <3>1. SampleMin <= a /\ b <= SampleMax /\ 0 <= SampleMax /\ SampleMin <= -1
        BY <1>1, <1>2
    <3>2. L <= A /\ B <= H
        BY <2>1, <3>1, Scaling
    <3>3. 0 * S <= H
        BY <2>1, <3>1, Scaling
    <3>4. L <= (-1) * S /\ (0 - 1) * S = 0 * S - S
        BY <2>1, <3>1, Scaling
    <3> QED
        BY <2>1, <2>2, <3>2, <3>3, <3>4, Scaling
  <2>5. \/ a = SampleMax /\ y >= H
        \/ a = SampleMin /\ y <= L
        \/ y >= 0 /\ A <= y /\ y < A + S
        \/ y < 0 /\ A >= y /\ y > A - S
      BY <1>2, <2>2 DEF RoundsTo
  <2>6. \/ b = SampleMax /\ y >= H
        \/ b = SampleMin /\ y <= L
        \/ y >= 0 /\ B <= y /\ y < B + S
        \/ y < 0 /\ B >= y /\ y > B - S
      BY <1>2, <2>2 DEF RoundsTo
  <2>7. a # SampleMax /\ b # SampleMin
      BY <1>1, <1>2
  <2> HIDE DEF A, B, L, H, S
  <2> QED
      BY <2>1, <2>2, <2>3, <2>4, <2>5, <2>6, <2>7
<1>3. m \in Int /\ n \in Int
    BY <1>1
<1>4. ~ (m < n) /\ ~ (n < m)
    BY <1>2
<1> QED
    BY <1>3, <1>4

\* What the code computes is that.
LEMMA SaturatedRounds ==
    ASSUME NEW y \in Int
    PROVE  /\ Saturated(Truncated(y)) \in SampleMin .. SampleMax
           /\ Rounded(y) = Saturated(Truncated(y))
<1> DEFINE t == Truncated(y)
           n == Saturated(t)
           S == SCALE
<1>1. Half \in Nat \ {0} /\ SampleMin = -Half /\ SampleMax = Half - 1 /\ S \in Nat \ {0}
    BY Sizes
<1>2. t \in Int /\ (y >= 0 => t >= 0 /\ t * S <= y /\ y < (t + 1) * S)
               /\ (y < 0 => t <= 0 /\ t * S >= y /\ y > (t - 1) * S)
  <2>1. CASE y >= 0
    <3> DEFINE q == y \div S
    <3>1. q \in Int /\ y % S \in 0 .. S - 1 /\ y = S * q + (y % S)
        BY <1>1, Division
    <3>2. t = q
        BY <2>1 DEF Truncated
    <3> HIDE DEF q
    <3>3. S * q = q * S /\ (q + 1) * S = q * S + S /\ q * S \in Int
        BY <1>1, <3>1
    <3>4. q >= 0
      <4> SUFFICES ASSUME q <= -1 PROVE FALSE
          BY <3>1
      <4>1. S * q <= S * (-1)
          BY <1>1, <3>1, ProductGrows
      <4>2. S * (-1) = -S
          BY <1>1
      <4> QED
          BY <1>1, <2>1, <3>1, <3>3, <4>1, <4>2
    <3> QED
        BY <1>1, <2>1, <3>1, <3>2, <3>3, <3>4
  <2>2. CASE y < 0
    <3> DEFINE x == -y
               q == x \div S
    <3>1. q \in Int /\ x % S \in 0 .. S - 1 /\ x = S * q + (x % S) /\ x \in Int
        BY <1>1, Division
    <3>2. t = -q
        BY <2>2 DEF Truncated
    <3> HIDE DEF q
    <3>3. S * q \in Int /\ (-q) * S = -(S * q) /\ ((-q) - 1) * S = -(S * q) - S
        BY <1>1, <3>1
    <3>4. q >= 0
      <4> SUFFICES ASSUME q <= -1 PROVE FALSE
          BY <3>1
      <4>1. S * q <= S * (-1)
          BY <1>1, <3>1, ProductGrows
      <4>2. S * (-1) = -S
          BY <1>1
      <4> QED
          BY <1>1, <2>2, <3>1, <3>3, <4>1, <4>2
    <3> QED
        BY <1>1, <2>2, <3>1, <3>2, <3>3, <3>4
  <2> QED
      BY <2>1, <2>2
<1> HIDE DEF t
<1>3. n \in SampleMin .. SampleMax
    BY <1>1, <1>2 DEF Saturated
<1>4. RoundsTo(n, y)
  <2>1. CASE t > SampleMax
    <3>1. n = SampleMax /\ SampleMax \in Int /\ SampleMax <= t /\ t > 0
        BY <1>1, <1>2, <2>1 DEF Saturated
    <3>2. SampleMax * S <= t * S /\ SampleMax * S \in Int /\ t * S \in Int
        BY <1>2, <3>1, Scaling
    <3> QED
        BY <1>2, <3>1, <3>2 DEF RoundsTo
  <2>2. CASE t < SampleMin
    <3>1. n = SampleMin /\ SampleMin \in Int /\ t <= SampleMin /\ t < 0
        BY <1>1, <1>2, <2>2 DEF Saturated
    <3>2. t * S <= SampleMin * S /\ SampleMin * S \in Int /\ t * S \in Int
        BY <1>2, <3>1, Scaling
    <3> QED
        BY <1>2, <3>1, <3>2 DEF RoundsTo
  <2>3. CASE ~ (t > SampleMax) /\ ~ (t < SampleMin)
    <3>1. n = t
        BY <2>3 DEF Saturated
    <3> QED
        BY <1>2, <3>1 DEF RoundsTo
  <2> QED
      BY <2>1, <2>2, <2>3
<1> HIDE DEF n
<1>5. Rounded(y) = CHOOSE m \in SampleMin .. SampleMax : RoundsTo(m, y)
    BY DEF Rounded, RoundsTo
<1>6. \A m \in SampleMin .. SampleMax : RoundsTo(m, y) => m = n
    BY <1>3, <1>4, RoundsToOne
<1>7. Rounded(y) = n
    BY <1>3, <1>4, <1>5, <1>6
<1> QED
    BY <1>3, <1>7 DEF n, t

-----------------------------------------------------------------------------
(* What is iterated through a block. *)

\* The filter's state, and the meter's.
Filters == [prev_in : Int, prev_out : Int]
Meters == [sum_sq : Int, peak : Int, count : Int]

\* A recursive function is what is iterated, if anything is.
LEMMA ProcessIterates ==
    ASSUME NEW filter \in Filters, NEW block \in Seq(Int)
    PROVE  LET after == process(filter, block) IN
           /\ after \in [0 .. Len(block) -> Filters] /\ after[0] = filter
           /\ \A i \in 1 .. Len(block) : after[i] = Filtered(after[i - 1], block[i])
<1> DEFINE N == Len(block)
           g == [i \in 1 .. N |-> [x \in Filters |-> Filtered(x, block[i])]]
           Solves(f) == f = [i \in 0 .. N |-> IF i = 0 THEN filter ELSE Filtered(f[i - 1], block[i])]
<1>1. N \in Nat /\ \A i \in 1 .. N : block[i] \in Int
    OBVIOUS
<1>2. \A x \in Filters, s \in Int : Filtered(x, s) \in Filters
  <2> SUFFICES ASSUME NEW x \in Filters, NEW s \in Int PROVE Filtered(x, s) \in Filters
      OBVIOUS
  <2>1. x.prev_in \in Int /\ x.prev_out \in Int /\ SCALE \in Int
      BY Sizes DEF Filters
  <2>2. (s - x.prev_in) * SCALE + (x.prev_out \div 2) \in Int
      BY <2>1
  <2> QED
      BY <2>2 DEF Filtered, Filters
<1>3. g \in [1 .. N -> [Filters -> Filters]]
    BY <1>1, <1>2
<1>4. \A i \in 1 .. N, x \in Filters : g[i][x] = Filtered(x, block[i])
    OBVIOUS
<1> HIDE DEF g, N
<1>5. PICK f \in [0 .. N -> Filters] : Iterate(f, N, filter, g)
  <2>1. N \in Nat /\ filter \in Filters
      BY <1>1
  <2> QED
      BY <1>3, <2>1, Iterates, Zenon
<1>6. \A i \in 1 .. N : f[i] = Filtered(f[i - 1], block[i])
  <2> SUFFICES ASSUME NEW i \in 1 .. N PROVE f[i] = Filtered(f[i - 1], block[i])
      OBVIOUS
  <2>1. i - 1 \in 0 .. N
      BY <1>1
  <2> QED
      BY <1>4, <1>5, <2>1 DEF Iterate
<1>7. \A i \in 0 .. N : i # 0 => i \in 1 .. N
    BY <1>1
<1>8. Solves(f)
    BY <1>5, <1>6, <1>7 DEF Iterate
<1>9. process(filter, block) = CHOOSE h : Solves(h)
    BY DEF process, N
<1>10. Solves(process(filter, block))
    BY <1>8, <1>9
<1> DEFINE p == process(filter, block)
<1> HIDE DEF p
<1>11. /\ p = [i \in 0 .. N |-> p[i]]
       /\ \A i \in 0 .. N : p[i] = IF i = 0 THEN filter ELSE Filtered(p[i - 1], block[i])
    BY <1>10 DEF p
<1>12. p[0] = filter /\ \A i \in 1 .. N : p[i] = Filtered(p[i - 1], block[i])
    BY <1>1, <1>11
<1> DEFINE S == {i \in 0 .. N : p[i] \in Filters}
<1>13. 0 \in S
    BY <1>1, <1>12
<1>14. \A i \in 0 .. N - 1 : i \in S => i + 1 \in S
  <2> SUFFICES ASSUME NEW i \in 0 .. N - 1, p[i] \in Filters PROVE i + 1 \in S
      OBVIOUS
  <2>1. i + 1 \in 1 .. N /\ i + 1 \in 0 .. N /\ (i + 1) - 1 = i
      BY <1>1
  <2>2. p[i + 1] = Filtered(p[i], block[i + 1])
      BY <1>12, <2>1
  <2> QED
      BY <1>1, <1>2, <2>1, <2>2 DEF N
<1>15. \A i \in 0 .. N : i \in S
  <2> HIDE DEF S
  <2> QED
      BY <1>1, <1>13, <1>14, Upwards
<1>16. p \in [0 .. N -> Filters]
    BY <1>11, <1>15
<1> QED
    BY <1>12, <1>16 DEF p, N

LEMMA ExtendIterates ==
    ASSUME NEW meter \in Meters, NEW block \in Seq(Int)
    PROVE  LET after == extend(meter, block) IN
           /\ after \in [0 .. Len(block) -> Meters] /\ after[0] = meter
           /\ \A i \in 1 .. Len(block) : after[i] = LevelPush(after[i - 1], block[i])
<1> DEFINE N == Len(block)
           g == [i \in 1 .. N |-> [x \in Meters |-> LevelPush(x, block[i])]]
           Solves(f) == f = [i \in 0 .. N |-> IF i = 0 THEN meter ELSE LevelPush(f[i - 1], block[i])]
<1>1. N \in Nat /\ \A i \in 1 .. N : block[i] \in Int
    OBVIOUS
<1>2. \A x \in Meters, s \in Int : LevelPush(x, s) \in Meters
  <2> SUFFICES ASSUME NEW x \in Meters, NEW s \in Int PROVE LevelPush(x, s) \in Meters
      OBVIOUS
  <2>1. x.sum_sq \in Int /\ x.peak \in Int /\ x.count \in Int
      BY DEF Meters
  <2>2. Magnitude(s) \in Int
      BY Sizes DEF Magnitude
  <2>3. x.sum_sq + s * s \in Int /\ x.count + 1 \in Int
      BY <2>1
  <2>4. (IF Magnitude(s) > x.peak THEN Magnitude(s) ELSE x.peak) \in Int
      BY <2>1, <2>2
  <2> QED
      BY <2>3, <2>4 DEF LevelPush, Meters
<1>3. g \in [1 .. N -> [Meters -> Meters]]
    BY <1>1, <1>2
<1>4. \A i \in 1 .. N, x \in Meters : g[i][x] = LevelPush(x, block[i])
    OBVIOUS
<1> HIDE DEF g, N
<1>5. PICK f \in [0 .. N -> Meters] : Iterate(f, N, meter, g)
  <2>1. N \in Nat /\ meter \in Meters
      BY <1>1
  <2> QED
      BY <1>3, <2>1, Iterates, Zenon
<1>6. \A i \in 1 .. N : f[i] = LevelPush(f[i - 1], block[i])
  <2> SUFFICES ASSUME NEW i \in 1 .. N PROVE f[i] = LevelPush(f[i - 1], block[i])
      OBVIOUS
  <2>1. i - 1 \in 0 .. N
      BY <1>1
  <2> QED
      BY <1>4, <1>5, <2>1 DEF Iterate
<1>7. \A i \in 0 .. N : i # 0 => i \in 1 .. N
    BY <1>1
<1>8. Solves(f)
    BY <1>5, <1>6, <1>7 DEF Iterate
<1>9. extend(meter, block) = CHOOSE h : Solves(h)
    BY DEF extend, N
<1>10. Solves(extend(meter, block))
    BY <1>8, <1>9
<1> DEFINE p == extend(meter, block)
<1> HIDE DEF p
<1>11. /\ p = [i \in 0 .. N |-> p[i]]
       /\ \A i \in 0 .. N : p[i] = IF i = 0 THEN meter ELSE LevelPush(p[i - 1], block[i])
    BY <1>10 DEF p
<1>12. p[0] = meter /\ \A i \in 1 .. N : p[i] = LevelPush(p[i - 1], block[i])
    BY <1>1, <1>11
<1> DEFINE S == {i \in 0 .. N : p[i] \in Meters}
<1>13. 0 \in S
    BY <1>1, <1>12
<1>14. \A i \in 0 .. N - 1 : i \in S => i + 1 \in S
  <2> SUFFICES ASSUME NEW i \in 0 .. N - 1, p[i] \in Meters PROVE i + 1 \in S
      OBVIOUS
  <2>1. i + 1 \in 1 .. N /\ i + 1 \in 0 .. N /\ (i + 1) - 1 = i
      BY <1>1
  <2>2. p[i + 1] = LevelPush(p[i], block[i + 1])
      BY <1>12, <2>1
  <2> QED
      BY <1>1, <1>2, <2>1, <2>2 DEF N
<1>15. \A i \in 0 .. N : i \in S
  <2> HIDE DEF S
  <2> QED
      BY <1>1, <1>13, <1>14, Upwards
<1>16. p \in [0 .. N -> Meters]
    BY <1>11, <1>15
<1> QED
    BY <1>12, <1>16 DEF p, N

-----------------------------------------------------------------------------
\* Sums: what a sequence of terms adds up to, term by term.

AddsUp(f, N, terms) == f[0] = 0 /\ \A i \in 1 .. N : f[i] = f[i - 1] + terms[i]

LEMMA SumExists ==
    ASSUME NEW terms \in Seq(Int)
    PROVE  \E f \in [0 .. Len(terms) -> Int] : AddsUp(f, Len(terms), terms)
<1> DEFINE N == Len(terms)
           g == [i \in 1 .. N |-> [x \in Int |-> x + terms[i]]]
<1>1. N \in Nat /\ \A i \in 1 .. N : terms[i] \in Int
    OBVIOUS
<1>2. g \in [1 .. N -> [Int -> Int]]
    BY <1>1
<1>3. \A i \in 1 .. N, x \in Int : g[i][x] = x + terms[i]
    OBVIOUS
<1> HIDE DEF g, N
<1>4. PICK f \in [0 .. N -> Int] : Iterate(f, N, 0, g)
  <2>1. N \in Nat /\ 0 \in Int
      BY <1>1
  <2> QED
      BY <1>2, <2>1, Iterates, Zenon
<1>5. \A i \in 1 .. N : f[i] = f[i - 1] + terms[i]
  <2> SUFFICES ASSUME NEW i \in 1 .. N PROVE f[i] = f[i - 1] + terms[i]
      OBVIOUS
  <2>1. i - 1 \in 0 .. N
      BY <1>1
  <2>2. f[i - 1] \in Int
      BY <2>1
  <2> QED
      BY <1>3, <1>4, <2>2 DEF Iterate
<1> QED
    BY <1>4, <1>5 DEF N, Iterate, AddsUp

\* There is only one such sum.
LEMMA SumIsOne ==
    ASSUME NEW N \in Nat, NEW a, NEW b, NEW c, AddsUp(a, N, c), AddsUp(b, N, c)
    PROVE  \A i \in 0 .. N : a[i] = b[i]
<1> DEFINE S == {i \in 0 .. N : a[i] = b[i]}
<1>1. 0 \in S
    BY DEF AddsUp
<1>2. \A i \in 0 .. N - 1 : i \in S => i + 1 \in S
  <2> SUFFICES ASSUME NEW i \in 0 .. N - 1, a[i] = b[i] PROVE i + 1 \in S
      OBVIOUS
  <2>1. i + 1 \in 1 .. N /\ i + 1 \in 0 .. N /\ (i + 1) - 1 = i
      OBVIOUS
  <2>2. a[i + 1] = a[i] + c[i + 1] /\ b[i + 1] = b[i] + c[i + 1]
      BY <2>1 DEF AddsUp
  <2> QED
      BY <2>1, <2>2
<1>3. \A i \in 0 .. N : i \in S
  <2> HIDE DEF S
  <2> QED
      BY <1>1, <1>2, Upwards
<1> QED
    BY <1>3

-----------------------------------------------------------------------------
(* The reference's response. *)

\* The input of the filter that heard the frames h of a side, from sample to sample.
InputAt(side, h, j) == IF j = 0 THEN 0 ELSE Heard(side, h[j]) \div Shift
Rise(side, h, j) == InputAt(side, h, j) - InputAt(side, h, j - 1)

\* f adds up what is left of the first rises by sample i.
Answers(f, side, h, i) ==
  /\ f[0] = 0
  /\ \A j \in 1 .. i : f[j] = f[j - 1] + Rise(side, h, j) * 2 ^ (MaxFed - (i - j))

\* The reference, for any frames.
ResponseTo(side, h, i) ==
  LET sum[j \in 0 .. i] ==
        IF j = 0 THEN 0 ELSE sum[j - 1] + Rise(side, h, j) * 2 ^ (MaxFed - (i - j))
  IN  sum

LEMMA ResponseIs ==
    ASSUME NEW i
    PROVE  Response(i) = ResponseTo(slot, heard, i)[i]
<1> QED
    BY DEF Response, ResponseTo, Rise, InputAt, Top, Shift

LEMMA RisesAreWhole ==
    ASSUME NEW side \in {"Left", "Right"}, NEW h \in Seq(Nat), NEW j \in 1 .. Len(h)
    PROVE  /\ Rise(side, h, j) \in Int /\ InputAt(side, h, j) \in SampleMin .. SampleMax
           /\ InputAt(side, h, j - 1) \in Int
<1>1. \A m \in 1 .. Len(h) : InputAt(side, h, m) \in SampleMin .. SampleMax
  <2> SUFFICES ASSUME NEW m \in 1 .. Len(h) PROVE InputAt(side, h, m) \in SampleMin .. SampleMax
      OBVIOUS
  <2>1. h[m] \in Nat /\ m # 0
      OBVIOUS
  <2>2. Heard(side, h[m]) \in -(Half * Shift) .. Half * Shift - 1
      BY <2>1, HeardInWidth
  <2> QED
      BY <2>1, <2>2, TopInRange DEF InputAt
<1>2. SampleMin \in Int /\ SampleMax \in Int
    BY Sizes
<1>3. InputAt(side, h, j - 1) \in Int
  <2>1. CASE j = 1
      BY <2>1 DEF InputAt
  <2>2. CASE j # 1
    <3>1. j - 1 \in 1 .. Len(h)
        BY <2>2
    <3> QED
        BY <1>1, <1>2, <3>1
  <2> QED
      BY <2>1, <2>2
<1> QED
    BY <1>1, <1>2, <1>3 DEF Rise

LEMMA ResponseAdds ==
    ASSUME NEW side \in {"Left", "Right"}, NEW h \in Seq(Nat),
           NEW i \in 0 .. Len(h), i <= MaxFed
    PROVE  /\ ResponseTo(side, h, i) \in [0 .. i -> Int]
           /\ Answers(ResponseTo(side, h, i), side, h, i)
<1> DEFINE term(j) == Rise(side, h, j) * 2 ^ (MaxFed - (i - j))
           terms == [j \in 1 .. i |-> term(j)]
           Solves(f) == f = [j \in 0 .. i |-> IF j = 0 THEN 0 ELSE f[j - 1] + term(j)]
<1>1. i \in Nat /\ MaxFed \in Nat
    BY MicSamplesAssumption
<1>2. ASSUME NEW j \in 1 .. i PROVE term(j) \in Int
  <2>1. MaxFed - (i - j) \in Nat /\ j \in 1 .. Len(h)
      BY <1>1
  <2>2. 2 ^ (MaxFed - (i - j)) \in Nat
      BY <2>1, PowerIsNatural
  <2>3. Rise(side, h, j) \in Int
      BY <2>1, RisesAreWhole
  <2> QED
      BY <2>2, <2>3
<1>3. terms \in Seq(Int) /\ Len(terms) = i /\ \A j \in 1 .. i : terms[j] = term(j)
    BY <1>1, <1>2
<1>4. ResponseTo(side, h, i) = CHOOSE f : Solves(f)
    BY DEF ResponseTo
<1> HIDE DEF terms, term
<1>5. PICK f \in [0 .. i -> Int] : AddsUp(f, i, terms)
    BY <1>3, SumExists
<1> USE DEF AddsUp
<1>6. \A j \in 0 .. i : f[j] = IF j = 0 THEN 0 ELSE f[j - 1] + term(j)
  <2> SUFFICES ASSUME NEW j \in 0 .. i PROVE f[j] = IF j = 0 THEN 0 ELSE f[j - 1] + term(j)
      OBVIOUS
  <2>1. CASE j = 0
      BY <1>5, <2>1
  <2>2. CASE j # 0
    <3>1. j \in 1 .. i
        BY <1>1, <2>2
    <3> QED
        BY <1>3, <1>5, <2>2, <3>1
  <2> QED
      BY <2>1, <2>2
<1>7. Solves(f)
    BY <1>5, <1>6
<1> DEFINE p == ResponseTo(side, h, i)
<1> HIDE DEF p
<1>8. Solves(p)
    BY <1>4, <1>7 DEF p
<1>9. p[0] = 0 /\ \A j \in 1 .. i : p[j] = p[j - 1] + term(j)
    BY <1>1, <1>8
<1>10. \A j \in 1 .. i : p[j] = p[j - 1] + terms[j]
    BY <1>3, <1>9
<1>11. \A j \in 0 .. i : p[j] = f[j]
  <2>1. AddsUp(p, i, terms) /\ AddsUp(f, i, terms)
      BY <1>5, <1>9, <1>10
  <2> HIDE DEF AddsUp
  <2> QED
      BY <1>1, <2>1, SumIsOne
<1>12. p \in [0 .. i -> Int]
    BY <1>5, <1>8, <1>11
<1> QED
    BY <1>9, <1>12 DEF Answers, p, term

\* A sample later, everything has faded by half, and what rose last is added.
LEMMA Fades ==
    ASSUME NEW side \in {"Left", "Right"}, NEW h \in Seq(Nat),
           NEW i \in 0 .. Len(h) - 1, i + 1 <= MaxFed
    PROVE  ResponseTo(side, h, i + 1)[i + 1]
             = Rise(side, h, i + 1) * SCALE + (ResponseTo(side, h, i)[i] \div 2)
<1> DEFINE p == ResponseTo(side, h, i)
           q == ResponseTo(side, h, i + 1)
           S == {j \in 0 .. i : p[j] = 2 * q[j]}
<1>1. i \in Nat /\ MaxFed \in Nat /\ i + 1 \in 0 .. Len(h) /\ i \in 0 .. Len(h) /\ i <= MaxFed
    BY MicSamplesAssumption
<1>2. p \in [0 .. i -> Int] /\ Answers(p, side, h, i)
    BY <1>1, ResponseAdds
<1>3. q \in [0 .. i + 1 -> Int] /\ Answers(q, side, h, i + 1)
    BY <1>1, ResponseAdds
<1> HIDE DEF p, q
<1>4. 0 \in S
    BY <1>1, <1>2, <1>3 DEF Answers
<1>5. \A j \in 0 .. i - 1 : j \in S => j + 1 \in S
  <2> SUFFICES ASSUME NEW j \in 0 .. i - 1, p[j] = 2 * q[j] PROVE j + 1 \in S
      OBVIOUS
  <2> DEFINE k == j + 1
             e == MaxFed - ((i + 1) - k)
             r == Rise(side, h, k)
             t == 2 ^ e
  <2>1. k \in 1 .. i /\ k \in 1 .. i + 1 /\ k - 1 = j /\ k \in 0 .. i /\ k \in 0 .. i + 1 /\ k \in 1 .. Len(h)
        /\ j \in 0 .. i + 1
      BY <1>1
  <2>2. e \in Nat /\ MaxFed - (i - k) = e + 1
      BY <1>1, <2>1
  <2>3. r \in Int
      BY <2>1, RisesAreWhole
  <2> HIDE DEF e, r, k
  <2>4. t \in Nat /\ 2 ^ (e + 1) = 2 * t
      BY <2>2, PowerIsNatural, PowerDoubles
  <2> HIDE DEF t
  <2>5. p[k] = p[j] + r * (2 * t)
    <3>1. p[k] = p[k - 1] + Rise(side, h, k) * 2 ^ (MaxFed - (i - k))
        BY <1>2, <2>1 DEF Answers
    <3> QED
        BY <2>1, <2>2, <2>4, <3>1 DEF r
  <2>6. q[k] = q[j] + r * t
    <3>1. q[k] = q[k - 1] + Rise(side, h, k) * 2 ^ (MaxFed - ((i + 1) - k))
        BY <1>3, <2>1 DEF Answers
    <3> QED
        BY <2>1, <3>1 DEF r, t, e
  <2>7. q[j] \in Int /\ r * t \in Int /\ r * (2 * t) = 2 * (r * t)
      BY <1>3, <2>1, <2>3, <2>4
  <2>8. p[k] = 2 * q[k]
      BY <2>5, <2>6, <2>7
  <2> QED
      BY <2>1, <2>8 DEF k
<1>6. i \in S
  <2> HIDE DEF S
  <2>1. \A j \in 0 .. i : j \in S
      BY <1>1, <1>4, <1>5, Upwards
  <2> QED
      BY <1>1, <2>1
<1>7. p[i] = 2 * q[i] /\ q[i] \in Int
    BY <1>1, <1>3, <1>6
<1>8. p[i] \div 2 = q[i]
    BY <1>7
<1>9. q[i + 1] = q[i] + Rise(side, h, i + 1) * SCALE
  <2>1. i + 1 \in 1 .. i + 1 /\ (i + 1) - 1 = i /\ MaxFed - ((i + 1) - (i + 1)) = MaxFed
      BY <1>1
  <2>2. q[i + 1] = q[(i + 1) - 1] + Rise(side, h, i + 1) * 2 ^ (MaxFed - ((i + 1) - (i + 1)))
      BY <1>3, <2>1 DEF Answers
  <2> QED
      BY <2>1, <2>2 DEF SCALE
<1>10. Rise(side, h, i + 1) * SCALE \in Int
  <2>1. i + 1 \in 1 .. Len(h)
      BY <1>1
  <2>2. Rise(side, h, i + 1) \in Int
      BY <2>1, RisesAreWhole
  <2> QED
      BY <2>2, Sizes
<1> QED
    BY <1>7, <1>8, <1>9, <1>10 DEF p, q

\* What has been heard later makes no difference.
LEMMA SameResponse ==
    ASSUME NEW side \in {"Left", "Right"}, NEW h \in Seq(Nat), NEW g \in Seq(Nat),
           NEW i \in 0 .. Len(h), i <= Len(g), i <= MaxFed,
           \A j \in 1 .. i : h[j] = g[j]
    PROVE  ResponseTo(side, h, i)[i] = ResponseTo(side, g, i)[i]
<1> DEFINE p == ResponseTo(side, h, i)
           q == ResponseTo(side, g, i)
           c == [j \in 1 .. i |-> Rise(side, h, j) * 2 ^ (MaxFed - (i - j))]
<1>1. i \in Nat /\ i \in 0 .. i /\ i \in 0 .. Len(g)
    OBVIOUS
<1>2. Answers(p, side, h, i) /\ Answers(q, side, g, i)
    BY <1>1, ResponseAdds
<1>3. \A j \in 1 .. i : Rise(side, h, j) = Rise(side, g, j)
  <2> SUFFICES ASSUME NEW j \in 1 .. i PROVE Rise(side, h, j) = Rise(side, g, j)
      OBVIOUS
  <2>1. InputAt(side, h, j) = InputAt(side, g, j)
      BY DEF InputAt
  <2>2. InputAt(side, h, j - 1) = InputAt(side, g, j - 1)
    <3>1. CASE j = 1
        BY <3>1 DEF InputAt
    <3>2. CASE j # 1
      <4>1. j - 1 \in 1 .. i
          BY <3>2
      <4> QED
          BY <4>1 DEF InputAt
    <3> QED
        BY <3>1, <3>2
  <2> QED
      BY <2>1, <2>2 DEF Rise
<1> HIDE DEF p, q
<1>4. AddsUp(p, i, c)
    BY <1>2 DEF Answers, AddsUp
<1>5. AddsUp(q, i, c)
    BY <1>2, <1>3 DEF Answers, AddsUp
<1> HIDE DEF c
<1>6. p[i] = q[i]
    BY <1>1, <1>4, <1>5, SumIsOne
<1> QED
    BY <1>6 DEF p, q

-----------------------------------------------------------------------------
(* The filter follows the reference. *)

\* The filter has the last input, and its output is the reference's.
Follows(filter, side, h) ==
  /\ filter.prev_in = InputAt(side, h, Len(h))
  /\ filter.prev_out = ResponseTo(side, h, Len(h))[Len(h)]

LEMMA FreshFollows ==
    ASSUME NEW side \in {"Left", "Right"}
    PROVE  NewDcBlocker \in Filters /\ Follows(NewDcBlocker, side, <<>>)
<1>1. NewDcBlocker \in Filters /\ NewDcBlocker.prev_in = 0 /\ NewDcBlocker.prev_out = 0
    BY DEF NewDcBlocker, Filters
<1>2. <<>> \in Seq(Nat) /\ Len(<<>>) = 0 /\ 0 \in 0 .. Len(<<>>) /\ 0 <= MaxFed
    BY MicSamplesAssumption
<1>3. Answers(ResponseTo(side, <<>>, 0), side, <<>>, 0)
    BY <1>2, ResponseAdds
<1>4. ResponseTo(side, <<>>, 0)[0] = 0 /\ InputAt(side, <<>>, 0) = 0
    BY <1>3 DEF Answers, InputAt
<1> QED
    BY <1>1, <1>2, <1>4 DEF Follows

\* Through a block, the filter goes on following.
LEMMA ProcessFollows ==
    ASSUME NEW side \in {"Left", "Right"}, NEW h \in Seq(Nat), NEW more \in Seq(Nat),
           NEW block \in Seq(Int), Len(block) = Len(more), Len(h) + Len(more) <= MaxFed,
           \A i \in 1 .. Len(more) : block[i] = Heard(side, more[i]) \div Shift,
           NEW filter \in Filters, Follows(filter, side, h)
    PROVE  /\ \A i \in 0 .. Len(block) :
                /\ process(filter, block)[i] \in Filters
                /\ process(filter, block)[i].prev_out
                     = ResponseTo(side, h \o more, Len(h) + i)[Len(h) + i]
           /\ Follows(process(filter, block)[Len(block)], side, h \o more)
<1> DEFINE N == Len(block)
           L == Len(h)
           g == h \o more
           p == process(filter, block)
           S == {i \in 0 .. N : /\ p[i].prev_in = InputAt(side, g, L + i)
                                /\ p[i].prev_out = ResponseTo(side, g, L + i)[L + i]}
<1>1. /\ N \in Nat /\ L \in Nat /\ g \in Seq(Nat) /\ Len(g) = L + N
      /\ \A i \in 1 .. L : g[i] = h[i]
      /\ \A i \in 1 .. N : g[L + i] = more[i]
      /\ L + N <= MaxFed /\ MaxFed \in Nat
    BY MicSamplesAssumption
<1>2. /\ p \in [0 .. N -> Filters] /\ p[0] = filter
      /\ \A i \in 1 .. N : p[i] = Filtered(p[i - 1], block[i])
    BY ProcessIterates
<1>3. \A i \in 1 .. N : block[i] = InputAt(side, g, L + i)
    BY <1>1 DEF InputAt
<1> HIDE DEF p
<1>4. 0 \in S
  <2>1. InputAt(side, g, L) = InputAt(side, h, L)
    <3>1. CASE L = 0
        BY <3>1 DEF InputAt
    <3>2. CASE L # 0
      <4>1. L \in 1 .. L
          BY <1>1, <3>2
      <4>2. g[L] = h[L]
          BY <1>1, <4>1
      <4> QED
          BY <4>2 DEF InputAt
    <3> QED
        BY <3>1, <3>2
  <2>2. ResponseTo(side, g, L)[L] = ResponseTo(side, h, L)[L]
    <3>1. L \in 0 .. Len(g) /\ L <= Len(h) /\ L <= MaxFed
        BY <1>1
    <3> HIDE DEF g, L
    <3> QED
        BY <1>1, <3>1, SameResponse
  <2>3. L + 0 = L /\ 0 \in 0 .. N
      BY <1>1
  <2> HIDE DEF g
  <2> QED
      BY <1>2, <2>1, <2>2, <2>3 DEF Follows
<1> HIDE DEF g, N, L
<1>5. \A i \in 0 .. N - 1 : i \in S => i + 1 \in S
  <2> SUFFICES ASSUME NEW i \in 0 .. N - 1,
                      p[i].prev_in = InputAt(side, g, L + i),
                      p[i].prev_out = ResponseTo(side, g, L + i)[L + i]
               PROVE  i + 1 \in S
      OBVIOUS
  <2> DEFINE m == L + i
  <2>1. i + 1 \in 1 .. N /\ i + 1 \in 0 .. N /\ (i + 1) - 1 = i /\ i \in 0 .. N
    <3>1. N \in Nat
        BY <1>1
    <3> QED
        BY <3>1
  <2>2. m \in 0 .. Len(g) - 1 /\ m + 1 <= MaxFed /\ L + (i + 1) = m + 1 /\ (m + 1) - 1 = m
      BY <1>1
  <2>3. p[i + 1] = Filtered(p[i], block[i + 1]) /\ block[i + 1] = InputAt(side, g, L + (i + 1))
      BY <1>2, <1>3, <2>1
  <2>4. p[i + 1].prev_in = InputAt(side, g, L + (i + 1))
      BY <2>3 DEF Filtered
  <2>5. p[i + 1].prev_out
          = (InputAt(side, g, m + 1) - InputAt(side, g, m)) * SCALE + (ResponseTo(side, g, m)[m] \div 2)
      BY <2>2, <2>3 DEF Filtered
  <2> HIDE DEF m
  <2>6. p[i + 1].prev_out = Rise(side, g, m + 1) * SCALE + (ResponseTo(side, g, m)[m] \div 2)
      BY <2>2, <2>5 DEF Rise
  <2>7. ResponseTo(side, g, m + 1)[m + 1] = p[i + 1].prev_out
      BY <1>1, <2>2, <2>6, Fades
  <2> QED
      BY <2>1, <2>2, <2>4, <2>7
<1>6. \A i \in 0 .. N : i \in S
  <2> HIDE DEF S
  <2> QED
      BY <1>1, <1>4, <1>5, Upwards
<1>7. N \in 0 .. N /\ Len(g) = L + N
    BY <1>1
<1>8. Follows(p[N], side, g)
    BY <1>6, <1>7 DEF Follows
<1> QED
    BY <1>2, <1>6, <1>8 DEF p, g, N, L

-----------------------------------------------------------------------------
(* The meter. *)

SquareSum(block) ==
  LET sum[i \in 0 .. Len(block)] == IF i = 0 THEN 0 ELSE sum[i - 1] + block[i] * block[i]
  IN  sum

LEMMA SquaresAdd ==
    ASSUME NEW block \in Seq(Int)
    PROVE  /\ SquareSum(block) \in [0 .. Len(block) -> Int]
           /\ AddsUp(SquareSum(block), Len(block), [i \in 1 .. Len(block) |-> block[i] * block[i]])
           /\ Power(block) = SquareSum(block)[Len(block)]
<1> DEFINE N == Len(block)
           terms == [i \in 1 .. N |-> block[i] * block[i]]
           Solves(f) == f = [i \in 0 .. N |-> IF i = 0 THEN 0 ELSE f[i - 1] + block[i] * block[i]]
           p == SquareSum(block)
<1>1. N \in Nat /\ \A i \in 1 .. N : block[i] \in Int /\ block[i] * block[i] \in Int
  <2>1. \A i \in 1 .. N : block[i] \in Int
      OBVIOUS
  <2>2. \A x \in Int : x * x \in Int
      OBVIOUS
  <2> QED
      BY <2>1, <2>2
<1>2. terms \in Seq(Int) /\ Len(terms) = N /\ \A i \in 1 .. N : terms[i] = block[i] * block[i]
    BY <1>1
<1>3. p = CHOOSE f : Solves(f)
    BY DEF SquareSum
<1>4. Power(block) = p[N]
    BY DEF Power, SquareSum
<1> HIDE DEF terms, N, p
<1>5. PICK f \in [0 .. N -> Int] : AddsUp(f, N, terms)
    BY <1>2, SumExists
<1>6. \A i \in 0 .. N : f[i] = IF i = 0 THEN 0 ELSE f[i - 1] + block[i] * block[i]
  <2> SUFFICES ASSUME NEW i \in 0 .. N
               PROVE  f[i] = IF i = 0 THEN 0 ELSE f[i - 1] + block[i] * block[i]
      OBVIOUS
  <2>1. CASE i = 0
      BY <1>5, <2>1 DEF AddsUp
  <2>2. CASE i # 0
    <3>1. i \in 1 .. N
        BY <1>1, <2>2
    <3> QED
        BY <1>2, <1>5, <2>2, <3>1 DEF AddsUp
  <2> QED
      BY <2>1, <2>2
<1>7. Solves(f)
    BY <1>5, <1>6
<1>8. Solves(p)
    BY <1>3, <1>7
<1>9. p[0] = 0 /\ \A i \in 1 .. N : p[i] = p[i - 1] + block[i] * block[i]
    BY <1>1, <1>8
<1>10. AddsUp(p, N, terms)
    BY <1>2, <1>9 DEF AddsUp
<1>11. \A i \in 0 .. N : p[i] = f[i]
    BY <1>1, <1>5, <1>10, SumIsOne
<1>12. p \in [0 .. N -> Int]
    BY <1>5, <1>8, <1>11
<1> QED
    BY <1>4, <1>10, <1>12 DEF p, N, terms

\* What the meter has after some samples.
Metered(meter, block, n) ==
  /\ meter.count = n
  /\ meter.sum_sq = SquareSum(block)[n]
  /\ meter.peak \in Nat
  /\ \A i \in 1 .. n : Magnitude(block[i]) <= meter.peak
  /\ meter.peak # 0 => \E i \in 1 .. n : Magnitude(block[i]) = meter.peak

LEMMA ExtendMeters ==
    ASSUME NEW window1 \in Seq(Int), NEW block \in Seq(Int), NEW meter \in Meters,
           Metered(meter, window1, Len(window1))
    PROVE  LET all == window1 \o block
               after == extend(meter, block)[Len(block)]
           IN  after \in Meters /\ Metered(after, all, Len(all))
<1> DEFINE W == Len(window1)
           N == Len(block)
           all == window1 \o block
           p == extend(meter, block)
           q == SquareSum(all)
           S == {i \in 0 .. N : Metered(p[i], all, W + i)}
<1>1. /\ W \in Nat /\ N \in Nat /\ all \in Seq(Int) /\ Len(all) = W + N
      /\ \A i \in 1 .. W : all[i] = window1[i]
      /\ \A i \in 1 .. N : all[W + i] = block[i]
    OBVIOUS
<1>2. /\ p \in [0 .. N -> Meters] /\ p[0] = meter
      /\ \A i \in 1 .. N : p[i] = LevelPush(p[i - 1], block[i])
    BY ExtendIterates
<1>3. \A i \in 1 .. N : block[i] \in Int
    OBVIOUS
<1> HIDE DEF p, all, N
<1>4. q \in [0 .. W + N -> Int] /\ q[0] = 0 /\ \A i \in 1 .. W + N : q[i] = q[i - 1] + all[i] * all[i]
  <2>1. AddsUp(q, Len(all), [i \in 1 .. Len(all) |-> all[i] * all[i]]) /\ q \in [0 .. Len(all) -> Int]
      BY <1>1, SquaresAdd
  <2> QED
      BY <1>1, <2>1 DEF AddsUp
<1> HIDE DEF q, W
<1>5. q[W] = SquareSum(window1)[W]
  <2> DEFINE c == [i \in 1 .. W |-> window1[i] * window1[i]]
             r == SquareSum(window1)
  <2>1. AddsUp(r, W, c)
      BY SquaresAdd DEF W
  <2>2. AddsUp(q, W, c)
    <3>1. \A i \in 1 .. W : i \in 1 .. W + N
        BY <1>1
    <3> QED
        BY <1>1, <1>4, <3>1 DEF AddsUp
  <2> HIDE DEF c, r
  <2>3. \A i \in 0 .. W : q[i] = r[i]
      BY <1>1, <2>1, <2>2, SumIsOne
  <2>4. W \in 0 .. W
      BY <1>1
  <2> QED
      BY <2>3, <2>4 DEF r
<1>6. 0 \in S
  <2>1. W + 0 = W /\ 0 \in 0 .. N
      BY <1>1
  <2>2. Metered(meter, window1, W)
      BY DEF W
  <2>3. Metered(p[0], all, W)
      BY <1>1, <1>2, <1>5, <2>2 DEF Metered, q
  <2> QED
      BY <2>1, <2>3
<1>7. \A i \in 0 .. N - 1 : i \in S => i + 1 \in S
  <2> SUFFICES ASSUME NEW i \in 0 .. N - 1, Metered(p[i], all, W + i)
               PROVE  i + 1 \in S
      OBVIOUS
  <2> DEFINE x == p[i]
             s == block[i + 1]
             m == W + i
             y == p[i + 1]
             M == Magnitude(s)
  <2>1. i + 1 \in 1 .. N /\ i + 1 \in 0 .. N /\ (i + 1) - 1 = i /\ i \in 0 .. N
      BY <1>1
  <2>2. m \in Nat /\ W + (i + 1) = m + 1 /\ m + 1 \in 1 .. W + N /\ (m + 1) - 1 = m
      BY <1>1
  <2>3. y = LevelPush(x, s) /\ all[m + 1] = s /\ s \in Int
      BY <1>1, <1>2, <1>3, <2>1, <2>2
  <2>4. M \in Nat
    <3>1. M = IF s = SampleMin THEN SampleMax ELSE IF s < 0 THEN -s ELSE s
        BY DEF Magnitude
    <3>2. SampleMax \in Nat /\ s \in Int
        BY <2>3, Sizes
    <3> HIDE DEF M, s
    <3>3. CASE s = SampleMin
        BY <3>1, <3>2, <3>3
    <3>4. CASE s # SampleMin
        BY <3>1, <3>2, <3>4
    <3> QED
        BY <3>3, <3>4
  <2>5. x.count = m /\ x.sum_sq = q[m] /\ x.peak \in Nat
        /\ (\A j \in 1 .. m : Magnitude(all[j]) <= x.peak)
        /\ (x.peak # 0 => \E j \in 1 .. m : Magnitude(all[j]) = x.peak)
      BY DEF Metered, q
  <2> HIDE DEF x, s, y, M, m
  <2>6. /\ y.count = m + 1 /\ y.sum_sq = q[m] + s * s
        /\ y.peak = IF M > x.peak THEN M ELSE x.peak
      BY <2>3, <2>5 DEF LevelPush, M
  <2>7. y.sum_sq = q[m + 1]
      BY <1>4, <2>2, <2>3, <2>6
  <2>8. y.peak \in Nat /\ x.peak <= y.peak /\ M <= y.peak
      BY <2>4, <2>5, <2>6
  <2>9. \A j \in 1 .. m + 1 : j \in 1 .. m \/ j = m + 1
      BY <2>2
  <2>10. Magnitude(all[m + 1]) = M
      BY <2>3 DEF M
  <2>11. \A j \in 1 .. m + 1 : Magnitude(all[j]) <= y.peak
    <3> SUFFICES ASSUME NEW j \in 1 .. m + 1 PROVE Magnitude(all[j]) <= y.peak
        OBVIOUS
    <3>1. CASE j = m + 1
        BY <2>8, <2>10, <3>1
    <3>2. CASE j \in 1 .. m
      <4>1. Magnitude(all[j]) <= x.peak
          BY <2>5, <3>2
      <4>2. j \in 1 .. W + N
        <5>1. m \in Nat /\ m + 1 <= W + N /\ W \in Nat /\ N \in Nat
            BY <1>1, <2>2
        <5> QED
            BY <3>2, <5>1
      <4>3. all[j] \in Int
          BY <1>1, <4>2
      <4>4. Magnitude(all[j]) \in Int
          BY <4>3, Sizes DEF Magnitude
      <4> QED
          BY <2>5, <2>8, <4>1, <4>4
    <3> QED
        BY <2>9, <3>1, <3>2
  <2>12. y.peak # 0 => \E j \in 1 .. m + 1 : Magnitude(all[j]) = y.peak
    <3>1. CASE M > x.peak
      <4>1. m + 1 \in 1 .. m + 1
          BY <2>2
      <4> QED
          BY <2>6, <2>10, <3>1, <4>1
    <3>2. CASE ~ (M > x.peak)
      <4>1. y.peak = x.peak
          BY <2>6, <3>2
      <4>2. \A j \in 1 .. m : j \in 1 .. m + 1
          BY <2>2
      <4> QED
          BY <2>5, <4>1, <4>2
    <3> QED
        BY <3>1, <3>2
  <2>13. Metered(y, all, m + 1)
      BY <2>6, <2>7, <2>8, <2>11, <2>12 DEF Metered, q
  <2> QED
      BY <2>1, <2>2, <2>13 DEF y
<1>8. \A i \in 0 .. N : i \in S
  <2> HIDE DEF S
  <2> QED
      BY <1>1, <1>6, <1>7, Upwards
<1>9. N \in 0 .. N
    BY <1>1
<1> QED
    BY <1>1, <1>2, <1>8, <1>9 DEF p, all, N

\* The meter has nothing yet.
LEMMA NothingMetered == NewLevel \in Meters /\ Metered(NewLevel, <<>>, Len(<<>>))
<1>1. NewLevel \in Meters /\ NewLevel.count = 0 /\ NewLevel.sum_sq = 0 /\ NewLevel.peak = 0
    BY DEF NewLevel, Meters
<1>2. <<>> \in Seq(Int) /\ Len(<<>>) = 0 /\ 1 .. 0 = {}
    OBVIOUS
<1>3. SquareSum(<<>>)[0] = 0
    BY <1>2, SquaresAdd DEF AddsUp
<1> QED
    BY <1>1, <1>2, <1>3 DEF Metered

-----------------------------------------------------------------------------
(* The inductive invariant. *)

\* The program's data.  The block in hand is what the property says of it, and the
\* filter and the meter have followed their histories.

Data ==
  /\ slot \in {"Left", "Right"}
  /\ samples \in Seq(Int) /\ window \in Seq(Int)
  /\ heard \in Seq(Nat) /\ Len(heard) <= MaxFed
  /\ dc \in Filters /\ level \in Meters

Raw ==
  stage = "raw" =>
    samples = [i \in 1 .. call.bytes \div FRAME_BYTES |-> Top((call.from \div FRAME_BYTES) + i - 1)]

Answered ==
  stage = "filtered" =>
    \A i \in DOMAIN samples : samples[i] = Rounded(Response(Len(heard) - Len(samples) + i))

SamplesIInv ==
  /\ IInv
  /\ Data
  /\ Raw
  /\ Answered
  /\ Follows(dc, slot, heard)
  /\ Metered(level, window, Len(window))

LEMMA SamplesInitIInv == SamplesInit => SamplesIInv
<1> SUFFICES ASSUME SamplesInit PROVE SamplesIInv
    OBVIOUS
<1>1. IInv
    BY InitIInv DEF SamplesInit
<1>2. slot \in {"Left", "Right"}
  <2>1. DOMAIN Sound = {"Left", "Right"}
      BY Sizes
  <2> QED
      BY <2>1 DEF SamplesInit
<1>3. Follows(dc, slot, heard) /\ dc \in Filters
    BY <1>2, FreshFollows DEF SamplesInit
<1>4. Metered(level, window, Len(window)) /\ level \in Meters
    BY NothingMetered DEF SamplesInit
<1>5. Data
  <2>1. <<>> \in Seq(Int) /\ <<>> \in Seq(Nat) /\ Len(<<>>) <= MaxFed
      BY MicSamplesAssumption
  <2> QED
      BY <1>2, <1>3, <1>4, <2>1 DEF Data, SamplesInit
<1>6. Raw /\ Answered
    BY DEF Raw, Answered, SamplesInit
<1> QED
    BY <1>1, <1>3, <1>4, <1>5, <1>6 DEF SamplesIInv

\* Every step is one of the recording's or leaves it alone.
LEMMA SamplesStep == [SamplesNext]_sample_vars => [Next]_vars
<1>1. SamplesNext => [Next]_vars
    BY DEF SamplesNext, Next, AskSamples, ReadSamples, Process, Extend, TakeLevel, ResetFilter
<1>2. UNCHANGED sample_vars => UNCHANGED vars
    BY DEF sample_vars
<1> QED
    BY <1>1, <1>2

\* What is read is what the slot has on top.
LEMMA ReadGivesTop ==
    ASSUME IInv, IInv', Data, ReadSamples
    PROVE  /\ samples' \in Seq(Int)
           /\ samples' = [i \in 1 .. call'.bytes \div FRAME_BYTES |->
                            Top((call'.from \div FRAME_BYTES) + i - 1)]
<1> DEFINE from == call'.from
           bytes == call'.bytes
           n == wanted \div FRAME_BYTES
           f == from \div 2
           b == bytes \div 2
<1>1. FRAME_BYTES = 2 /\ wanted \in Nat /\ n \in Nat
  <2>1. FRAME_BYTES = 2 /\ wanted \in Nat
      BY Sized, MicSamplesAssumption
  <2> QED
      BY <2>1
<1>2. from \in Nat /\ bytes \in Nat
    BY DEF IInv, TypeOK
<1>3. from % 2 = 0 /\ bytes % 2 = 0
    BY <1>1 DEF IInv, Aligned, PhaseNeverSlips
<1>4. bytes <= n * 2
  <2>1. bytes <= wanted
    <3>1. bytes \in {0, take} /\ take <= wanted
        BY PopOutcome DEF ReadSamples, ReadPop, IInv, Pending
    <3> QED
        BY <1>1, <3>1
  <2> QED
      BY <1>1, <1>2, <1>3, <2>1
<1>5. samples' = unpack_mono(Captured(from, bytes), slot, n)
    BY DEF ReadSamples, Captured
<1>6. slot \in {"Left", "Right"}
    BY DEF Data
<1> HIDE DEF from, bytes, n
<1>7. samples' = Tops(slot, f, b)
    BY <1>1, <1>2, <1>3, <1>4, <1>5, <1>6, Unpacked
<1>8. b \in Nat /\ f \in Nat
    BY <1>2
<1> HIDE DEF b, f
<1>9. ASSUME NEW i \in 1 .. b
      PROVE  /\ Heard(slot, f + i - 1) \div Shift \in Int
             /\ Heard(slot, f + i - 1) \div Shift = Top(f + i - 1)
  <2>1. f + i - 1 \in Nat
      BY <1>8
  <2>2. Heard(slot, f + i - 1) \in -(Half * Shift) .. Half * Shift - 1
      BY <1>6, <2>1, HeardInWidth
  <2> QED
      BY <2>2, TopInRange, Sizes DEF Top, Shift
<1>10. samples' \in Seq(Int)
  <2> DEFINE top(i) == Heard(slot, f + i - 1) \div Shift
  <2>1. samples' = [i \in 1 .. b |-> top(i)] /\ \A i \in 1 .. b : top(i) \in Int
      BY <1>7, <1>9 DEF Tops
  <2> HIDE DEF top
  <2> QED
      BY <1>8, <2>1
<1>11. samples' = [i \in 1 .. b |-> Top(f + i - 1)]
    BY <1>7, <1>9 DEF Tops
<1> QED
    BY <1>1, <1>10, <1>11 DEF b, f, bytes, from

LEMMA ReadKeeps ==
    ASSUME SamplesIInv, IInv', ReadSamples
    PROVE  SamplesIInv'
<1>1. /\ slot' = slot /\ heard' = heard /\ window' = window /\ dc' = dc /\ level' = level
      /\ stage' # "filtered"
    BY DEF ReadSamples
<1>2. /\ samples' \in Seq(Int)
      /\ samples' = [i \in 1 .. call'.bytes \div FRAME_BYTES |->
                       Top((call'.from \div FRAME_BYTES) + i - 1)]
    BY ReadGivesTop DEF SamplesIInv
<1>3. Data'
    BY <1>1, <1>2 DEF SamplesIInv, Data
<1>4. Raw'
    BY <1>1, <1>2 DEF Raw, Top
<1>5. Answered'
    BY <1>1 DEF Answered
<1>6. Follows(dc, slot, heard)' /\ Metered(level, window, Len(window))'
    BY <1>1 DEF SamplesIInv
<1> QED
    BY <1>3, <1>4, <1>5, <1>6 DEF SamplesIInv

LEMMA ProcessKeeps ==
    ASSUME SamplesIInv, IInv', Process
    PROVE  SamplesIInv'
<1> DEFINE f == call.from \div FRAME_BYTES
           N == Len(samples)
           L == Len(heard)
           more == [i \in DOMAIN samples |-> f + i - 1]
           all == heard \o more
           after == process(dc, samples)
<1>1. /\ slot \in {"Left", "Right"} /\ samples \in Seq(Int) /\ dc \in Filters
      /\ heard \in Seq(Nat) /\ window \in Seq(Int) /\ level \in Meters
    BY DEF SamplesIInv, Data
<1>2. N \in Nat /\ L \in Nat /\ DOMAIN samples = 1 .. N
    BY <1>1
<1>3. f \in Nat
  <2>1. call.from \in Nat /\ FRAME_BYTES = 2
      BY MicSamplesAssumption DEF SamplesIInv, IInv, TypeOK
  <2> QED
      BY <2>1
<1>4. /\ slot' = slot /\ window' = window /\ level' = level /\ vars' = vars
      /\ stage = "raw" /\ stage' = "filtered" /\ L + N <= MaxFed
      /\ heard' = all /\ dc' = after[N]
      /\ samples' = [i \in 1 .. N |-> Saturated(Truncated(after[i].prev_out))]
    BY <1>2 DEF Process
<1> HIDE DEF f
<1>5. more \in Seq(Nat) /\ Len(more) = N /\ \A i \in 1 .. N : more[i] = f + i - 1
    BY <1>2, <1>3
<1>6. \A i \in 1 .. N : samples[i] = Heard(slot, more[i]) \div Shift
  <2>1. samples = [i \in 1 .. call.bytes \div FRAME_BYTES |-> Top(f + i - 1)]
      BY <1>4 DEF SamplesIInv, Raw, f
  <2>2. \A i \in 1 .. N : samples[i] = Top(f + i - 1)
      BY <1>2, <2>1
  <2> QED
      BY <1>5, <2>2 DEF Top, Shift
<1>7. Follows(dc, slot, heard)
    BY DEF SamplesIInv
<1> HIDE DEF more
<1>8. /\ \A i \in 0 .. N :
           /\ after[i] \in Filters
           /\ after[i].prev_out = ResponseTo(slot, all, L + i)[L + i]
      /\ Follows(after[N], slot, all)
    BY <1>1, <1>4, <1>5, <1>6, <1>7, ProcessFollows
<1>9. all \in Seq(Nat) /\ Len(all) = L + N
  <2>1. heard \in Seq(Nat) /\ more \in Seq(Nat) /\ Len(more) = N
      BY <1>1, <1>5
  <2>2. heard \o more \in Seq(Nat) /\ Len(heard \o more) = Len(heard) + Len(more)
      BY <2>1, ConcatProperties
  <2> QED
      BY <2>1, <2>2
<1> HIDE DEF after, all, N, L
<1>10. /\ N \in 0 .. N /\ \A i \in 1 .. N : i \in 0 .. N
       /\ Len(heard') = L + N
       /\ \A i \in 1 .. N : (L + N) - N + i = L + i
    BY <1>2, <1>4, <1>9
<1>11. \A i \in 1 .. N :
         /\ Saturated(Truncated(after[i].prev_out)) \in Int
         /\ Saturated(Truncated(after[i].prev_out)) = Rounded(ResponseTo(slot, all, L + i)[L + i])
  <2> SUFFICES ASSUME NEW i \in 1 .. N
               PROVE  /\ Saturated(Truncated(after[i].prev_out)) \in Int
                      /\ Saturated(Truncated(after[i].prev_out))
                           = Rounded(ResponseTo(slot, all, L + i)[L + i])
      OBVIOUS
  <2>1. after[i] \in Filters /\ after[i].prev_out = ResponseTo(slot, all, L + i)[L + i]
      BY <1>8, <1>10
  <2>2. after[i].prev_out \in Int
      BY <2>1 DEF Filters
  <2>3. SampleMin \in Int /\ SampleMax \in Int
      BY Sizes
  <2> QED
      BY <2>1, <2>2, <2>3, SaturatedRounds
<1>12. samples' \in Seq(Int) /\ Len(samples') = N /\ DOMAIN samples' = 1 .. N
    BY <1>2, <1>4, <1>11
<1>13. Answered'
  <2>1. ASSUME NEW i \in 1 .. N
        PROVE  samples'[i] = Rounded(Response(Len(heard) - Len(samples) + i))'
    <3>1. Response(Len(heard) - Len(samples) + i)'
            = ResponseTo(slot', heard', Len(heard') - Len(samples') + i)[Len(heard') - Len(samples') + i]
        BY DEF Response, ResponseTo, Rise, InputAt, Top, Shift
    <3>2. Response(Len(heard) - Len(samples) + i)' = ResponseTo(slot, all, L + i)[L + i]
        BY <1>4, <1>10, <1>12, <3>1
    <3>3. samples'[i] = Saturated(Truncated(after[i].prev_out))
        BY <1>4
    <3> QED
        BY <1>11, <3>2, <3>3 DEF Rounded
  <2> QED
      BY <1>12, <2>1 DEF Answered
<1>14. Raw'
    BY <1>4 DEF Raw
<1>15. Data'
    BY <1>1, <1>4, <1>8, <1>9, <1>10, <1>12 DEF Data
<1>16. Follows(dc, slot, heard)'
    BY <1>4, <1>8
<1>17. Metered(level, window, Len(window))'
    BY <1>4 DEF SamplesIInv
<1> QED
    BY <1>13, <1>14, <1>15, <1>16, <1>17 DEF SamplesIInv

LEMMA ExtendKeeps ==
    ASSUME SamplesIInv, IInv', Extend
    PROVE  SamplesIInv'
<1>1. /\ slot' = slot /\ dc' = dc /\ heard' = heard /\ stage' = "none" /\ samples' = <<>>
      /\ level' = extend(level, samples)[Len(samples)] /\ window' = window \o samples
    BY DEF Extend
<1>2. window \in Seq(Int) /\ samples \in Seq(Int) /\ level \in Meters
    BY DEF SamplesIInv, Data
<1>3. level' \in Meters /\ Metered(level', window', Len(window'))
    BY <1>1, <1>2, ExtendMeters DEF SamplesIInv
<1>4. <<>> \in Seq(Int) /\ window' \in Seq(Int)
    BY <1>1, <1>2
<1>5. Data'
    BY <1>1, <1>3, <1>4 DEF SamplesIInv, Data
<1>6. Raw' /\ Answered'
    BY <1>1 DEF Raw, Answered
<1>7. Follows(dc, slot, heard)'
    BY <1>1 DEF SamplesIInv
<1> QED
    BY <1>3, <1>5, <1>6, <1>7 DEF SamplesIInv

LEMMA TakeLevelKeeps ==
    ASSUME SamplesIInv, IInv', TakeLevel
    PROVE  SamplesIInv'
<1>1. /\ slot' = slot /\ dc' = dc /\ heard' = heard /\ stage' = stage /\ samples' = samples
      /\ level' = NewLevel /\ window' = <<>> /\ call' = call
    BY DEF TakeLevel, vars
<1>2. level' \in Meters /\ Metered(level', window', Len(window'))
    BY <1>1, NothingMetered
<1>3. <<>> \in Seq(Int)
    OBVIOUS
<1>4. Data'
    BY <1>1, <1>2, <1>3 DEF SamplesIInv, Data
<1>5. Raw'
    BY <1>1 DEF SamplesIInv, Raw, Top
<1>6. Answered'
    BY <1>1 DEF SamplesIInv, Answered, Response, Top
<1>7. Follows(dc, slot, heard)'
    BY <1>1 DEF SamplesIInv
<1> QED
    BY <1>2, <1>4, <1>5, <1>6, <1>7 DEF SamplesIInv

LEMMA ResetKeeps ==
    ASSUME SamplesIInv, IInv', ResetFilter
    PROVE  SamplesIInv'
<1>1. /\ slot' = slot /\ window' = window /\ level' = level /\ samples' = samples /\ call' = call
      /\ stage' = stage /\ stage = "raw" /\ dc' = NewDcBlocker /\ heard' = <<>>
    BY DEF ResetFilter, vars
<1>2. slot \in {"Left", "Right"}
    BY DEF SamplesIInv, Data
<1>3. dc' \in Filters /\ Follows(dc', slot', heard')
    BY <1>1, <1>2, FreshFollows
<1>4. <<>> \in Seq(Nat) /\ Len(<<>>) <= MaxFed
    BY MicSamplesAssumption
<1>5. Data'
    BY <1>1, <1>3, <1>4 DEF SamplesIInv, Data
<1>6. Raw'
    BY <1>1 DEF SamplesIInv, Raw, Top
<1>7. Answered'
    BY <1>1 DEF Answered
<1>8. Metered(level, window, Len(window))'
    BY <1>1 DEF SamplesIInv
<1> QED
    BY <1>3, <1>5, <1>6, <1>7, <1>8 DEF SamplesIInv

\* The recording goes on by itself, or is started, or discards, between two blocks.
LEMMA RecordingKeeps ==
    ASSUME SamplesIInv, IInv', UNCHANGED program, stage = "none" \/ call' = call
    PROVE  SamplesIInv'
<1>1. /\ slot' = slot /\ samples' = samples /\ stage' = stage /\ dc' = dc
      /\ level' = level /\ heard' = heard /\ window' = window
    BY DEF program
<1>2. Data'
    BY <1>1 DEF SamplesIInv, Data
<1>3. Raw'
    BY <1>1 DEF SamplesIInv, Raw, Top
<1>4. Answered'
    BY <1>1 DEF SamplesIInv, Answered, Response, Top
<1>5. Follows(dc, slot, heard)' /\ Metered(level, window, Len(window))'
    BY <1>1 DEF SamplesIInv
<1> QED
    BY <1>2, <1>3, <1>4, <1>5 DEF SamplesIInv

LEMMA SamplesNextIInv == SamplesIInv /\ [SamplesNext]_sample_vars => SamplesIInv'
<1> SUFFICES ASSUME SamplesIInv, [SamplesNext]_sample_vars PROVE SamplesIInv'
    OBVIOUS
<1>1. IInv'
    BY SamplesStep, NextIInv DEF SamplesIInv
<1>2. CASE ReadSamples
    BY <1>1, <1>2, ReadKeeps
<1>10. ASSUME NEW n \in 1 .. MaxSamples, AskSamples(n) PROVE SamplesIInv'
    BY <1>1, <1>10, RecordingKeeps DEF AskSamples
<1>3. CASE Process
    BY <1>1, <1>3, ProcessKeeps
<1>4. CASE Extend
    BY <1>1, <1>4, ExtendKeeps
<1>5. CASE TakeLevel
    BY <1>1, <1>5, TakeLevelKeeps
<1>6. CASE ResetFilter
    BY <1>1, <1>6, ResetKeeps
<1>7. CASE UNCHANGED program /\ \E g \in Grains : Capture(g) /\ UNCHANGED <<call, left, goal>>
    BY <1>1, <1>7, RecordingKeeps
<1>8. CASE UNCHANGED program /\ stage = "none"
    BY <1>1, <1>8, RecordingKeeps
<1>9. CASE UNCHANGED sample_vars
    BY <1>1, <1>9, RecordingKeeps DEF sample_vars, vars
<1> QED
    BY <1>2, <1>3, <1>4, <1>5, <1>6, <1>7, <1>8, <1>9, <1>10 DEF SamplesNext

\* Whatever the grain of the hardware, the sizes of frame buffers and reads, the
\* discards and the overruns, and whatever is to be heard: the block in hand is the
\* top of the chosen slot's words, or the filter's rounded response to all that it was
\* fed, and the meter has the count, the power and the peak of the samples since the
\* last report (format.rs:38-55, dsp.rs:46-55, level.rs:49-92).
THEOREM SoundIsKept == SamplesSpec => []SamplesAreTheSound
<1>1. SamplesIInv => SamplesAreTheSound
  <2> SUFFICES ASSUME SamplesIInv PROVE SamplesAreTheSound
      OBVIOUS
  <2>1. window \in Seq(Int) /\ DOMAIN window = 1 .. Len(window)
      BY DEF SamplesIInv, Data
  <2>2. Power(window) = SquareSum(window)[Len(window)]
      BY <2>1, SquaresAdd
  <2>3. Metered(level, window, Len(window)) /\ Raw /\ Answered
      BY DEF SamplesIInv
  <2> QED
      BY <2>1, <2>2, <2>3 DEF SamplesAreTheSound, Metered, Raw, Answered
<1> QED
    BY <1>1, SamplesInitIInv, SamplesNextIInv, PTL DEF SamplesSpec

-----------------------------------------------------------------------------
(* The screen: how long a text is. *)

LEMMA DigitsAreFew ==
    ASSUME NEW n \in Nat
    PROVE  Digits(n) \in 1 .. 10 /\ (n < 10 => Digits(n) = 1)
<1> DEFINE D == {d \in 1 .. 9 : n >= Tens[d]}
<1>1. IsFiniteSet(1 .. 9) /\ Cardinality(1 .. 9) = 9
  <2>1. ASSUME NEW b \in Nat \ {0} PROVE IsFiniteSet(1 .. b) /\ Cardinality(1 .. b) = b
    <3>1. 1 \in Int /\ b \in Int /\ ~ (1 > b) /\ b - 1 + 1 = b
        OBVIOUS
    <3> QED
        BY <3>1, FS_Interval
  <2>2. 9 \in Nat \ {0}
      OBVIOUS
  <2> QED
      BY <2>1, <2>2, Zenon
<1>2. D \subseteq 1 .. 9
    OBVIOUS
<1>3. IsFiniteSet(D) /\ Cardinality(D) \in Nat /\ Cardinality(D) <= 9
  <2>1. IsFiniteSet(D) /\ Cardinality(D) <= Cardinality(1 .. 9)
      BY <1>1, <1>2, FS_Subset
  <2>2. Cardinality(D) \in Nat
      BY <2>1, FS_CardinalityType
  <2> QED
      BY <1>1, <2>1, <2>2
<1>4. ASSUME n < 10 PROVE Cardinality(D) = 0
  <2>1. \A d \in 1 .. 9 : Tens[d] >= 10
      BY DEF Tens
  <2>2. \A d \in 1 .. 9 : Tens[d] \in Nat
      BY DEF Tens
  <2>3. D = {}
      BY <1>4, <2>1, <2>2
  <2> QED
      BY <2>3, FS_EmptySet
<1>5. Digits(n) = 1 + Cardinality(D)
    BY DEF Digits
<1> HIDE DEF D
<1> QED
    BY <1>3, <1>4, <1>5

\* A text that fits in the buffer is there whole.
LEMMA FittingIsWhole ==
    ASSUME NEW k \in Nat, k <= BufBytes
    PROVE  Formatted(k) = k
<1> DEFINE State(i) == [chars |-> i, len |-> i, full |-> FALSE]
           w == Ascii(k)
           Solves(f) == f = [i \in 0 .. Len(w) |->
                               IF i = 0 THEN [chars |-> NewBuf.chars, len |-> NewBuf.len, full |-> FALSE]
                               ELSE Written(f[i - 1], w[i])]
           p == write_str(NewBuf, w)
           g == [i \in 0 .. k |-> State(i)]
<1>1. Len(w) = k /\ \A i \in 1 .. k : w[i] = 1
    BY DEF Ascii
<1>2. BufBytes \in Nat
    BY FirmwareAssumption
<1>3. \A i \in 1 .. k : Written(State(i - 1), 1) = State(i)
  <2> SUFFICES ASSUME NEW i \in 1 .. k PROVE Written(State(i - 1), 1) = State(i)
      OBVIOUS
  <2> DEFINE x == State(i - 1)
  <2>1. x.full = FALSE /\ x.chars = i - 1 /\ x.len = i - 1
      OBVIOUS
  <2>2. ~(x.full \/ x.len + 1 > BufBytes)
      BY <1>2, <2>1
  <2>3. Written(x, 1) = [chars |-> x.chars + 1, len |-> x.len + 1, full |-> FALSE]
      BY <2>2 DEF Written
  <2> QED
      BY <2>1, <2>3
<1>4. [chars |-> NewBuf.chars, len |-> NewBuf.len, full |-> FALSE] = State(0)
    BY DEF NewBuf
<1> HIDE DEF State, w
<1>5. \A i \in 0 .. k : g[i] = IF i = 0 THEN State(0) ELSE Written(g[i - 1], w[i])
  <2> SUFFICES ASSUME NEW i \in 0 .. k
               PROVE  g[i] = IF i = 0 THEN State(0) ELSE Written(g[i - 1], w[i])
      OBVIOUS
  <2>1. CASE i = 0
      BY <2>1
  <2>2. CASE i # 0
    <3>1. i \in 1 .. k /\ i - 1 \in 0 .. k
        BY <2>2
    <3>2. g[i - 1] = State(i - 1) /\ g[i] = State(i)
        BY <3>1
    <3> QED
        BY <1>1, <1>3, <2>2, <3>1, <3>2
  <2> QED
      BY <2>1, <2>2
<1>6. Solves(g)
    BY <1>1, <1>4, <1>5
<1>7. p = CHOOSE f : Solves(f)
    BY DEF write_str
<1>8. Solves(p)
    BY <1>6, <1>7
<1> HIDE DEF p, g
<1>9. p[0] = State(0) /\ \A i \in 1 .. k : p[i] = Written(p[i - 1], 1)
  <2>1. /\ p = [i \in 0 .. k |-> p[i]]
        /\ \A i \in 0 .. k : p[i] = IF i = 0 THEN State(0) ELSE Written(p[i - 1], w[i])
      BY <1>1, <1>4, <1>8
  <2>2. 0 \in 0 .. k /\ \A i \in 1 .. k : i \in 0 .. k /\ i # 0
      OBVIOUS
  <2> QED
      BY <1>1, <2>1, <2>2
<1> DEFINE S == {i \in 0 .. k : p[i] = State(i)}
<1>10. 0 \in S
    BY <1>9
<1>11. \A i \in 0 .. k - 1 : i \in S => i + 1 \in S
  <2> SUFFICES ASSUME NEW i \in 0 .. k - 1, p[i] = State(i) PROVE i + 1 \in S
      OBVIOUS
  <2>1. i + 1 \in 1 .. k /\ i + 1 \in 0 .. k /\ (i + 1) - 1 = i
      OBVIOUS
  <2> QED
      BY <1>3, <1>9, <2>1
<1>12. \A i \in 0 .. k : i \in S
  <2> HIDE DEF S
  <2> QED
      BY <1>10, <1>11, Upwards
<1>13. p[k] = State(k)
    BY <1>12
<1>14. Formatted(k) = p[k].chars
    BY DEF Formatted, p, w
<1> QED
    BY <1>13, <1>14 DEF State

LEMMA TextsFit ==
    ASSUME NEW s \in Nat, NEW n \in Nat
    PROVE  /\ UptimeChars(s) \in 4 .. 13
           /\ UptimeChars(s) = Digits(s \div 60) + (IF s < 600 THEN 4 ELSE 3)
           /\ CountChars(n) \in 8 .. 17
           /\ CountChars(n) = 7 + Digits(n)
<1> DEFINE m == s \div 60
           u == (IF m < 10 THEN 2 ELSE Digits(m)) + 3
           c == 7 + Digits(n)
<1>1. m \in Nat /\ (m < 10 <=> s < 600)
    OBVIOUS
<1> HIDE DEF m
<1>2. Digits(m) \in 1 .. 10 /\ (m < 10 => Digits(m) = 1) /\ Digits(n) \in 1 .. 10
    BY <1>1, DigitsAreFew
<1>3. u \in 4 .. 13 /\ u = Digits(m) + (IF m < 10 THEN 4 ELSE 3)
    BY <1>2
<1>4. c \in 8 .. 17
    BY <1>2
<1>5. BufBytes \in Nat /\ BufBytes >= 17
    BY FirmwareAssumption
<1>6. UptimeChars(s) = Formatted(u)
    BY DEF UptimeChars, m
<1>7. CountChars(n) = Formatted(c)
    BY DEF CountChars
<1>8. u \in Nat /\ u <= BufBytes /\ c \in Nat /\ c <= BufBytes
    BY <1>3, <1>4, <1>5
<1> HIDE DEF u, c
<1>9. Formatted(u) = u /\ Formatted(c) = c
    BY <1>8, FittingIsWhole
<1>10. UptimeChars(s) \in 4 .. 13 /\ CountChars(n) \in 8 .. 17 /\ CountChars(n) = 7 + Digits(n)
    BY <1>3, <1>4, <1>6, <1>7, <1>9 DEF c
<1>11. UptimeChars(s) = Digits(s \div 60) + (IF s < 600 THEN 4 ELSE 3)
    BY <1>1, <1>3, <1>6, <1>9 DEF m
<1> QED
    BY <1>10, <1>11

-----------------------------------------------------------------------------
(* Where a text goes. *)

Inside(box) ==
  /\ box.y >= 0 /\ box.y + box.h <= HEIGHT
  /\ box.x >= 0
  /\ box.w <= WIDTH => box.x + box.w <= WIDTH
  /\ box.w > WIDTH => box.x = 0

InTheMiddle(box) == box.w <= WIDTH => (WIDTH - box.w) - 2 * box.x \in {0, 1}

LEMMA RowsFit ==
    /\ \A row \in Nat : row_y(row) \in Nat /\ row_y(row) + CHAR_H <= HEIGHT
    /\ row_y(0) = 0 /\ row_y(5) = 50
<1>1. ROWS = 6
    BY DEF ROWS, HEIGHT, CHAR_H
<1>2. \A row \in Nat : Lesser(row, 5) \in 0 .. 5
    BY DEF Lesser
<1>3. Lesser(0, 5) = 0 /\ Lesser(5, 5) = 5
    BY DEF Lesser
<1> QED
    BY <1>1, <1>2, <1>3 DEF row_y, CHAR_H, HEIGHT

LEMMA MiddleFits ==
    ASSUME NEW chars \in Nat
    PROVE  /\ centered_x(chars) \in Nat
           /\ chars * CHAR_W <= WIDTH =>
                /\ centered_x(chars) + chars * CHAR_W <= WIDTH
                /\ (WIDTH - chars * CHAR_W) - 2 * centered_x(chars) \in {0, 1}
           /\ chars * CHAR_W > WIDTH => centered_x(chars) = 0
<1> DEFINE w == chars * CHAR_W
           t == saturating_mul(chars, CHAR_W)
<1>1. w \in Nat /\ WIDTH = 128
    BY DEF CHAR_W, WIDTH
<1>2. USIZE_MAX \in Nat /\ USIZE_MAX >= 65535
    BY ScreenAssumption
<1>3. t = IF w <= USIZE_MAX THEN w ELSE USIZE_MAX
    BY DEF saturating_mul, Lesser
<1>4. centered_x(chars) = IF t >= 128 THEN 0 ELSE (128 - t) \div 2
    BY <1>1 DEF centered_x
<1> HIDE DEF w, t
<1>5. CASE w < 128
  <2>1. t = w
      BY <1>1, <1>2, <1>3, <1>5
  <2>2. centered_x(chars) = (128 - w) \div 2
      BY <1>1, <1>4, <1>5, <2>1
  <2> QED
      BY <1>1, <1>5, <2>2 DEF w
<1>6. CASE w >= 128
  <2>1. t >= 128
      BY <1>1, <1>2, <1>3, <1>6
  <2>2. centered_x(chars) = 0
      BY <1>4, <2>1
  <2> QED
      BY <1>1, <1>6, <2>2 DEF w
<1> QED
    BY <1>1, <1>5, <1>6

LEMMA LineIsInside ==
    ASSUME NEW row \in Nat, NEW text, NEW chars \in Nat
    PROVE  Inside(line(row, text, chars))
<1>1. row_y(row) \in Nat /\ row_y(row) + CHAR_H <= HEIGHT
    BY RowsFit
<1>2. chars * CHAR_W \in Nat
    BY DEF CHAR_W
<1> QED
    BY <1>1, <1>2 DEF line, Box, Inside

LEMMA CenteredIsInside ==
    ASSUME NEW row \in Nat, NEW text, NEW chars \in Nat
    PROVE  Inside(centered(row, text, chars)) /\ InTheMiddle(centered(row, text, chars))
<1>1. row_y(row) \in Nat /\ row_y(row) + CHAR_H <= HEIGHT
    BY RowsFit
<1> QED
    BY <1>1, MiddleFits DEF centered, Box, Inside, InTheMiddle

-----------------------------------------------------------------------------
(* A frame of the firmware. *)

Title == centered(0, Text("ESP32-S3 OLED", 0), 13)

\* What the property says of the texts of a frame: each is there, inside and apart.
Legible(texts, s, n) ==
  /\ Uptime(s) \in texts /\ Count(n) \in texts /\ Cardinality(texts) = 3
  /\ \A a, b \in texts : a # b => Apart(a, b)
  /\ \A box \in texts : Inside(box) /\ InTheMiddle(box)

\* Three rows of text, one below the other.
LEMMA RowsAreApart ==
    ASSUME NEW t, NEW u, NEW c,
           t.y = 0, t.h = 10, u.y = 22, u.h = 18, c.y = 50, c.h = 10
    PROVE  Apart(t, u) /\ Apart(u, t) /\ Apart(t, c) /\ Apart(c, t) /\ Apart(u, c) /\ Apart(c, u)
<1>1. t.y + t.h <= u.y /\ t.y + t.h <= c.y /\ u.y + u.h <= c.y
    OBVIOUS
<1> QED
    BY <1>1 DEF Apart

LEMMA LabelOfText ==
    ASSUME NEW w, NEW n
    PROVE  Text(w, n).what = w
BY DEF Text

LEMMA FrameIsLegible ==
    ASSUME NEW s \in Nat, NEW n \in Nat
    PROVE  Legible(Frame(s, n) \ {Border}, s, n)
<1> DEFINE t == Title
           u == Uptime(s)
           c == Count(n)
           uc == UptimeChars(s)
           cc == CountChars(n)
<1> HIDE DEF t, u, c
<1>1. uc \in 4 .. 13 /\ cc \in 8 .. 17
    BY TextsFit
<1>2. t.text = Text("ESP32-S3 OLED", 0) /\ t.y = 0 /\ t.h = 10 /\ Inside(t) /\ InTheMiddle(t)
  <2>1. 0 \in Nat /\ 13 \in Nat /\ t = centered(0, Text("ESP32-S3 OLED", 0), 13)
      BY DEF t, Title
  <2>2. Inside(t) /\ InTheMiddle(t)
      BY <2>1, CenteredIsInside
  <2> QED
      BY <2>1, <2>2, RowsFit DEF centered, Box, CHAR_H
<1>3. c.text = Text("frames", n) /\ c.y = 50 /\ c.h = 10 /\ Inside(c) /\ InTheMiddle(c)
    BY <1>1, RowsFit, CenteredIsInside DEF c, Count, centered, Box, CHAR_H
<1>4. u.text = Text("uptime", s) /\ u.y = 22 /\ u.h = 18 /\ Inside(u) /\ InTheMiddle(u)
  <2>1. u = [text |-> Text("uptime", s), x |-> Halved(128 - uc * 9), y |-> 22, w |-> uc * 9, h |-> 18]
      BY DEF u, Uptime, WIDTH
  <2>2. uc * 9 \in 36 .. 117
      BY <1>1
  <2>3. Halved(128 - uc * 9) = (128 - uc * 9) \div 2
      BY <2>2 DEF Halved
  <2> HIDE DEF uc
  <2> QED
      BY <2>1, <2>2, <2>3 DEF Inside, InTheMiddle, WIDTH, HEIGHT
<1>6. Frame(s, n) = {Border, t, u, c}
    BY DEF Frame, Title, t, u, c
<1>7. t # u /\ t # c /\ u # c /\ t # Border /\ u # Border /\ c # Border
  <2>1. t.text.what = "ESP32-S3 OLED"
      BY <1>2, LabelOfText
  <2>2. u.text.what = "uptime"
      BY <1>4, LabelOfText
  <2>3. c.text.what = "frames"
      BY <1>3, LabelOfText
  <2>4. Border.text.what = "border"
    <3>1. Border.text = Text("border", 0)
        BY DEF Border
    <3> QED
        BY <3>1, LabelOfText
  <2> QED
      BY <2>1, <2>2, <2>3, <2>4
<1>8. Apart(t, u) /\ Apart(u, t) /\ Apart(t, c) /\ Apart(c, t) /\ Apart(u, c) /\ Apart(c, u)
    BY <1>2, <1>3, <1>4, RowsAreApart
<1>9. Frame(s, n) \ {Border} = {t, u, c}
    BY <1>6, <1>7
<1>10. Cardinality({t, u, c}) = 3
  <2>1. IsFiniteSet({}) /\ Cardinality({}) = 0
      BY FS_EmptySet
  <2>2. IsFiniteSet({t}) /\ Cardinality({t}) = 1
      BY FS_Singleton
  <2>3. IsFiniteSet({t, u}) /\ Cardinality({t, u}) = 2
    <3>1. {t, u} = {t} \cup {u} /\ u \notin {t}
        BY <1>7
    <3> QED
        BY <2>2, <3>1, FS_AddElement
  <2>4. {t, u, c} = {t, u} \cup {c} /\ c \notin {t, u}
      BY <1>7
  <2> QED
      BY <2>3, <2>4, FS_AddElement
<1> QED
    BY <1>2, <1>3, <1>4, <1>7, <1>8, <1>9, <1>10 DEF Legible, u, c

-----------------------------------------------------------------------------
(* The firmware: the pages that have been sent show what is drawn, and what is drawn *)
(* is a frame that is due.                                                           *)

ScreenTypes ==
  /\ now \in Nat /\ boot \in Nat /\ started \in Nat /\ secs \in Nat /\ frames \in Nat
  /\ page \in 0 .. PAGES
  /\ panel = [p \in 0 .. PAGES - 1 |-> panel[p]]
  /\ pc \in {"boot", "blank", "splash", "pause", "flush", "wait", "panicked"}

PagesSent ==
  /\ pc \in {"blank", "splash", "pause", "flush", "wait"} =>
       \A p \in 0 .. page - 1 : panel[p] = framebuffer
  /\ pc \in {"boot", "pause", "wait"} => page = PAGES

\* A frame is begun a second after the one before it, and the first one after the splash.
FrameIsDue ==
  /\ pc \in {"boot", "blank", "splash", "pause"} => frames = 0
  /\ boot <= now
  /\ pc \in {"flush", "wait"} =>
       /\ framebuffer = Frame(secs, frames)
       /\ frames >= 1 /\ started <= now
       /\ started - boot >= SPLASH + (frames - 1) * TICK
       /\ secs = (started - boot) \div SECOND

FirmwareInv == ScreenTypes /\ PagesSent /\ FrameIsDue

\* A program: every box is on the panel, and the centred ones are in the middle.
ProgramInv ==
  /\ \A box \in framebuffer : Inside(box)
  /\ \A box \in centred : InTheMiddle(box)

ScreenInv ==
  /\ user = "firmware" => FirmwareInv
  /\ user = "program" => ProgramInv

LEMMA PagesAreEight == PAGES = 8
BY DEF PAGES, HEIGHT

LEMMA ScreenStarts ==
    ASSUME MCInit
    PROVE  ScreenInv
<1>1. ASSUME user = "program" PROVE ProgramInv
    BY <1>1 DEF MCInit, ProgramInit, ScreenInit, ProgramInv
<1>2. ASSUME user = "firmware" PROVE FirmwareInv
  <2>1. PICK s \in Starts : IF s = 0 THEN BootInit ELSE RunningInit(s)
      BY <1>2 DEF MCInit, FirmwareInit
  <2>2. s \in Nat
      BY FirmwareAssumption
  <2>3. CASE s = 0
    <3>1. BootInit
        BY <2>1, <2>3
    <3>2. ScreenTypes
        BY <3>1, PagesAreEight DEF BootInit, ScreenInit, ScreenTypes
    <3>3. PagesSent
        BY <3>1 DEF BootInit, ScreenInit, PagesSent
    <3>4. FrameIsDue
        BY <3>1 DEF BootInit, FrameIsDue
    <3> QED
        BY <3>2, <3>3, <3>4 DEF FirmwareInv
  <2>4. CASE s # 0
    <3>1. RunningInit(s)
        BY <2>1, <2>4
    <3>2. /\ pc = "wait" /\ boot = 0 /\ started = 2 * s + 1 /\ now = 2 * s + 1
          /\ secs = s /\ frames = s /\ s >= 1
        BY <2>2, <2>4, <3>1 DEF RunningInit, SPLASH, TICK
    <3>3. /\ page = PAGES /\ framebuffer = Frame(s, s)
          /\ panel = [p \in 0 .. PAGES - 1 |-> framebuffer]
        BY <3>1 DEF RunningInit
    <3>4. ScreenTypes
        BY <2>2, <3>2, <3>3, PagesAreEight DEF ScreenTypes
    <3>5. PagesSent
        BY <3>2, <3>3, PagesAreEight DEF PagesSent
    <3>6. FrameIsDue
      <4>1. (2 * s + 1 - 0) \div 2 = s
          BY <2>2
      <4> QED
          BY <2>2, <3>2, <3>3, <4>1 DEF FrameIsDue, SPLASH, TICK, SECOND
    <3> QED
        BY <3>4, <3>5, <3>6 DEF FirmwareInv
  <2> QED
      BY <2>3, <2>4
<1> QED
    BY <1>1, <1>2 DEF ScreenInv

\* A flush sends a page, or fails.
LEMMA PageIsSent ==
    ASSUME ScreenTypes, PagesSent, SendPage, UNCHANGED <<pc, clock>>, pc # "panicked"
    PROVE  ScreenTypes' /\ PagesSent'
<1>1. /\ page \in 0 .. 7 /\ page' = page + 1 /\ framebuffer' = framebuffer
      /\ panel' = [panel EXCEPT ![page] = framebuffer]
      /\ panel = [p \in 0 .. 7 |-> panel[p]]
    BY PagesAreEight DEF ScreenTypes, SendPage
<1>2. panel'[page] = framebuffer /\ \A p \in 0 .. 7 : p # page => panel'[p] = panel[p]
    BY <1>1
<1>3. panel' = [p \in 0 .. 7 |-> panel'[p]]
    BY <1>1
<1>4. pc \notin {"boot", "pause", "wait"}
    BY <1>1, PagesAreEight DEF PagesSent
<1>5. ScreenTypes'
    BY <1>1, <1>3, PagesAreEight DEF ScreenTypes, clock
<1>6. ASSUME pc \in {"blank", "splash", "pause", "flush", "wait"}, NEW p \in 0 .. page
      PROVE  panel'[p] = framebuffer
  <2>1. CASE p = page
      BY <1>2, <2>1
  <2>2. CASE p # page
    <3>1. p \in 0 .. page - 1 /\ p \in 0 .. 7
        BY <1>1, <2>2
    <3> QED
        BY <1>2, <1>6, <2>2, <3>1 DEF PagesSent
  <2> QED
      BY <2>1, <2>2
<1>7. PagesSent'
    BY <1>1, <1>4, <1>6 DEF PagesSent
<1> QED
    BY <1>5, <1>7

LEMMA FirmwareKeeps ==
    ASSUME FirmwareInv, FirmwareNext
    PROVE  FirmwareInv'
<1> USE PagesAreEight DEF FirmwareInv
<1>1. CASE Tick
  <2>1. /\ now' = now + 1 /\ framebuffer' = framebuffer /\ panel' = panel /\ page' = page
        /\ pc' = pc /\ boot' = boot /\ started' = started /\ secs' = secs /\ frames' = frames
      BY <1>1 DEF Tick, screen
  <2>2. ScreenTypes' /\ PagesSent'
      BY <2>1 DEF ScreenTypes, PagesSent
  <2>3. FrameIsDue'
      BY <2>1 DEF ScreenTypes, FrameIsDue
  <2> QED
      BY <2>2, <2>3
<1>2. CASE New
  <2>1. /\ page' = 0 /\ pc = "boot" /\ pc' = "blank" /\ panel' = panel
        /\ now' = now /\ boot' = boot /\ started' = started /\ secs' = secs /\ frames' = frames
      BY <1>2 DEF New, build, clock
  <2>2. ScreenTypes'
      BY <2>1 DEF ScreenTypes
  <2>3. PagesSent'
      BY <2>1 DEF PagesSent
  <2>4. FrameIsDue'
      BY <2>1 DEF FrameIsDue
  <2> QED
      BY <2>2, <2>3, <2>4
<1>3. CASE NoDisplay
    BY <1>3 DEF NoDisplay, clock, ScreenTypes, PagesSent, FrameIsDue
<1>4. CASE Panic
    BY <1>4 DEF Panic, FlushFails, clock, ScreenTypes, PagesSent, FrameIsDue
<1>5. CASE ShowSplash
    BY <1>5 DEF ShowSplash, begin_flush, clock, ScreenTypes, PagesSent, FrameIsDue
<1>6. CASE SplashShown
    BY <1>6 DEF SplashShown, screen, ScreenTypes, PagesSent, FrameIsDue
<1>7. CASE DrawFrame
  <2>1. /\ started' = now /\ secs' = (now - boot) \div 2 /\ frames' = frames + 1
        /\ framebuffer' = Frame(secs', frames') /\ page' = 0 /\ pc' = "flush"
        /\ panel' = panel /\ now' = now /\ boot' = boot
      BY <1>7 DEF DrawFrame, Drawn, begin_flush, SECOND
  <2>2. /\ now \in Nat /\ boot \in Nat /\ started \in Nat /\ frames \in Nat /\ boot <= now
      BY DEF ScreenTypes, FrameIsDue
  <2>3. secs' \in Nat
      BY <2>1, <2>2
  <2>4. ScreenTypes'
      BY <2>1, <2>2, <2>3 DEF ScreenTypes
  <2>5. PagesSent'
      BY <2>1 DEF PagesSent
  <2>6. now - boot >= 3 + 2 * frames
    <3>1. CASE pc = "pause" /\ now >= boot + 3
        BY <2>2, <3>1 DEF FrameIsDue
    <3>2. CASE pc = "wait" /\ now >= started + 2
      <4>1. started - boot >= 3 + (frames - 1) * 2
          BY <3>2 DEF FrameIsDue, SPLASH, TICK
      <4> QED
          BY <2>2, <3>2, <4>1
    <3> QED
        BY <1>7, <3>1, <3>2 DEF DrawFrame, Due, SPLASH, TICK
  <2>7. FrameIsDue'
      BY <2>1, <2>2, <2>6 DEF FrameIsDue, SPLASH, TICK, SECOND
  <2> QED
      BY <2>4, <2>5, <2>7
<1>8. CASE FrameShown
    BY <1>8 DEF FrameShown, screen, clock, ScreenTypes, PagesSent, FrameIsDue
<1>9. CASE Send
  <2>1. ScreenTypes' /\ PagesSent'
      BY <1>9, PageIsSent DEF Send
  <2>2. FrameIsDue'
      BY <1>9 DEF Send, SendPage, clock, FrameIsDue
  <2> QED
      BY <2>1, <2>2
<1> QED
    BY <1>1, <1>2, <1>3, <1>4, <1>5, <1>6, <1>7, <1>8, <1>9 DEF FirmwareNext

LEMMA ProgramKeeps ==
    ASSUME ProgramInv, Program
    PROVE  ProgramInv'
<1>1. CASE Open
    BY <1>1 DEF Open, build, ProgramInv
<1>2. CASE Line
  <2>1. PICK row \in Rows, n \in Lengths : Draw(line(row, Text("text", n), n)) /\ UNCHANGED centred
      BY <1>2 DEF Line
  <2>2. row \in Nat /\ n \in Nat
      BY ProgramAssumption
  <2>3. Inside(line(row, Text("text", n), n))
      BY <2>2, LineIsInside
  <2> QED
      BY <2>1, <2>3 DEF Draw, ProgramInv
<1>3. CASE Centered
  <2>1. PICK row \in Rows, n \in Lengths :
          /\ Draw(centered(row, Text("centred", n), n))
          /\ centred' = centred \cup {centered(row, Text("centred", n), n)}
      BY <1>3 DEF Centered
  <2>2. row \in Nat /\ n \in Nat
      BY ProgramAssumption
  <2>3. /\ Inside(centered(row, Text("centred", n), n))
        /\ InTheMiddle(centered(row, Text("centred", n), n))
      BY <2>2, CenteredIsInside
  <2> QED
      BY <2>1, <2>3 DEF Draw, ProgramInv
<1>4. CASE Clear
    BY <1>4 DEF Clear, ProgramInv
<1>5. CASE Flush
    BY <1>5 DEF Flush, ProgramInv
<1>6. CASE (SendPage \/ FlushFails) /\ UNCHANGED <<pc, clock, centred, flushes>>
    BY <1>6 DEF SendPage, FlushFails, ProgramInv
<1> QED
    BY <1>1, <1>2, <1>3, <1>4, <1>5, <1>6 DEF Program

LEMMA ScreenKeeps ==
    ASSUME ScreenInv, [MCNext]_MCvars
    PROVE  ScreenInv'
<1>1. CASE user = "firmware" /\ FirmwareNext /\ UNCHANGED user
  <2>1. FirmwareInv'
      BY <1>1, FirmwareKeeps DEF ScreenInv
  <2> QED
      BY <1>1, <2>1 DEF ScreenInv
<1>2. CASE user = "program" /\ Program /\ UNCHANGED user
  <2>1. ProgramInv'
      BY <1>2, ProgramKeeps DEF ScreenInv
  <2> QED
      BY <1>2, <2>1 DEF ScreenInv
<1>3. CASE UNCHANGED MCvars
    BY <1>3 DEF MCvars, firmware_vars, screen, clock, ScreenInv, FirmwareInv, ScreenTypes, PagesSent,
        FrameIsDue, ProgramInv
<1> QED
    BY <1>1, <1>2, <1>3 DEF MCNext

LEMMA WholeFrameIsShown ==
    ASSUME FirmwareInv
    PROVE  FramesAreWhole /\ ClockIsRight
<1>1. FramesAreWhole
    BY PagesAreEight DEF FirmwareInv, ScreenTypes, PagesSent, FramesAreWhole
<1>2. ASSUME pc = "wait" PROVE Shown = framebuffer
  <2>1. \A p \in 0 .. 7 : panel[p] = framebuffer
      BY <1>2, PagesAreEight DEF FirmwareInv, PagesSent
  <2>2. Shown = panel[0] \cup UNION {panel[p] : p \in 1 .. 7}
      BY PagesAreEight DEF Shown
  <2>3. panel[0] = framebuffer /\ \A p \in 1 .. 7 : panel[p] = framebuffer
      BY <2>1
  <2> QED
      BY <2>2, <2>3
<1>3. ASSUME pc = "wait" PROVE ClockIsRight
  <2> DEFINE texts == Shown \ {Border}
  <2>1. secs \in Nat /\ frames \in Nat /\ now \in Nat /\ started \in Nat /\ boot \in Nat
      BY DEF FirmwareInv, ScreenTypes
  <2>2. Legible(texts, secs, frames)
      BY <1>2, <1>3, <2>1, FrameIsLegible DEF FirmwareInv, FrameIsDue
  <2> HIDE DEF texts
  <2>3. TextIsOnThePanel(texts, LAMBDA box : TRUE)
      BY <2>2 DEF Legible, Inside, InTheMiddle, TextIsOnThePanel
  <2>4. frames <= secs /\ now - boot >= secs * SECOND
    <3>1. /\ frames >= 1 /\ started <= now /\ started - boot >= 3 + (frames - 1) * 2
          /\ secs = (started - boot) \div 2
        BY <1>3 DEF FirmwareInv, FrameIsDue, SPLASH, TICK, SECOND
    <3> QED
        BY <2>1, <3>1 DEF SECOND
  <2>5. /\ UptimeChars(secs) = Digits(secs \div 60) + (IF secs < 600 THEN 4 ELSE 3)
        /\ CountChars(frames) = 7 + Digits(frames)
      BY <2>1, TextsFit
  <2> QED
      BY <1>3, <2>2, <2>3, <2>4, <2>5 DEF ClockIsRight, Legible, texts
<1>4. ClockIsRight
    BY <1>3 DEF ClockIsRight
<1> QED
    BY <1>1, <1>4

LEMMA TextIsThere ==
    ASSUME ProgramInv
    PROVE  TextIsOnThePanel(framebuffer, LAMBDA box : box \in centred)
BY DEF ProgramInv, Inside, InTheMiddle, TextIsOnThePanel

\* Whoever draws, at any uptime, with late frames and flushes that fail, and for text of
\* any length on any row: text is on the panel and centred to a pixel (layout.rs:20-43),
\* and between two flushes the firmware's panel shows one whole frame, that has the
\* uptime and the count in full, legible and on time (main.rs:131-185).
THEOREM PanelStaysTrue == MCSpec => []PanelIsTrue
<1>1. MCInit => ScreenInv
    BY ScreenStarts
<1>2. ScreenInv /\ [MCNext]_MCvars => ScreenInv'
    BY ScreenKeeps
<1>3. ScreenInv => PanelIsTrue
    BY WholeFrameIsShown, TextIsThere DEF ScreenInv, PanelIsTrue
<1> QED
    BY <1>1, <1>2, <1>3, PTL DEF MCSpec
=============================================================================
