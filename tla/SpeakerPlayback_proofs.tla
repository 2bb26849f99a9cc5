------------------------- MODULE SpeakerPlayback_proofs ------------------------
(***************************************************************************)
(* What holds of one speaker from the wire to the sound card, for every    *)
(* size of the window, every patience and every even modulus, as long as   *)
(* the network keeps to its bounds.                                        *)
(*                                                                         *)
(* First the reorder window alone: due, the number that next_seq stands    *)
(* for, trails newest by less than the window and leads it by at most one  *)
(* (WindowInv).  So whatever the network may deliver is less than half the *)
(* modulus away from due, and there the signed 16-bit difference is the    *)
(* true one.  What a step hands on is then a run counted from due, or all  *)
(* that waits in the order of its numbers, and nothing else leaves the     *)
(* window.                                                                 *)
(*                                                                         *)
(* Then the two threads: the receive pump and the sound card together do   *)
(* to the window only what the pump alone does, so what is proved of the   *)
(* window holds of every call that is also being listened to.  And the     *)
(* samples between them stay in pairs: the ring holds left samples in even *)
(* places and right ones in odd places, for whatever is queued in it,      *)
(* which survives dropping the oldest to make room (whole frames, or all   *)
(* there is) and taking part of a request (the card asks for pairs).       *)
(***************************************************************************)
EXTENDS SpeakerPlayback, FiniteSetTheorems, SequenceTheorems, WellFoundedInduction, TLAPS

--------------------------------------------------------------------------------
(* Arithmetic on the wire *)

\* A multiple of the modulus that is smaller than the modulus is zero.
LEMMA SmallMultiple ==
    ASSUME NEW d \in Int, -Modulus < Modulus * d, Modulus * d < Modulus
    PROVE  d = 0
<1>1. CASE d >= 1
  <2>1. Modulus * d >= Modulus BY <1>1, ModulusAssumption
  <2>. QED BY <2>1, ModulusAssumption
<1>2. CASE d <= -1
  <2>1. Modulus * d <= -Modulus BY <1>2, ModulusAssumption
  <2>. QED BY <2>1, ModulusAssumption
<1>. QED BY <1>1, <1>2

LEMMA Distributes ==
    ASSUME NEW x \in Int, NEW y \in Int
    PROVE  Modulus * (x - y) = Modulus * x - Modulus * y
BY ModulusAssumption

\* What % and \div compute.
LEMMA Division ==
    ASSUME NEW a \in Int
    PROVE  /\ a % Modulus \in 0..(Modulus - 1)
           /\ a \div Modulus \in Int
           /\ a = Modulus * (a \div Modulus) + (a % Modulus)
BY ModulusAssumption

\* There is one way to write a number as a multiple and a remainder.
LEMMA Remainder ==
    ASSUME NEW a \in Int, NEW q \in Int, NEW r \in 0..(Modulus - 1),
           a = Modulus * q + r
    PROVE  a % Modulus = r
<1>. DEFINE p == a \div Modulus
<1>1. /\ a % Modulus \in 0..(Modulus - 1) /\ p \in Int
      /\ a = Modulus * p + (a % Modulus)
  BY Division
<1>2. Modulus * (p - q) = r - (a % Modulus) BY <1>1, ModulusAssumption
<1>3. -Modulus < Modulus * (p - q) /\ Modulus * (p - q) < Modulus
  BY <1>1, <1>2, ModulusAssumption
<1>4. p - q = 0 BY <1>1, <1>3, SmallMultiple
<1>5. Modulus * (p - q) = 0 BY <1>4, ModulusAssumption
<1>. QED BY <1>1, <1>2, <1>5

\* The number on the wire is one of the modulus's remainders.
LEMMA WireType == \A n \in Int : Wire(n) \in 0..(Modulus - 1)
BY Division DEF Wire

\* Counting on from a number on the wire is counting on in the stream.
LEMMA WireStep ==
    ASSUME NEW n \in Int, NEW k \in Int
    PROVE  (Wire(n) + k) % Modulus = Wire(n + k)
<1>. DEFINE q == n \div Modulus
            p == (n + k) \div Modulus
<1>1. Wire(n) \in Int /\ q \in Int /\ n = Modulus * q + Wire(n)
  BY Division, WireType, ModulusAssumption DEF Wire
<1>2. /\ Wire(n + k) \in 0..(Modulus - 1) /\ p \in Int
      /\ n + k = Modulus * p + Wire(n + k)
  BY Division DEF Wire
<1>. HIDE DEF p, q
<1>3. Wire(n) + k = Modulus * (p - q) + Wire(n + k)
  BY <1>1, <1>2, Distributes, ModulusAssumption
<1>. QED BY <1>1, <1>2, <1>3, Remainder

\* Packets less than the modulus apart are told apart on the wire.
LEMMA WireInjective ==
    ASSUME NEW a \in Int, NEW b \in Int, Wire(a) = Wire(b),
           -Modulus < a - b, a - b < Modulus
    PROVE  a = b
<1>. DEFINE p == a \div Modulus
            q == b \div Modulus
<1>1. p \in Int /\ Wire(a) \in Int /\ a = Modulus * p + Wire(a)
  BY Division, WireType, ModulusAssumption DEF Wire
<1>2. q \in Int /\ Wire(b) \in Int /\ b = Modulus * q + Wire(b)
  BY Division, WireType, ModulusAssumption DEF Wire
<1>. HIDE DEF p, q
<1>3. a - b = Modulus * (p - q) BY <1>1, <1>2, Distributes, ModulusAssumption
<1>4. p - q = 0 BY <1>1, <1>2, <1>3, SmallMultiple
<1>5. Modulus * (p - q) = 0 BY <1>4, ModulusAssumption
<1>. QED BY <1>3, <1>5

\* The signed difference on the wire is the difference in the stream, for
\* packets at most half the modulus apart.
LEMMA SeqAheadIsDifference ==
    ASSUME NEW a \in Int, NEW b \in Int,
           -Modulus <= 2 * (a - b), 2 * (a - b) < Modulus
    PROVE  SeqAhead(Wire(a), Wire(b)) = a - b
<1>. DEFINE d == (Wire(a) - Wire(b)) % Modulus
            p == a \div Modulus
            q == b \div Modulus
<1>1. p \in Int /\ Wire(a) \in Int /\ a = Modulus * p + Wire(a)
  BY Division, WireType, ModulusAssumption DEF Wire
<1>2. q \in Int /\ Wire(b) \in Int /\ b = Modulus * q + Wire(b)
  BY Division, WireType, ModulusAssumption DEF Wire
<1>. HIDE DEF p, q
<1>3. Wire(a) - Wire(b) = Modulus * (q - p) + (a - b)
  BY <1>1, <1>2, Distributes, ModulusAssumption
<1>4. CASE a - b >= 0
  <2>1. a - b \in 0..(Modulus - 1) BY <1>4, ModulusAssumption
  <2>2. d = a - b BY <1>1, <1>2, <1>3, <2>1, Remainder
  <2>. QED BY <2>2 DEF SeqAhead
<1>5. CASE a - b < 0
  <2>1. a - b + Modulus \in 0..(Modulus - 1) BY <1>5, ModulusAssumption
  <2>2. Wire(a) - Wire(b) = Modulus * ((q - p) - 1) + (a - b + Modulus)
    BY <1>1, <1>2, <1>3, Distributes, ModulusAssumption
  <2>3. d = a - b + Modulus BY <1>1, <1>2, <2>1, <2>2, Remainder
  <2>4. ~(2 * d < Modulus) BY <2>3, ModulusAssumption
  <2>5. d - Modulus = a - b BY <2>3, ModulusAssumption
  <2>. QED BY <2>4, <2>5 DEF SeqAhead
<1>. QED BY <1>4, <1>5

\* Min picks the least of any numbers.
LEMMA MinIsLeast ==
    ASSUME NEW S \in SUBSET Nat, S # {}
    PROVE  Min(S) \in S /\ \A y \in S : Min(S) <= y
<1>. DEFINE R == OpToRel(<, Nat)
<1>1. R = {ss \in Nat \X Nat : ss[1] < ss[2]} BY Zenon DEF OpToRel
<1>2. IsWellFoundedOn(R, Nat) BY NatLessThanWellFounded
<1>. HIDE DEF R
<1>3. PICK x \in S : \A y \in S : ~(<<y, x>> \in R) BY <1>2, WFMin
<1>4. \A y \in S : <<y, x>> \in R <=> y < x BY <1>1
<1>5. \A y \in S : ~(y < x) BY <1>3, <1>4, Zenon
<1>6. \A y \in S : x <= y BY <1>5
<1>. QED BY <1>6, Zenon DEF Min

\* What is so for none, and for one more wherever it is so, is so up to any number.
LEMMA CountingUp ==
    ASSUME NEW n \in Nat, NEW T, 0 \in T, \A k \in 0..(n - 1) : k \in T => k + 1 \in T
    PROVE  \A k \in 0..n : k \in T
<1>. DEFINE S == {k \in 0..n : k \notin T}
<1>1. SUFFICES ASSUME S # {} PROVE FALSE OBVIOUS
<1>2. S \in SUBSET Nat OBVIOUS
<1>3. Min(S) \in S /\ \A y \in S : Min(S) <= y BY <1>1, <1>2, MinIsLeast
<1>. DEFINE m == Min(S)
<1>4. m \in 0..n /\ m \notin T /\ m # 0 BY <1>3
<1>5. \A y \in S : m <= y BY <1>3
<1>. HIDE DEF m
<1>6. m - 1 \in 0..(n - 1) /\ m - 1 \in 0..n /\ ~(m <= m - 1) /\ m - 1 + 1 = m BY <1>4
<1>7. m - 1 \notin S BY <1>5, <1>6
<1>8. m - 1 \in T BY <1>6, <1>7
<1>. QED BY <1>4, <1>6, <1>8

--------------------------------------------------------------------------------
(* The window's inductive invariant *)

RxType == [pending : [Slots -> 0..LastNo], next_seq : 0..(Modulus - 1),
           have_next : BOOLEAN, gap_wait : 0..Patience, due : Nat]

\* next_seq stands for due, and what waits is inside the window, each once.
Placed(w) ==
    /\ w.due >= 1 /\ w.next_seq = Wire(w.due)
    /\ \A i \in Used(w) :
         /\ w.due <= w.pending[i] /\ w.pending[i] < w.due + Window
         /\ \A j \in Used(w) : w.pending[i] = w.pending[j] => i = j

\* Nobody waits whose turn it is.
Settled(w) == \A i \in Used(w) : w.due < w.pending[i]

\* The window keeps up with the newest packet.
Reaches(w, top) ==
    /\ w.due <= top + 1 /\ top < w.due + Window
    /\ \A i \in Used(w) : w.pending[i] <= top

WindowInv ==
    /\ rx \in RxType /\ newest \in 0..LastNo
    /\ ~rx.have_next => Used(rx) = {} /\ newest = 0 /\ rx.due = 0
    /\ rx.have_next => /\ newest >= 1
                       /\ Placed(rx) /\ Settled(rx) /\ Reaches(rx, newest)

LEMMA ConstantTypes ==
    /\ Window \in Nat /\ Window >= 1 /\ Patience \in Nat /\ Patience >= 1
    /\ Modulus \in Nat /\ Modulus >= 1 /\ Window < Modulus
    /\ MaxLate \in Nat /\ MaxJump \in Nat /\ LastNo \in Nat
    /\ FirstNo \in Nat /\ FirstNo >= 1
BY StreamAssumption, WindowAssumption, ModulusAssumption

\* Which slot the k-th turn belongs to: the one with that number of the stream.
LEMMA WaitingIsNumber ==
    ASSUME NEW w \in RxType, Placed(w), NEW k \in 0..Window, NEW i \in Slots
    PROVE  i \in WaitingAt(w, NextSeq(w, k)) <=> w.pending[i] = w.due + k
<1>1. w.due \in Nat /\ w.due >= 1 /\ w.pending[i] \in Nat
  BY ConstantTypes DEF RxType, Placed
<1>2. NextSeq(w, k) = Wire(w.due + k)
  <2>1. w.due \in Int /\ k \in Int BY <1>1, ConstantTypes
  <2>2. (Wire(w.due) + k) % Modulus = Wire(w.due + k) BY <2>1, WireStep
  <2>. QED BY <2>2 DEF NextSeq, Placed
<1>3. ASSUME i \in Used(w), Wire(w.pending[i]) = Wire(w.due + k)
      PROVE  w.pending[i] = w.due + k
  <2>1. w.due <= w.pending[i] /\ w.pending[i] < w.due + Window BY <1>3 DEF Placed
  <2>2. /\ -Modulus < w.pending[i] - (w.due + k)
        /\ w.pending[i] - (w.due + k) < Modulus
    BY <1>1, <2>1, ConstantTypes
  <2>3. w.pending[i] \in Int /\ w.due + k \in Int BY <1>1
  <2>. QED BY <1>3, <2>2, <2>3, WireInjective
<1>4. w.pending[i] = w.due + k => i \in Used(w) BY <1>1 DEF Used
<1>. QED BY <1>2, <1>3, <1>4 DEF WaitingAt

\* The run is as long as every turn in it has a packet, and no longer.
LEMMA RunLengthIs ==
    ASSUME NEW w
    PROVE  /\ RunLength(w) \in 0..Window
           /\ \A k \in 0..(RunLength(w) - 1) : WaitingAt(w, NextSeq(w, k)) # {}
           /\ RunLength(w) < Window => WaitingAt(w, NextSeq(w, RunLength(w))) = {}
<1>. DEFINE S == {k \in 0..Window : WaitingAt(w, NextSeq(w, k)) = {}} \union {Window}
<1>1. S \in SUBSET Nat /\ S # {} /\ S \subseteq 0..Window BY ConstantTypes
<1>2. RunLength(w) = Min(S) BY DEF RunLength
<1>3. RunLength(w) \in S /\ \A k \in S : RunLength(w) <= k
  BY <1>1, <1>2, MinIsLeast
<1>4. RunLength(w) \in 0..Window BY <1>1, <1>3
<1>5. ASSUME NEW k \in 0..(RunLength(w) - 1)
      PROVE  WaitingAt(w, NextSeq(w, k)) # {}
  <2>1. k \in 0..Window /\ k < RunLength(w) BY <1>4, ConstantTypes
  <2>2. k \in Nat /\ RunLength(w) \in Nat BY <1>4, <2>1, ConstantTypes
  <2>3. ~(RunLength(w) <= k) BY <2>1, <2>2
  <2>4. k \notin S BY <1>3, <2>3, Zenon
  <2>. QED BY <2>1, <2>4
<1>6. ASSUME RunLength(w) < Window
      PROVE  WaitingAt(w, NextSeq(w, RunLength(w))) = {}
  BY <1>3, <1>4, <1>6, ConstantTypes
<1>. QED BY <1>4, <1>5, <1>6

\* What a drain makes of the fields, whatever the window holds.
LEMMA DrainedFields ==
    ASSUME NEW w \in RxType
    PROVE  /\ Drained(w) \in RxType
           /\ Drained(w).have_next = w.have_next
           /\ Drained(w).due = w.due + RunLength(w)
           /\ Drained(w).next_seq = NextSeq(w, RunLength(w))
           /\ Drained(w).gap_wait \in {0, w.gap_wait}
           /\ \A i \in Slots :
                Drained(w).pending[i] =
                    IF i \in {Turn(w, k) : k \in 0..(RunLength(w) - 1)}
                    THEN 0 ELSE w.pending[i]
<1>. DEFINE n == RunLength(w)
            freed == {Turn(w, k) : k \in 0..(n - 1)}
            left == [i \in Slots |-> IF i \in freed THEN 0 ELSE w.pending[i]]
            wait == IF n > 0 THEN 0 ELSE w.gap_wait
<1>1. n \in Nat BY RunLengthIs, ConstantTypes
<1>2. NextSeq(w, n) \in 0..(Modulus - 1)
  <2>1. w.next_seq + n \in Int BY <1>1, ConstantTypes DEF RxType
  <2>. QED BY <2>1, Division DEF NextSeq
<1>3. left \in [Slots -> 0..LastNo] BY ConstantTypes DEF RxType
<1>4. wait \in 0..Patience /\ wait \in {0, w.gap_wait}
  BY <1>1, ConstantTypes DEF RxType
<1>5. w.due + n \in Nat BY <1>1 DEF RxType
<1>6. Drained(w) = [w EXCEPT !.pending = left, !.next_seq = NextSeq(w, n),
                             !.due = w.due + n, !.gap_wait = wait]
  BY DEF Drained
<1>7. \A i \in Slots : left[i] = IF i \in freed THEN 0 ELSE w.pending[i]
  OBVIOUS
<1>. HIDE DEF n, left, wait, freed
<1>8. /\ Drained(w) \in RxType /\ Drained(w).have_next = w.have_next
      /\ Drained(w).due = w.due + n /\ Drained(w).next_seq = NextSeq(w, n)
      /\ Drained(w).gap_wait = wait /\ Drained(w).pending = left
  BY <1>2, <1>3, <1>4, <1>5, <1>6 DEF RxType
<1>. QED BY <1>4, <1>7, <1>8 DEF n, freed

\* A window in which nothing waits has nothing to drain.
LEMMA NothingToDrain ==
    ASSUME NEW w \in RxType, Used(w) = {}
    PROVE  RunLength(w) = 0 /\ Drained(w).due = w.due
<1>1. \A k : WaitingAt(w, NextSeq(w, k)) = {} BY DEF WaitingAt
<1>2. RunLength(w) \in Nat /\ ~(0 \in 0..(RunLength(w) - 1))
  BY <1>1, RunLengthIs, ConstantTypes
<1>3. RunLength(w) = 0 BY <1>2
<1>. QED BY <1>3, DrainedFields DEF RxType

\* A drain takes exactly the numbers of its run out of the window.
LEMMA DrainedTakesRun ==
    ASSUME NEW w \in RxType, Placed(w), NEW i \in Slots
    PROVE  Drained(w).pending[i] =
               IF w.due <= w.pending[i] /\ w.pending[i] < w.due + RunLength(w)
               THEN 0 ELSE w.pending[i]
<1>. DEFINE n == RunLength(w)
<1>1. /\ n \in 0..Window /\ w.due \in Nat /\ w.due >= 1 /\ w.pending[i] \in Nat
      /\ Window \in Nat
  BY RunLengthIs, ConstantTypes DEF RxType, Placed
<1>2. \A k \in 0..(n - 1) :
        Turn(w, k) \in Slots /\ w.pending[Turn(w, k)] = w.due + k
  <2>. TAKE k \in 0..(n - 1)
  <2>1. WaitingAt(w, NextSeq(w, k)) # {} BY RunLengthIs
  <2>2. WaitingAt(w, NextSeq(w, k)) \in SUBSET Slots BY DEF WaitingAt, Used
  <2>3. Slots \in SUBSET Nat BY ConstantTypes DEF Slots
  <2>4. Turn(w, k) \in WaitingAt(w, NextSeq(w, k))
    BY <2>1, <2>2, <2>3, MinIsLeast DEF Turn
  <2>5. k \in 0..Window BY <1>1
  <2>. QED BY <2>2, <2>4, <2>5, WaitingIsNumber
<1>3. ASSUME w.due <= w.pending[i], w.pending[i] < w.due + n
      PROVE  i \in {Turn(w, k) : k \in 0..(n - 1)}
  <2>. DEFINE k == w.pending[i] - w.due
  <2>1. k \in 0..(n - 1) /\ w.pending[i] = w.due + k BY <1>1, <1>3
  <2>2. Turn(w, k) \in Slots /\ w.pending[Turn(w, k)] = w.pending[i]
    BY <1>2, <2>1
  <2>3. i \in Used(w) /\ Turn(w, k) \in Used(w)
    BY <1>1, <1>3, <2>2 DEF Used
  <2>4. Turn(w, k) = i BY <2>2, <2>3 DEF Placed
  <2>. QED BY <2>1, <2>4
<1>4. ASSUME NEW k \in 0..(n - 1), i = Turn(w, k)
      PROVE  w.due <= w.pending[i] /\ w.pending[i] < w.due + n
  BY <1>1, <1>2, <1>4
<1>. QED BY <1>3, <1>4, DrainedFields

\* A drain leaves a window whose next packet is not there.
LEMMA DrainedKeeps ==
    ASSUME NEW w \in RxType, NEW top \in Nat, Placed(w), Reaches(w, top)
    PROVE  /\ Placed(Drained(w)) /\ Settled(Drained(w))
           /\ Reaches(Drained(w), top)
<1>. DEFINE n == RunLength(w)
            d == Drained(w)
<1>1. /\ n \in 0..Window /\ n \in Nat /\ w.due \in Nat /\ w.due >= 1
      /\ Window \in Nat
  BY RunLengthIs, ConstantTypes DEF RxType, Placed
<1>2. d \in RxType /\ d.due = w.due + n /\ d.next_seq = NextSeq(w, n)
  BY DrainedFields
<1>3. \A i \in Used(d) :
        /\ i \in Used(w) /\ d.pending[i] = w.pending[i] /\ w.pending[i] \in Nat
        /\ ~(w.due <= w.pending[i] /\ w.pending[i] < w.due + n)
  BY DrainedTakesRun DEF Used, RxType
<1>4. \A i \in Used(w) :
        w.pending[i] \in Nat /\ w.due <= w.pending[i] /\ w.pending[i] < w.due + Window
  BY DEF Placed, Used, RxType
<1>5. \A i \in Used(d) : d.pending[i] # w.due + n
  <2>. SUFFICES ASSUME NEW i \in Used(d), w.pending[i] = w.due + n PROVE FALSE
    BY <1>3
  <2>1. i \in Slots /\ i \in Used(w) BY <1>3 DEF Used
  <2>2. n < Window BY <1>1, <1>4, <2>1
  <2>3. WaitingAt(w, NextSeq(w, n)) = {} BY <2>2, RunLengthIs
  <2>4. i \in WaitingAt(w, NextSeq(w, n)) BY <1>1, <2>1, WaitingIsNumber
  <2>. QED BY <2>3, <2>4
<1>6. d.next_seq = Wire(d.due)
  <2>1. w.due \in Int /\ n \in Int BY <1>1
  <2>. HIDE DEF n, d
  <2>2. (Wire(w.due) + n) % Modulus = Wire(w.due + n) BY <2>1, WireStep
  <2>. QED BY <1>2, <2>2 DEF NextSeq, Placed
<1>7. \A i \in Used(d) : d.due < d.pending[i] /\ d.pending[i] < d.due + Window
  BY <1>1, <1>2, <1>3, <1>4, <1>5
<1>8. \A i, j \in Used(d) : d.pending[i] = d.pending[j] => i = j
  BY <1>3 DEF Placed
<1>9. Placed(d) /\ Settled(d)
  <2>1. d.due >= 1 BY <1>1, <1>2
  <2>. HIDE DEF d
  <2>2. \A i \in Used(d) : d.due \in Nat /\ d.pending[i] \in Nat
    BY <1>2 DEF RxType, Used
  <2>3. \A i \in Used(d) : d.due <= d.pending[i] BY <1>7, <2>2
  <2>. QED BY <1>6, <1>7, <1>8, <2>1, <2>3 DEF Placed, Settled
<1>10. w.due + n <= top + 1
  <2>1. CASE n = 0 BY <1>1, <2>1 DEF Reaches
  <2>2. CASE n > 0
    <3>1. n - 1 \in 0..(n - 1) /\ n - 1 \in 0..Window BY <1>1, <2>2
    <3>2. WaitingAt(w, NextSeq(w, n - 1)) # {} BY <3>1, RunLengthIs
    <3>3. PICK i \in WaitingAt(w, NextSeq(w, n - 1)) : TRUE BY <3>2
    <3>4. i \in Used(w) /\ i \in Slots BY <3>3 DEF WaitingAt, Used
    <3>5. w.pending[i] = w.due + (n - 1) BY <3>1, <3>3, <3>4, WaitingIsNumber
    <3>6. w.pending[i] <= top BY <3>4 DEF Reaches
    <3>. QED BY <1>1, <3>5, <3>6
  <2>. QED BY <1>1, <2>1, <2>2
<1>11. Reaches(d, top)
  BY <1>1, <1>2, <1>3, <1>10 DEF Reaches
<1>. QED BY <1>9, <1>11

\* Putting a packet of the window that does not wait yet into a free slot.
LEMMA PutKeeps ==
    ASSUME NEW w \in RxType, NEW top \in Nat, NEW n \in 1..LastNo,
           Placed(w), Reaches(w, top), Free(w) # {}, ~Repeated(w, n),
           w.due <= n, n < w.due + Window, n <= top
    PROVE  Put(w, n) \in RxType /\ Put(w, n).have_next = w.have_next
           /\ Placed(Put(w, n)) /\ Reaches(Put(w, n), top)
<1>. DEFINE f == Min(Free(w))
            p == Put(w, n)
<1>1. Free(w) \in SUBSET Nat /\ Free(w) \subseteq Slots
  BY ConstantTypes DEF Free, Slots
<1>2. f \in Slots /\ f \notin Used(w) BY <1>1, MinIsLeast DEF Free
<1>3. w.due \in Nat /\ n \in Nat /\ n # 0 /\ n \in 0..LastNo /\ Window \in Nat
  BY ConstantTypes DEF RxType
<1>4. p = [w EXCEPT !.pending[f] = n] BY DEF Put
<1>. HIDE DEF f
<1>5. /\ p \in RxType /\ p.have_next = w.have_next /\ p.due = w.due
      /\ p.next_seq = w.next_seq
      /\ p.pending[f] = n
      /\ \A i \in Slots : i # f => p.pending[i] = w.pending[i]
  BY <1>2, <1>3, <1>4 DEF RxType
<1>6. \A i \in Used(p) : i = f \/ (i \in Used(w) /\ p.pending[i] = w.pending[i])
  BY <1>5 DEF Used
<1>7. \A i \in Used(w) : w.pending[i] # n BY DEF Repeated, WaitingAt
<1>8. \A i \in Used(p) : p.due <= p.pending[i] /\ p.pending[i] < p.due + Window
                          /\ p.pending[i] <= top
  BY <1>3, <1>5, <1>6 DEF Placed, Reaches
<1>9. \A i, j \in Used(p) : p.pending[i] = p.pending[j] => i = j
  BY <1>5, <1>6, <1>7 DEF Placed
<1>10. Placed(p) BY <1>5, <1>8, <1>9 DEF Placed
<1>11. Reaches(p, top) BY <1>5, <1>8 DEF Reaches
<1>. QED BY <1>5, <1>10, <1>11

\* Inside the network's bounds the offset on the wire is the offset in the stream.
LEMMA OffsetIsDistance ==
    ASSUME NEW w \in RxType, NEW n \in FirstNo..LastNo,
           w.next_seq = Wire(w.due), w.due <= newest + 1, newest < w.due + Window,
           newest \in 0..LastNo,
           (newest - MaxLate <= n /\ n <= newest + MaxJump) \/ n = w.due
    PROVE  Offset(w, n) = n - w.due
<1>1. n \in Int /\ w.due \in Int /\ newest \in Int BY ConstantTypes DEF RxType
<1>2. -Modulus <= 2 * (n - w.due) /\ 2 * (n - w.due) < Modulus
  <2>1. CASE n = w.due
    <3>1. n - w.due = 0 BY <1>1, <2>1
    <3>. QED BY <3>1, ConstantTypes
  <2>2. CASE newest - MaxLate <= n /\ n <= newest + MaxJump
    <3>1. n - w.due >= -(MaxLate + 1) /\ n - w.due < MaxJump + Window
      BY <1>1, <2>2, ConstantTypes
    <3>. QED BY <1>1, <3>1, ConstantTypes, ModulusAssumption
  <2>. QED BY <2>1, <2>2
<1>. QED BY <1>1, <1>2, SeqAheadIsDifference DEF Offset

--------------------------------------------------------------------------------
(* The flush *)

\* The flush takes the earliest of what is left, over and over.
LEMMA FlushPicks ==
    ASSUME NEW w, Cardinality(Used(w)) \in Nat
    PROVE  \E left :
             /\ left[0] = Used(w)
             /\ \A k \in 1..Cardinality(Used(w)) :
                    left[k] = left[k - 1] \ {Earliest(w, left[k - 1])}
             /\ FlushOrder(w) = [k \in 1..Cardinality(Used(w)) |-> Earliest(w, left[k - 1])]
<1>. DEFINE Rest(S) == S \ {Earliest(w, S)}
            all == Used(w)
            n == Cardinality(Used(w))
            Is(f, m) == f = [k \in 0..m |-> IF k = 0 THEN all ELSE Rest(f[k - 1])]
            T == {m \in Nat : \E f : Is(f, m)}
            left == CHOOSE f : Is(f, n)
<1>1. FlushOrder(w) = [k \in 1..n |-> Earliest(w, left[k - 1])]
  BY Zenon DEF FlushOrder
<1>0. n \in Nat OBVIOUS
<1>. HIDE DEF Rest, all, n
<1>2. 0 \in T
  <2>. DEFINE f == [k \in 0..0 |-> all]
  <2>1. Is(f, 0) OBVIOUS
  <2>. QED BY <2>1
<1>3. ASSUME NEW m \in 0..(n - 1), m \in T PROVE m + 1 \in T
  <2>1. PICK g : Is(g, m) BY <1>3
  <2>2. m \in Nat /\ \A k \in 0..m : g[k] = IF k = 0 THEN all ELSE Rest(g[k - 1]) BY <2>1
  <2>. DEFINE f == [k \in 0..(m + 1) |-> IF k = m + 1 THEN Rest(g[m]) ELSE g[k]]
  <2>3. \A k \in 0..(m + 1) : f[k] = IF k = 0 THEN all ELSE Rest(f[k - 1])
    <3>. TAKE k \in 0..(m + 1)
    <3>1. CASE k = m + 1
      <4>1. f[k] = Rest(g[m]) /\ f[k - 1] = g[m] /\ k # 0 BY <2>2, <3>1
      <4>. QED BY <4>1
    <3>2. CASE k # m + 1
      <4>1. k \in 0..m /\ f[k] = g[k] BY <2>2, <3>2
      <4>2. k # 0 => k - 1 \in 0..m /\ f[k - 1] = g[k - 1] BY <2>2, <4>1
      <4>. QED BY <2>2, <4>1, <4>2
    <3>. QED BY <3>1, <3>2
  <2>4. f = [k \in 0..(m + 1) |-> f[k]] OBVIOUS
  <2>. HIDE DEF f
  <2>5. Is(f, m + 1) BY <2>3, <2>4
  <2>. QED BY <2>2, <2>5
<1>4. n \in T
  <2>. HIDE DEF T
  <2>1. \A k \in 0..n : k \in T BY <1>0, <1>2, <1>3, CountingUp
  <2>. QED BY <1>0, <2>1
<1>5. Is(left, n)
  <2>1. \E f : Is(f, n) BY <1>4
  <2>. HIDE DEF Is
  <2>. QED BY <2>1, Zenon
<1>6. left[0] = all /\ \A k \in 1..n : left[k] = Rest(left[k - 1])
  <2>. HIDE DEF left
  <2>1. \A k \in 0..n : left[k] = IF k = 0 THEN all ELSE Rest(left[k - 1]) BY <1>5
  <2>. QED BY <1>0, <2>1
<1>. QED BY ZenonT(40), <1>1, <1>6 DEF Rest, all, n

\* Of packets in the window the earliest on the wire is the earliest of the stream.
LEMMA EarliestIs ==
    ASSUME NEW w \in RxType, Placed(w), NEW S, S # {}, S \subseteq Used(w)
    PROVE  /\ Earliest(w, S) \in S
           /\ \A j \in S : j # Earliest(w, S) => w.pending[Earliest(w, S)] < w.pending[j]
<1>1. \A i \in Used(w) : /\ w.pending[i] \in Nat /\ w.due <= w.pending[i]
                         /\ w.pending[i] < w.due + Window
  BY ConstantTypes DEF RxType, Used, Placed
<1>2. w.due \in Nat BY DEF RxType
<1>3. \A i, j \in Used(w) : Earlier(w.pending[j], w.pending[i]) <=> w.pending[j] < w.pending[i]
  <2>. TAKE i, j \in Used(w)
  <2>1. -Window < w.pending[j] - w.pending[i] /\ w.pending[j] - w.pending[i] < Window
    BY <1>1, <1>2, ConstantTypes
  <2>2. 2 * Window < Modulus BY ConstantTypes, ModulusAssumption
  <2>3. /\ -Modulus <= 2 * (w.pending[j] - w.pending[i])
        /\ 2 * (w.pending[j] - w.pending[i]) < Modulus
    BY <1>1, <2>1, <2>2, ConstantTypes
  <2>4. w.pending[j] \in Int /\ w.pending[i] \in Int BY <1>1
  <2>5. SeqAhead(Wire(w.pending[j]), Wire(w.pending[i])) = w.pending[j] - w.pending[i]
    BY <2>3, <2>4, SeqAheadIsDifference
  <2>. QED BY <2>4, <2>5 DEF Earlier
<1>. DEFINE N == {w.pending[i] : i \in S}
            Good(i) == \A j \in S : ~Earlier(w.pending[j], w.pending[i])
<1>4. N \in SUBSET Nat /\ N # {} BY <1>1
<1>5. Min(N) \in N /\ \A y \in N : Min(N) <= y BY <1>4, MinIsLeast
<1>6. PICK i \in S : w.pending[i] = Min(N) BY <1>5
<1>7. \A j \in S : w.pending[i] <= w.pending[j] BY <1>5, <1>6
<1>8. Good(i) BY <1>1, <1>3, <1>7
<1>9. Earliest(w, S) \in S /\ Good(Earliest(w, S)) BY <1>8, Zenon DEF Earliest
<1>10. ASSUME NEW j \in S, j # Earliest(w, S)
       PROVE  w.pending[Earliest(w, S)] < w.pending[j]
  <2>1. w.pending[Earliest(w, S)] # w.pending[j] BY <1>9, <1>10 DEF Placed
  <2>2. ~(w.pending[j] < w.pending[Earliest(w, S)]) BY <1>3, <1>9
  <2>. QED BY <1>1, <1>9, <2>1, <2>2
<1>. QED BY <1>9, <1>10

\* The flush takes every packet that waits, once each, in the order they were sent.
LEMMA FlushOrderIs ==
    ASSUME NEW w \in RxType, Placed(w)
    PROVE  \E n \in Nat :
             /\ FlushOrder(w) \in [1..n -> Used(w)]
             /\ \A i \in Used(w) : \E k \in 1..n : FlushOrder(w)[k] = i
             /\ \A j, k \in 1..n : j < k =>
                    w.pending[FlushOrder(w)[j]] < w.pending[FlushOrder(w)[k]]
<1>. DEFINE n == Cardinality(Used(w))
            order == FlushOrder(w)
<1>1. IsFiniteSet(Used(w)) /\ n \in Nat
  <2>1. IsFiniteSet(Slots) /\ Used(w) \subseteq Slots
    BY FS_Interval, ConstantTypes DEF Slots, Used
  <2>2. IsFiniteSet(Used(w)) BY <2>1, FS_Subset
  <2>. QED BY <2>2, FS_CardinalityType
<1>2. PICK left : /\ left[0] = Used(w)
                  /\ \A k \in 1..n : left[k] = left[k - 1] \ {Earliest(w, left[k - 1])}
                  /\ order = [k \in 1..n |-> Earliest(w, left[k - 1])]
  BY <1>1, FlushPicks
<1>3. \A i \in Used(w) : w.pending[i] \in Nat BY DEF RxType, Used
<1>. DEFINE LeftAt(k) ==
              /\ left[k] \subseteq Used(w) /\ IsFiniteSet(left[k])
              /\ Cardinality(left[k]) = n - k
              /\ \A j \in 1..k : order[j] \in Used(w) \ left[k]
              /\ \A i \in Used(w) \ left[k] :
                    /\ \E j \in 1..k : order[j] = i
                    /\ \A m \in left[k] : w.pending[i] < w.pending[m]
            T == {k \in 0..n : LeftAt(k)}
<1>. HIDE DEF n, order
<1>4. LeftAt(0) BY <1>1, <1>2 DEF n
<1>5. ASSUME NEW k \in 0..(n - 1), LeftAt(k) PROVE LeftAt(k + 1)
  <2>. DEFINE S == left[k]
              e == Earliest(w, S)
  <2>1. Cardinality(S) = n - k /\ n - k # 0 /\ IsFiniteSet(S) /\ k \in Nat /\ S \subseteq Used(w)
    BY <1>1, <1>5
  <2>2. S # {} BY <2>1, FS_EmptySet
  <2>3. e \in S /\ \A j \in S : j # e => w.pending[e] < w.pending[j]
    BY <2>1, <2>2, EarliestIs
  <2>4. k + 1 \in 1..n /\ k + 1 - 1 = k BY <1>1, <2>1
  <2>5. left[k + 1] = S \ {e} /\ order[k + 1] = e BY <1>2, <2>4
  <2>. HIDE DEF e, S
  <2>6. /\ IsFiniteSet(S \ {e}) /\ Cardinality(S \ {e}) = n - (k + 1)
    <3>1. IsFiniteSet(S \ {e}) /\ Cardinality(S \ {e}) = Cardinality(S) - 1
      BY <2>1, <2>3, FS_RemoveElement
    <3>. QED BY <1>1, <2>1, <3>1
  <2>7. \A j \in 1..(k + 1) : order[j] \in Used(w) \ left[k + 1]
    <3>. TAKE j \in 1..(k + 1)
    <3>1. CASE j = k + 1 BY <2>1, <2>3, <2>5, <3>1
    <3>2. CASE j # k + 1
      <4>1. j \in 1..k BY <2>1, <3>2
      <4>. QED BY <1>5, <2>5, <4>1 DEF S
    <3>. QED BY <3>1, <3>2
  <2>8. ASSUME NEW i \in Used(w) \ left[k + 1]
        PROVE  /\ \E j \in 1..(k + 1) : order[j] = i
               /\ \A m \in left[k + 1] : w.pending[i] < w.pending[m]
    <3>1. CASE i = e BY <2>1, <2>3, <2>5, <3>1
    <3>2. CASE i # e
      <4>1. i \in Used(w) \ left[k] BY <2>5, <2>8, <3>2 DEF S
      <4>2. PICK j \in 1..k : order[j] = i BY <1>5, <4>1
      <4>3. j \in 1..(k + 1) BY <2>1, <4>2
      <4>4. \A m \in left[k] : w.pending[i] < w.pending[m] BY <1>5, <4>1
      <4>. QED BY <2>5, <4>2, <4>3, <4>4 DEF S
    <3>. QED BY <3>1, <3>2
  <2>. QED BY <2>1, <2>5, <2>6, <2>7, <2>8
<1>6. \A k \in 0..n : LeftAt(k)
  <2>1. 0 \in T BY <1>1, <1>4
  <2>2. \A k \in 0..(n - 1) : k \in T => k + 1 \in T
    <3>. TAKE k \in 0..(n - 1)
    <3>1. k \in 0..n /\ k + 1 \in 0..n BY <1>1
    <3>. HIDE DEF LeftAt
    <3>. QED BY <1>5, <3>1
  <2>. HIDE DEF T
  <2>3. \A k \in 0..n : k \in T BY <1>1, <2>1, <2>2, CountingUp
  <2>. HIDE DEF LeftAt
  <2>. QED BY <2>3 DEF T
<1>7. order \in [1..n -> Used(w)]
  <2>1. \A k \in 1..n : order[k] \in Used(w)
    <3>. TAKE k \in 1..n
    <3>1. k \in 0..n /\ k \in 1..k BY <1>1
    <3>2. LeftAt(k) BY <1>6, <3>1
    <3>. QED BY <3>1, <3>2
  <2>. QED BY <1>2, <2>1
<1>8. ASSUME NEW i \in Used(w) PROVE \E k \in 1..n : order[k] = i
  <2>1. LeftAt(n) BY <1>1, <1>6
  <2>2. Cardinality(left[n]) = 0 /\ IsFiniteSet(left[n]) BY <1>1, <2>1
  <2>3. left[n] = {} BY <2>2, FS_EmptySet
  <2>. QED BY <2>1, <2>3
<1>9. ASSUME NEW j \in 1..n, NEW k \in 1..n, j < k
      PROVE  w.pending[order[j]] < w.pending[order[k]]
  <2>1. k - 1 \in 0..n /\ j \in 1..(k - 1) /\ k - 1 \in 0..(n - 1) BY <1>1, <1>9
  <2>2. LeftAt(k - 1) BY <1>6, <2>1
  <2>. DEFINE S == left[k - 1]
              e == Earliest(w, S)
  <2>3. Cardinality(S) # 0 /\ S \subseteq Used(w) BY <1>1, <2>1, <2>2
  <2>4. S # {} BY <2>3, FS_EmptySet
  <2>5. e \in S BY <2>3, <2>4, EarliestIs
  <2>6. order[k] = e BY <1>2
  <2>. HIDE DEF e
  <2>. QED BY <2>1, <2>2, <2>5, <2>6
<1>. QED BY <1>1, <1>7, <1>8, <1>9 DEF order

--------------------------------------------------------------------------------
(* What a step hands to the decoder *)

\* The run counts on from the packet that is due.
LEMMA RunIs ==
    ASSUME NEW w \in RxType, Placed(w)
    PROVE  /\ RunLength(w) \in Nat
           /\ Run(w) \in [1..RunLength(w) -> 1..LastNo]
           /\ \A k \in 1..RunLength(w) : Run(w)[k] = w.due + k - 1
<1>1. /\ RunLength(w) \in 0..Window /\ RunLength(w) \in Nat /\ w.due \in Nat /\ w.due >= 1
      /\ Window \in Nat
  BY RunLengthIs, ConstantTypes DEF RxType, Placed
<1>2. \A k \in 1..RunLength(w) :
        /\ w.pending[Turn(w, k - 1)] = w.due + k - 1
        /\ w.pending[Turn(w, k - 1)] \in 1..LastNo
  <2>. TAKE k \in 1..RunLength(w)
  <2>. DEFINE m == k - 1
  <2>0. m \in 0..(RunLength(w) - 1) /\ m \in 0..Window /\ w.due + m = w.due + k - 1
    BY <1>1
  <2>. HIDE DEF m
  <2>1. WaitingAt(w, NextSeq(w, m)) # {} BY <2>0, RunLengthIs
  <2>2. WaitingAt(w, NextSeq(w, m)) \in SUBSET Slots BY DEF WaitingAt, Used
  <2>3. Slots \in SUBSET Nat BY ConstantTypes DEF Slots
  <2>4. Turn(w, m) \in WaitingAt(w, NextSeq(w, m))
    BY <2>1, <2>2, <2>3, MinIsLeast DEF Turn
  <2>5. Turn(w, m) \in Slots /\ w.pending[Turn(w, m)] = w.due + m
    BY <2>0, <2>2, <2>4, WaitingIsNumber
  <2>6. w.pending[Turn(w, m)] \in 0..LastNo /\ w.pending[Turn(w, m)] # 0
    BY <2>2, <2>4 DEF RxType, WaitingAt, Used
  <2>. QED BY <2>0, <2>5, <2>6, ConstantTypes DEF m
<1>. QED BY <1>1, <1>2 DEF Run

\* And the flush goes through what waits.
LEMMA FlushedIs ==
    ASSUME NEW w \in RxType, Placed(w)
    PROVE  \E n \in Nat :
             /\ Flushed(w) \in [1..n -> 1..LastNo]
             /\ \A k \in 1..n : \E i \in Used(w) : Flushed(w)[k] = w.pending[i]
             /\ \A i \in Used(w) : \E k \in 1..n : Flushed(w)[k] = w.pending[i]
             /\ \A j, k \in 1..n : j < k => Flushed(w)[j] < Flushed(w)[k]
<1>1. PICK n \in Nat :
             /\ FlushOrder(w) \in [1..n -> Used(w)]
             /\ \A i \in Used(w) : \E k \in 1..n : FlushOrder(w)[k] = i
             /\ \A j, k \in 1..n : j < k =>
                    w.pending[FlushOrder(w)[j]] < w.pending[FlushOrder(w)[k]]
  BY FlushOrderIs
<1>2. Flushed(w) = [k \in 1..n |-> w.pending[FlushOrder(w)[k]]] BY <1>1 DEF Flushed
<1>3. \A i \in Used(w) : w.pending[i] \in 1..LastNo
  BY ConstantTypes DEF RxType, Used
<1>4. \A k \in 1..n : FlushOrder(w)[k] \in Used(w) BY <1>1
<1>. HIDE DEF Flushed
<1>5. Flushed(w) \in [1..n -> 1..LastNo] BY <1>2, <1>3, <1>4
<1>6. \A k \in 1..n : \E i \in Used(w) : Flushed(w)[k] = w.pending[i] BY <1>2, <1>4
<1>7. \A i \in Used(w) : \E k \in 1..n : Flushed(w)[k] = w.pending[i] BY <1>1, <1>2
<1>8. \A j, k \in 1..n : j < k => Flushed(w)[j] < Flushed(w)[k] BY <1>1, <1>2
<1>. QED BY <1>5, <1>6, <1>7, <1>8

\* Frames in the order they were sent, between two numbers of the stream; where
\* one is concealed nothing is decoded.
Orderly(heard, from, upto) ==
    \A k \in DOMAIN heard : heard[k] # Concealed =>
        /\ from <= heard[k] /\ heard[k] < upto
        /\ \A j \in DOMAIN heard : j < k => heard[j] < heard[k]

LEMMA RunIsOrderly ==
    ASSUME NEW w \in RxType, Placed(w)
    PROVE  /\ Run(w) \in Seq(0..LastNo)
           /\ Orderly(Run(w), w.due, w.due + RunLength(w))
<1>1. /\ RunLength(w) \in Nat /\ w.due \in Nat /\ LastNo \in Nat
      /\ Run(w) \in [1..RunLength(w) -> 1..LastNo]
      /\ \A k \in 1..RunLength(w) : Run(w)[k] = w.due + k - 1
  BY RunIs, ConstantTypes DEF RxType
<1>2. Run(w) \in [1..RunLength(w) -> 0..LastNo] BY <1>1
<1>3. Run(w) \in Seq(0..LastNo) BY <1>1, <1>2
<1>4. DOMAIN Run(w) = 1..RunLength(w) BY <1>1
<1>5. ASSUME NEW k \in 1..RunLength(w)
      PROVE  /\ w.due <= Run(w)[k] /\ Run(w)[k] < w.due + RunLength(w)
             /\ \A j \in 1..RunLength(w) : j < k => Run(w)[j] < Run(w)[k]
  <2>1. Run(w)[k] = w.due + k - 1 BY <1>1
  <2>2. \A j \in 1..RunLength(w) : Run(w)[j] = w.due + j - 1 BY <1>1
  <2>. QED BY <1>1, <2>1, <2>2
<1>. QED BY <1>3, <1>4, <1>5 DEF Orderly

LEMMA FlushedIsOrderly ==
    ASSUME NEW w \in RxType, Placed(w), NEW n \in Nat,
           \A i \in Used(w) : w.pending[i] < n
    PROVE  Flushed(w) \in Seq(0..LastNo) /\ Orderly(Flushed(w), w.due, n)
<1>1. PICK m \in Nat :
        /\ Flushed(w) \in [1..m -> 1..LastNo]
        /\ \A k \in 1..m : \E i \in Used(w) : Flushed(w)[k] = w.pending[i]
        /\ \A j, k \in 1..m : j < k => Flushed(w)[j] < Flushed(w)[k]
  BY FlushedIs
<1>2. LastNo \in Nat BY ConstantTypes
<1>3. Flushed(w) \in [1..m -> 0..LastNo]
  <2>1. Flushed(w) \in [1..m -> 1..LastNo] BY <1>1
  <2>2. 1..LastNo \subseteq 0..LastNo BY <1>2
  <2>. QED BY <2>1, <2>2
<1>4. Flushed(w) \in Seq(0..LastNo) BY ONLY m \in Nat, <1>3, SeqDef
<1>5. ASSUME NEW k \in 1..m PROVE w.due <= Flushed(w)[k] /\ Flushed(w)[k] < n
  <2>1. PICK i \in Used(w) : Flushed(w)[k] = w.pending[i] BY <1>1
  <2>. QED BY <2>1 DEF Placed
<1>6. DOMAIN Flushed(w) = 1..m BY <1>1
<1>. QED BY <1>1, <1>4, <1>5, <1>6 DEF Orderly

\* What follows from where the first part ended is in order behind it.
LEMMA OrderlyJoin ==
    ASSUME NEW a \in Seq(0..LastNo), NEW b \in Seq(0..LastNo),
           NEW from \in Nat, NEW turn \in Nat, NEW upto \in Nat,
           from <= turn, turn <= upto, Orderly(a, from, turn), Orderly(b, turn, upto)
    PROVE  a \o b \in Seq(0..LastNo) /\ Orderly(a \o b, from, upto)
<1>. DEFINE c == a \o b
            m == Len(a)
            n == Len(b)
<1>0. c \in Seq(0..LastNo) /\ m \in Nat /\ n \in Nat OBVIOUS
<1>1. /\ m \in Nat /\ n \in Nat /\ c \in Seq(0..LastNo) /\ Len(c) = m + n
      /\ \A k \in 1..(m + n) : c[k] = IF k <= m THEN a[k] ELSE b[k - m]
  BY <1>0, ConcatProperties
<1>2. /\ DOMAIN a = 1..m /\ DOMAIN b = 1..n /\ DOMAIN c = 1..(m + n)
      /\ \A k \in 1..m : a[k] \in 0..LastNo
      /\ \A k \in 1..n : b[k] \in 0..LastNo
  <2>1. DOMAIN a = 1..m /\ \A k \in 1..m : a[k] \in 0..LastNo BY LenProperties
  <2>2. DOMAIN b = 1..n /\ \A k \in 1..n : b[k] \in 0..LastNo BY LenProperties
  <2>. HIDE DEF c, m, n
  <2>3. DOMAIN c = 1..(m + n) BY <1>0, <1>1
  <2>. QED BY <2>1, <2>2, <2>3
<1>3. LastNo \in Nat BY ConstantTypes
<1>. HIDE DEF c, m, n
<1>4. ASSUME NEW k \in 1..(m + n), c[k] # Concealed
      PROVE  /\ from <= c[k] /\ c[k] < upto
             /\ \A j \in 1..(m + n) : j < k => c[j] < c[k]
  <2>1. CASE k <= m
    <3>1. k \in 1..m /\ c[k] = a[k] BY <1>1, <2>1
    <3>2. \A j \in 1..(m + n) : j < k => j \in 1..m /\ c[j] = a[j] BY <1>1, <3>1
    <3>3. from <= a[k] /\ a[k] < turn /\ \A j \in 1..m : j < k => a[j] < a[k]
      BY <1>2, <1>4, <3>1 DEF Orderly
    <3>. QED BY <1>2, <1>3, <3>1, <3>2, <3>3
  <2>2. CASE ~(k <= m)
    <3>. DEFINE h == k - m
    <3>1. h \in 1..n /\ c[k] = b[h] BY <1>1, <2>2
    <3>2. turn <= b[h] /\ b[h] < upto /\ \A j \in 1..n : j < h => b[j] < b[h]
      BY <1>2, <1>4, <3>1 DEF Orderly
    <3>3. b[h] \in Nat /\ b[h] # 0 BY <1>2, <1>3, <1>4, <3>1 DEF Concealed
    <3>4. ASSUME NEW j \in 1..(m + n), j < k PROVE c[j] < b[h]
      <4>1. CASE j <= m
        <5>1. j \in 1..m /\ c[j] = a[j] /\ a[j] \in Nat BY <1>1, <1>2, <1>3, <4>1
        <5>2. a[j] # 0 => a[j] < turn BY <1>2, <5>1 DEF Orderly, Concealed
        <5>. QED BY <3>2, <3>3, <5>1, <5>2
      <4>2. CASE ~(j <= m)
        <5>1. j - m \in 1..n /\ j - m < h /\ c[j] = b[j - m] BY <1>1, <3>4, <4>2
        <5>. HIDE DEF h
        <5>. QED BY <3>2, <5>1
      <4>. QED BY <4>1, <4>2
    <3>. QED BY <3>1, <3>2, <3>3, <3>4
  <2>. QED BY <2>1, <2>2
<1>5. Orderly(c, from, upto) BY <1>2, <1>4 DEF Orderly
<1>. QED BY <1>1, <1>5 DEF c

\* What waits leaves a drain only in its run.
LEMMA DrainedHands ==
    ASSUME NEW w \in RxType, Placed(w), NEW i \in Used(w)
    PROVE  \/ Drained(w).pending[i] = w.pending[i]
           \/ \E k \in DOMAIN Run(w) : Run(w)[k] = w.pending[i]
<1>1. /\ RunLength(w) \in Nat /\ DOMAIN Run(w) = 1..RunLength(w)
      /\ \A k \in 1..RunLength(w) : Run(w)[k] = w.due + k - 1
  BY RunIs
<1>2. i \in Slots /\ w.pending[i] \in Nat /\ w.due \in Nat BY ConstantTypes DEF Used, RxType
<1>3. ASSUME w.due <= w.pending[i], w.pending[i] < w.due + RunLength(w)
      PROVE  \E k \in DOMAIN Run(w) : Run(w)[k] = w.pending[i]
  <2>. DEFINE k == w.pending[i] - w.due + 1
  <2>1. k \in 1..RunLength(w) /\ w.due + k - 1 = w.pending[i] BY <1>1, <1>2, <1>3
  <2>. QED BY <1>1, <2>1
<1>. QED BY <1>2, <1>3, DrainedTakesRun

--------------------------------------------------------------------------------
(* Every step keeps the invariant *)

LEMMA WindowInvInit == WindowInit => WindowInv
<1>. SUFFICES ASSUME WindowInit PROVE WindowInv OBVIOUS
<1>1. rx \in RxType BY ConstantTypes DEF WindowInit, RxType
<1>2. Used(rx) = {} BY DEF WindowInit, Used
<1>3. ~rx.have_next /\ rx.due = 0 BY DEF WindowInit
<1>4. newest = 0 /\ newest \in 0..LastNo BY ConstantTypes DEF WindowInit
<1>. QED BY <1>1, <1>2, <1>3, <1>4 DEF WindowInv

\* What a new packet finds: the speaker's window, or one that starts with it.
LEMMA StartedIs ==
    ASSUME WindowInv, NEW n \in FirstNo..LastNo, Deliverable(n)
    PROVE  LET w == Started(rx, n)
               top == IF n > newest THEN n ELSE newest
           IN /\ w \in RxType /\ w.have_next /\ Placed(w) /\ Settled(w)
              /\ w.pending = rx.pending /\ rx.due <= w.due
              /\ Offset(w, n) = n - w.due
              /\ n < w.due + Window => Reaches(w, top)
              /\ \A i \in Used(w) : w.pending[i] <= newest
              /\ newest < w.due + Window
<1>. DEFINE w == Started(rx, n)
            top == IF n > newest THEN n ELSE newest
<1>1. n \in Nat /\ n >= 1 /\ newest \in Nat BY ConstantTypes DEF WindowInv
<1>2. CASE rx.have_next
  <2>1. w = rx BY <1>2 DEF Started
  <2>2. /\ rx \in RxType /\ newest \in 0..LastNo /\ newest >= 1 /\ Placed(rx)
        /\ Settled(rx) /\ Reaches(rx, newest)
    BY <1>2 DEF WindowInv
  <2>3. newest - MaxLate <= n /\ n <= newest + MaxJump
    BY <1>1, <2>2 DEF Deliverable
  <2>4. rx.next_seq = Wire(rx.due) /\ rx.due <= newest + 1 /\ newest < rx.due + Window
    BY <2>2 DEF Placed, Reaches
  <2>5. Offset(rx, n) = n - rx.due BY <2>2, <2>3, <2>4, OffsetIsDistance
  <2>6. \A i \in Used(rx) : rx.pending[i] \in Nat /\ rx.pending[i] <= newest
    BY <2>2 DEF Reaches, RxType, Used
  <2>7. n < rx.due + Window => Reaches(rx, top)
    <3>1. rx.due \in Nat BY <2>2 DEF RxType
    <3>. QED BY <1>1, <2>4, <2>6, <3>1, ConstantTypes DEF Reaches
  <2>8. rx.due <= rx.due BY <2>2 DEF RxType
  <2>. QED BY <1>2, <2>1, <2>2, <2>4, <2>5, <2>6, <2>7, <2>8
<1>3. CASE ~rx.have_next
  <2>1. rx \in RxType /\ Used(rx) = {} /\ newest = 0 /\ rx.due = 0 BY <1>3 DEF WindowInv
  <2>2. Wire(n) \in 0..(Modulus - 1) BY <1>1, WireType
  <2>3. w = [rx EXCEPT !.have_next = TRUE, !.next_seq = Wire(n), !.due = n]
    BY <1>3 DEF Started
  <2>4. /\ w \in RxType /\ w.have_next /\ w.due = n /\ w.next_seq = Wire(n)
        /\ w.pending = rx.pending
    BY <1>1, <2>1, <2>2, <2>3 DEF RxType
  <2>. HIDE DEF w
  <2>5. Used(w) = {} BY <2>1, <2>4 DEF Used
  <2>6. Offset(w, n) = n - w.due
    <3>1. -Modulus <= 2 * (n - n) /\ 2 * (n - n) < Modulus BY <1>1, ConstantTypes
    <3>2. SeqAhead(Wire(n), Wire(n)) = n - n
      <4>1. n \in Int BY <1>1
      <4>. QED BY <3>1, <4>1, SeqAheadIsDifference
    <3>. QED BY <2>4, <3>2 DEF Offset
  <2>7. top = n BY <1>1, <2>1
  <2>8. Reaches(w, top) BY <1>1, <2>4, <2>5, <2>7, ConstantTypes DEF Reaches
  <2>9. Placed(w) /\ Settled(w) BY <1>1, <2>4, <2>5 DEF Placed, Settled
  <2>10. newest < w.due + Window BY <1>1, <2>1, <2>4, ConstantTypes
  <2>11. rx.due <= w.due BY <1>1, <2>1, <2>4
  <2>. QED BY <2>4, <2>5, <2>6, <2>8, <2>9, <2>10, <2>11 DEF w
<1>. QED BY <1>2, <1>3

\* A restart leaves an empty window that starts with the packet.
LEMMA RestartedIs ==
    ASSUME NEW w \in RxType, NEW n \in FirstNo..LastNo
    PROVE  LET r == Restarted(w, n)
           IN /\ r \in RxType /\ r.have_next = w.have_next /\ r.due = n
              /\ Used(r) = {} /\ Free(r) # {} /\ ~Repeated(r, n)
              /\ Placed(r) /\ Reaches(r, n)
<1>. DEFINE r == Restarted(w, n)
<1>1. n \in Nat /\ n >= 1 BY ConstantTypes
<1>2. Wire(n) \in 0..(Modulus - 1) BY <1>1, WireType
<1>3. /\ r \in RxType /\ r.have_next = w.have_next /\ r.due = n
      /\ r.next_seq = Wire(n) /\ \A i \in Slots : r.pending[i] = 0
  <2>. DEFINE empty == [i \in Slots |-> 0]
  <2>1. empty \in [Slots -> 0..LastNo] /\ \A i \in Slots : empty[i] = 0
    BY ConstantTypes
  <2>2. 0 \in 0..Patience BY ConstantTypes
  <2>3. r = [w EXCEPT !.pending = empty, !.next_seq = Wire(n), !.due = n,
                      !.gap_wait = 0]
    BY DEF Restarted
  <2>. HIDE DEF empty, r
  <2>4. /\ r \in RxType /\ r.have_next = w.have_next /\ r.due = n
        /\ r.next_seq = Wire(n) /\ r.pending = empty
    BY <1>1, <1>2, <2>1, <2>2, <2>3 DEF RxType
  <2>. QED BY <2>1, <2>4
<1>. HIDE DEF r
<1>4. Used(r) = {} BY <1>3 DEF Used
<1>5. 1 \in Slots BY ConstantTypes DEF Slots
<1>6. Free(r) # {} BY <1>4, <1>5 DEF Free
<1>7. ~Repeated(r, n) BY <1>4 DEF Repeated, WaitingAt
<1>8. Placed(r) BY <1>1, <1>3, <1>4 DEF Placed
<1>9. Reaches(r, n) BY <1>1, <1>3, <1>4, ConstantTypes DEF Reaches
<1>. QED BY <1>3, <1>4, <1>6, <1>7, <1>8, <1>9 DEF r

\* What the arrival pass makes of a packet that was put where it waits.
LEMMA PutAndDrained ==
    ASSUME NEW w \in RxType, NEW top \in Nat, NEW n \in 1..LastNo, w.have_next,
           Placed(w), Reaches(w, top), Free(w) # {}, ~Repeated(w, n),
           w.due <= n, n < w.due + Window, n <= top
    PROVE  LET d == Drained(Put(w, n))
           IN d \in RxType /\ d.have_next /\ Placed(d) /\ Settled(d) /\ Reaches(d, top)
<1>1. /\ Put(w, n) \in RxType /\ Put(w, n).have_next = w.have_next
      /\ Placed(Put(w, n)) /\ Reaches(Put(w, n), top)
  BY PutKeeps
<1>2. Drained(Put(w, n)) \in RxType /\ Drained(Put(w, n)).have_next
  BY <1>1, DrainedFields
<1>. QED BY <1>1, <1>2, DrainedKeeps

LEMMA ArriveKeeps ==
    ASSUME WindowInv, NEW n \in FirstNo..LastNo, Arrive(n)
    PROVE  WindowInv'
<1>. DEFINE w == Started(rx, n)
            top == IF n > newest THEN n ELSE newest
<1>1. Deliverable(n) /\ newest' = top BY DEF Arrive
<1>2. /\ w \in RxType /\ w.have_next /\ Placed(w) /\ Settled(w)
      /\ Offset(w, n) = n - w.due
      /\ n < w.due + Window => Reaches(w, top)
      /\ newest < w.due + Window
  BY <1>1, StartedIs
<1>3. /\ newest \in Nat /\ newest <= LastNo /\ LastNo \in Nat /\ n \in 1..LastNo
      /\ n \in Nat /\ Window \in Nat /\ Window >= 1 /\ w.due \in Nat
  BY <1>2, ConstantTypes DEF WindowInv, RxType
<1>4. top \in Nat /\ top \in 0..LastNo /\ top >= 1 /\ n <= top BY <1>3
<1>5. \/ Offset(w, n) < 0 /\ rx' = w
      \/ BeyondWindow(Offset(w, n)) /\ rx' = Drained(Put(Restarted(w, n), n))
      \/ /\ Offset(w, n) >= 0 /\ ~BeyondWindow(Offset(w, n))
         /\ IF Repeated(w, n) \/ Free(w) = {}
            THEN rx' = w ELSE rx' = Drained(Put(w, n))
  BY Zenon DEF Arrive
<1>. HIDE DEF w
<1>6. SUFFICES /\ rx' \in RxType /\ rx'.have_next /\ Placed(rx') /\ Settled(rx')
               /\ Reaches(rx', top)
  BY <1>1, <1>4 DEF WindowInv, Placed, Settled, Reaches, Used
<1>. HIDE DEF top
<1>7. CASE Offset(w, n) < 0 /\ rx' = w
  BY <1>2, <1>3, <1>7
<1>8. CASE BeyondWindow(Offset(w, n)) /\ rx' = Drained(Put(Restarted(w, n), n))
  <2>1. n >= w.due + Window BY <1>2, <1>3, <1>8 DEF BeyondWindow
  <2>2. top = n BY <1>2, <1>3, <2>1 DEF top
  <2>. DEFINE r == Restarted(w, n)
  <2>3. /\ r \in RxType /\ r.have_next /\ r.due = n /\ Free(r) # {} /\ ~Repeated(r, n)
        /\ Placed(r) /\ Reaches(r, n)
    BY <1>2, RestartedIs
  <2>. HIDE DEF r
  <2>4. r.due <= n /\ n < r.due + Window BY <1>3, <2>3
  <2>5. LET d == Drained(Put(r, n))
        IN d \in RxType /\ d.have_next /\ Placed(d) /\ Settled(d) /\ Reaches(d, n)
    BY <1>3, <2>3, <2>4, PutAndDrained
  <2>. QED BY <1>8, <2>2, <2>5 DEF r
<1>9. CASE /\ Offset(w, n) >= 0 /\ ~BeyondWindow(Offset(w, n))
           /\ IF Repeated(w, n) \/ Free(w) = {}
              THEN rx' = w ELSE rx' = Drained(Put(w, n))
  <2>1. w.due <= n /\ n < w.due + Window BY <1>2, <1>3, <1>9 DEF BeyondWindow
  <2>2. CASE rx' = w BY <1>2, <2>1, <2>2
  <2>3. CASE ~Repeated(w, n) /\ Free(w) # {} /\ rx' = Drained(Put(w, n))
    BY <1>2, <1>3, <1>4, <2>1, <2>3, PutAndDrained
  <2>. QED BY <1>9, <2>2, <2>3
<1>. QED BY <1>5, <1>7, <1>8, <1>9

\* Writing off a head that is missing, while later packets wait for it.
LEMMA WrittenOffKeeps ==
    ASSUME NEW w \in RxType, NEW top \in Nat, Placed(w), Settled(w),
           Reaches(w, top), Used(w) # {}
    PROVE  LET o == WrittenOff(w)
           IN /\ o \in RxType /\ o.have_next = w.have_next /\ o.gap_wait = 0
              /\ Placed(o) /\ Reaches(o, top)
<1>. DEFINE o == WrittenOff(w)
<1>1. w.due \in Nat /\ w.due >= 1 /\ Window \in Nat BY ConstantTypes DEF RxType, Placed
<1>2. NextSeq(w, 1) = Wire(w.due + 1) /\ NextSeq(w, 1) \in 0..(Modulus - 1)
  <2>1. w.due \in Int /\ 1 \in Int /\ w.due + 1 \in Int BY <1>1
  <2>2. (Wire(w.due) + 1) % Modulus = Wire(w.due + 1) BY <2>1, WireStep
  <2>. QED BY <2>1, <2>2, WireType DEF NextSeq, Placed
<1>3. /\ o \in RxType /\ o.have_next = w.have_next /\ o.gap_wait = 0
      /\ o.due = w.due + 1 /\ o.next_seq = NextSeq(w, 1) /\ o.pending = w.pending
  <2>. DEFINE next == NextSeq(w, 1)
  <2>1. 0 \in 0..Patience /\ w.due + 1 \in Nat BY <1>1, ConstantTypes
  <2>2. next \in 0..(Modulus - 1) BY <1>2
  <2>3. o = [w EXCEPT !.next_seq = next, !.due = w.due + 1, !.gap_wait = 0]
    BY DEF WrittenOff
  <2>. HIDE DEF o, next
  <2>4. /\ o \in RxType /\ o.have_next = w.have_next /\ o.gap_wait = 0
        /\ o.due = w.due + 1 /\ o.next_seq = next /\ o.pending = w.pending
    BY <2>1, <2>2, <2>3 DEF RxType
  <2>. QED BY <2>4 DEF next
<1>. HIDE DEF o
<1>4. Used(o) = Used(w) BY <1>3 DEF Used
<1>5. \A i \in Used(w) :
        /\ w.pending[i] \in Nat /\ w.due + 1 <= w.pending[i]
        /\ w.pending[i] < w.due + 1 + Window /\ w.pending[i] <= top
  <2>. TAKE i \in Used(w)
  <2>1. w.pending[i] \in Nat BY DEF RxType, Used
  <2>2. w.due < w.pending[i] /\ w.pending[i] < w.due + Window /\ w.pending[i] <= top
    BY DEF Placed, Settled, Reaches
  <2>. QED BY <1>1, <2>1, <2>2
<1>6. Placed(o)
  <2>1. o.next_seq = Wire(o.due) /\ o.due >= 1 BY <1>1, <1>2, <1>3
  <2>2. \A i \in Used(o) : o.due <= o.pending[i] /\ o.pending[i] < o.due + Window
    BY <1>1, <1>3, <1>4, <1>5
  <2>3. \A i, j \in Used(o) : o.pending[i] = o.pending[j] => i = j
    BY <1>3, <1>4 DEF Placed
  <2>. QED BY <2>1, <2>2, <2>3 DEF Placed
<1>7. o.due <= top + 1 /\ top < o.due + Window
  <2>1. PICK i \in Used(w) : TRUE OBVIOUS
  <2>2. top < w.due + Window BY DEF Reaches
  <2>. QED BY <1>1, <1>3, <1>5, <2>1, <2>2
<1>8. Reaches(o, top) BY <1>3, <1>4, <1>5, <1>7 DEF Reaches
<1>. QED BY <1>3, <1>6, <1>8 DEF o

\* The gap counter is in no part of the invariant but the type.
LEMMA GapWaitKeeps ==
    ASSUME NEW w \in RxType, NEW g \in 0..Patience, NEW top \in Nat
    PROVE  LET v == [w EXCEPT !.gap_wait = g]
           IN /\ v \in RxType /\ v.have_next = w.have_next /\ Used(v) = Used(w)
              /\ Placed(w) => Placed(v)
              /\ Settled(w) => Settled(v)
              /\ Reaches(w, top) => Reaches(v, top)
<1>. DEFINE v == [w EXCEPT !.gap_wait = g]
<1>1. /\ v \in RxType /\ v.have_next = w.have_next /\ v.pending = w.pending
      /\ v.due = w.due /\ v.next_seq = w.next_seq
  BY DEF RxType
<1>. HIDE DEF v
<1>2. Used(v) = Used(w) BY <1>1 DEF Used
<1>. QED BY <1>1, <1>2 DEF Placed, Settled, Reaches, v

LEMMA TickKeeps ==
    ASSUME WindowInv, Tick
    PROVE  WindowInv'
<1>. DEFINE head == Drained(rx)
            off == WrittenOff(head)
            after == Drained(off)
<1>1. newest' = newest /\ newest \in 0..LastNo /\ newest \in Nat
  BY ConstantTypes DEF Tick, WindowInv
<1>2. /\ head \in RxType /\ head.have_next = rx.have_next
      /\ \A i \in Used(head) : i \in Used(rx)
  <2>1. rx \in RxType BY DEF WindowInv
  <2>2. /\ head \in RxType /\ head.have_next = rx.have_next
        /\ \A i \in Slots : head.pending[i] # 0 => rx.pending[i] # 0
    BY <2>1, DrainedFields
  <2>. HIDE DEF head
  <2>. QED BY <2>2 DEF Used
<1>3. \/ Used(head) = {} /\ rx' = head
      \/ /\ Used(head) # {} /\ Waited(head) <= Patience
         /\ rx' = [head EXCEPT !.gap_wait = Waited(head)]
      \/ /\ Used(head) # {}
         /\ rx' = IF Used(after) = {} THEN after
                  ELSE [after EXCEPT !.gap_wait = Waited(after)]
  BY Zenon DEF Tick
<1>4. CASE ~rx.have_next
  <2>1. rx \in RxType /\ Used(rx) = {} /\ newest = 0 /\ rx.due = 0 BY <1>4 DEF WindowInv
  <2>2. Used(head) = {} BY <1>2, <2>1
  <2>0. head.due = 0 BY <2>1, NothingToDrain
  <2>. HIDE DEF head, off, after
  <2>3. rx' = head BY <1>3, <2>2
  <2>4. rx' \in RxType /\ ~rx'.have_next /\ Used(rx') = {} /\ newest' = 0 /\ rx'.due = 0
    BY <1>1, <1>2, <1>4, <2>0, <2>1, <2>2, <2>3
  <2>5. Used(rx)' = {} BY <2>4 DEF Used
  <2>. QED BY <1>1, <2>4, <2>5 DEF WindowInv
<1>5. CASE rx.have_next
  <2>1. newest >= 1 /\ rx \in RxType /\ Placed(rx) /\ Reaches(rx, newest)
    BY <1>5 DEF WindowInv
  <2>2. Placed(head) /\ Settled(head) /\ Reaches(head, newest)
    BY <1>1, <2>1, DrainedKeeps
  <2>. HIDE DEF head
  <2>3. SUFFICES /\ rx' \in RxType /\ rx'.have_next /\ Placed(rx') /\ Settled(rx')
                 /\ Reaches(rx', newest)
    BY <1>1, <2>1 DEF WindowInv, Placed, Settled, Reaches, Used
  <2>4. CASE rx' = head BY <1>2, <1>5, <2>2, <2>4
  <2>5. CASE /\ Waited(head) <= Patience
             /\ rx' = [head EXCEPT !.gap_wait = Waited(head)]
    <3>1. Waited(head) \in 0..Patience
      BY <1>2, <2>5, ConstantTypes DEF Waited, RxType
    <3>. QED BY <1>1, <1>2, <1>5, <2>2, <2>5, <3>1, GapWaitKeeps
  <2>6. CASE /\ Used(head) # {}
             /\ rx' = IF Used(after) = {} THEN after
                      ELSE [after EXCEPT !.gap_wait = Waited(after)]
    <3>1. /\ off \in RxType /\ off.have_next /\ off.gap_wait = 0
          /\ Placed(off) /\ Reaches(off, newest)
      BY <1>1, <1>2, <1>5, <2>2, <2>6, WrittenOffKeeps
    <3>. HIDE DEF off
    <3>2. after \in RxType /\ after.have_next /\ after.gap_wait = 0
      BY <3>1, DrainedFields
    <3>3. Placed(after) /\ Settled(after) /\ Reaches(after, newest)
      BY <1>1, <3>1, DrainedKeeps
    <3>. HIDE DEF after
    <3>4. Waited(after) \in 0..Patience BY <3>2, ConstantTypes DEF Waited
    <3>5. CASE rx' = after BY <3>2, <3>3, <3>5
    <3>6. CASE rx' = [after EXCEPT !.gap_wait = Waited(after)]
      BY <1>1, <3>2, <3>3, <3>4, <3>6, GapWaitKeeps
    <3>. QED BY <2>6, <3>5, <3>6
  <2>. QED BY <1>3, <2>4, <2>5, <2>6
<1>. QED BY <1>4, <1>5

LEMMA WindowInvNext == WindowInv /\ [WindowNext]_windowVars => WindowInv'
<1>. SUFFICES ASSUME WindowInv, [WindowNext]_windowVars PROVE WindowInv' OBVIOUS
<1>1. CASE Tick BY <1>1, TickKeeps
<1>2. ASSUME NEW n \in FirstNo..LastNo, Arrive(n) PROVE WindowInv'
  BY <1>2, ArriveKeeps
<1>3. CASE UNCHANGED windowVars
  BY <1>3 DEF windowVars, WindowInv, RxType, Placed, Settled, Reaches, Used
<1>. QED BY <1>1, <1>2, <1>3 DEF WindowNext

LEMMA WindowInvariant == WindowSpec => []WindowInv
<1>1. WindowInit => WindowInv BY WindowInvInit
<1>2. WindowInv /\ [WindowNext]_windowVars => WindowInv' BY WindowInvNext
<1>. QED BY <1>1, <1>2, PTL DEF WindowSpec

--------------------------------------------------------------------------------
(* What follows *)

\* A packet that waits has its turn still to come, within the window, and waits
\* once (window_drain, feed_opus).
THEOREM NothingStaleWaits == WindowSpec => []NoneStale
<1>1. WindowInv => NoneStale
  <2>. SUFFICES ASSUME WindowInv PROVE NoneStale OBVIOUS
  <2>1. CASE ~rx.have_next BY <2>1 DEF WindowInv, NoneStale
  <2>2. CASE rx.have_next BY <2>2 DEF WindowInv, NoneStale, Placed, Settled
  <2>. QED BY <2>1, <2>2
<1>. QED BY <1>1, WindowInvariant, PTL

\* However the sequence numbers wrap, feed_opus takes a packet to be late, inside
\* the window or beyond it exactly when it is that in the sender's stream.
THEOREM WrapIsHarmless == WindowSpec => []JudgedRight
<1>1. WindowInv => JudgedRight
  <2>. SUFFICES ASSUME WindowInv, rx.have_next, NEW n \in FirstNo..LastNo, Deliverable(n)
                PROVE  /\ Offset(rx, n) < 0 <=> n < rx.due
                       /\ BeyondWindow(Offset(rx, n)) <=> n >= rx.due + Window
    BY DEF JudgedRight
  <2>1. Started(rx, n) = rx BY DEF Started
  <2>2. Offset(rx, n) = n - rx.due BY <2>1, StartedIs
  <2>3. n \in Nat /\ rx.due \in Nat /\ Window \in Nat
    BY ConstantTypes DEF WindowInv, RxType
  <2>. QED BY <2>2, <2>3 DEF BeyondWindow
<1>. QED BY <1>1, WindowInvariant, PTL

\* feed_opus always finds a slot, so the branch it calls unreachable is.
THEOREM SlotToSpare == WindowSpec => []AlwaysASlot
<1>1. WindowInv => AlwaysASlot
  <2>. SUFFICES ASSUME WindowInv, Free(rx) = {} PROVE FALSE BY DEF AlwaysASlot
  <2>1. Used(rx) = Slots BY DEF Free, Used
  <2>2. 1 \in Slots BY ConstantTypes DEF Slots
  <2>3. rx.have_next BY <2>1, <2>2 DEF WindowInv
  <2>4. Placed(rx) /\ Settled(rx) /\ rx \in RxType BY <2>3 DEF WindowInv
  <2>. DEFINE T == (rx.due + 1)..(rx.due + Window - 1)
              f == [i \in Slots |-> rx.pending[i]]
  <2>5. rx.due \in Nat /\ Window \in Nat /\ Window >= 1
    BY <2>4, ConstantTypes DEF RxType
  <2>6. \A i \in Slots : rx.pending[i] \in T
    <3>. TAKE i \in Slots
    <3>1. rx.pending[i] \in Nat BY <2>4 DEF RxType
    <3>2. rx.due < rx.pending[i] /\ rx.pending[i] < rx.due + Window
      BY <2>1, <2>4 DEF Placed, Settled
    <3>. QED BY <2>5, <3>1, <3>2
  <2>7. f \in [Slots -> T] BY <2>6
  <2>8. IsFiniteSet(Slots) /\ Cardinality(Slots) = Window
    BY <2>5, FS_Interval DEF Slots
  <2>9. IsFiniteSet(T) /\ Cardinality(T) = Window - 1
    <3>1. rx.due + 1 \in Int /\ rx.due + Window - 1 \in Int BY <2>5
    <3>2. /\ IsFiniteSet(T)
          /\ Cardinality(T) = IF rx.due + 1 > rx.due + Window - 1 THEN 0
                              ELSE (rx.due + Window - 1) - (rx.due + 1) + 1
      BY <3>1, FS_Interval
    <3>. QED BY <2>5, <3>2
  <2>. HIDE DEF T
  <2>10. Cardinality(T) < Cardinality(Slots) BY <2>5, <2>8, <2>9
  <2>11. \E i, j \in Slots : i # j /\ f[i] = f[j]
    <3>. HIDE DEF f
    <3>1. IsFiniteSet(Slots) /\ IsFiniteSet(T) BY <2>8, <2>9
    <3>. QED BY ONLY <2>7, <3>1, <2>10, FS_PigeonHole, SMT
  <2>12. PICK i, j \in Slots : i # j /\ rx.pending[i] = rx.pending[j] BY <2>11
  <2>. QED BY <2>1, <2>4, <2>12 DEF Placed
<1>. QED BY <1>1, WindowInvariant, PTL

--------------------------------------------------------------------------------
(* What a step hands to the decoder, step by step *)

\* A packet that is put where it waits disturbs nothing that waited.
LEMMA PutLeaves ==
    ASSUME NEW w \in RxType, NEW n \in 1..LastNo, Free(w) # {}
    PROVE  /\ Put(w, n).due = w.due
           /\ \A i \in Used(w) : i \in Used(Put(w, n)) /\ Put(w, n).pending[i] = w.pending[i]
<1>. DEFINE f == Min(Free(w))
            p == Put(w, n)
<1>1. Free(w) \in SUBSET Nat /\ Free(w) \subseteq Slots
  BY ConstantTypes DEF Free, Slots
<1>2. f \in Slots /\ f \notin Used(w) BY <1>1, MinIsLeast DEF Free
<1>3. n \in 0..LastNo BY ConstantTypes
<1>4. p = [w EXCEPT !.pending[f] = n] BY DEF Put
<1>. HIDE DEF f
<1>5. p.due = w.due /\ \A i \in Slots : i # f => p.pending[i] = w.pending[i]
  BY <1>2, <1>3, <1>4 DEF RxType
<1>. QED BY <1>2, <1>5 DEF Used

\* What a step may do between what it finds and what it leaves.
HandsOn(before, heard, after) ==
    /\ heard \in Seq(0..LastNo)
    /\ Orderly(heard, before.due, after.due)
    /\ \A i \in Used(before) : \/ after.pending[i] = before.pending[i]
                               \/ \E k \in DOMAIN heard : heard[k] = before.pending[i]

LEMMA NothingHandedOn ==
    ASSUME NEW before, NEW after, after.pending = before.pending
    PROVE  HandsOn(before, <<>>, after)
<1>1. <<>> \in Seq(0..LastNo) /\ DOMAIN <<>> = {} OBVIOUS
<1>. QED BY <1>1 DEF HandsOn, Orderly

LEMMA DrainHandsOn ==
    ASSUME NEW w \in RxType, Placed(w)
    PROVE  HandsOn(w, Run(w), Drained(w))
<1>1. Drained(w).due = w.due + RunLength(w) BY DrainedFields
<1>. QED BY <1>1, RunIsOrderly, DrainedHands DEF HandsOn

\* The arrival pass, after a packet was put where it waits.
LEMMA PutHandsOn ==
    ASSUME NEW w \in RxType, NEW n \in 1..LastNo, Free(w) # {},
           Put(w, n) \in RxType, Placed(Put(w, n))
    PROVE  HandsOn(w, Run(Put(w, n)), Drained(Put(w, n)))
<1>. DEFINE p == Put(w, n)
<1>1. HandsOn(p, Run(p), Drained(p)) BY DrainHandsOn
<1>2. p.due = w.due /\ \A i \in Used(w) : i \in Used(p) /\ p.pending[i] = w.pending[i]
  BY PutLeaves
<1>. HIDE DEF p
<1>3. HandsOn(w, Run(p), Drained(p)) BY <1>1, <1>2 DEF HandsOn
<1>. QED BY <1>3 DEF p

\* One step's share after another's, what the first left being what the second found.
LEMMA HandsOnJoin ==
    ASSUME NEW a, NEW b, NEW c, NEW x, NEW y,
           HandsOn(a, x, b), HandsOn(b, y, c),
           a.due \in Nat, b.due \in Nat, c.due \in Nat, a.due <= b.due, b.due <= c.due,
           \A i \in Used(a) : i \in Slots /\ a.pending[i] # 0
    PROVE  HandsOn(a, x \o y, c)
<1>1. x \in Seq(0..LastNo) /\ y \in Seq(0..LastNo) BY DEF HandsOn
<1>2. x \o y \in Seq(0..LastNo) /\ Orderly(x \o y, a.due, c.due)
  BY <1>1, OrderlyJoin DEF HandsOn
<1>3. /\ Len(x) \in Nat /\ Len(y) \in Nat
      /\ DOMAIN x = 1..Len(x) /\ DOMAIN y = 1..Len(y)
  BY <1>1, LenProperties
<1>4. /\ DOMAIN (x \o y) = 1..(Len(x) + Len(y))
      /\ \A k \in 1..(Len(x) + Len(y)) :
            (x \o y)[k] = IF k <= Len(x) THEN x[k] ELSE y[k - Len(x)]
  BY <1>1, <1>2, ConcatProperties, LenProperties
<1>5. ASSUME NEW i \in Used(a)
      PROVE  \/ c.pending[i] = a.pending[i]
             \/ \E k \in DOMAIN (x \o y) : (x \o y)[k] = a.pending[i]
  <2>1. CASE \E k \in DOMAIN x : x[k] = a.pending[i]
    <3>1. PICK k \in DOMAIN x : x[k] = a.pending[i] BY <2>1
    <3>2. k \in 1..(Len(x) + Len(y)) /\ k <= Len(x) BY <1>3, <3>1
    <3>. QED BY <1>4, <3>1, <3>2
  <2>2. CASE b.pending[i] = a.pending[i]
    <3>1. i \in Used(b) BY <2>2 DEF Used
    <3>2. CASE \E k \in DOMAIN y : y[k] = b.pending[i]
      <4>1. PICK k \in DOMAIN y : y[k] = b.pending[i] BY <3>2
      <4>. DEFINE h == Len(x) + k
      <4>2. h \in 1..(Len(x) + Len(y)) /\ ~(h <= Len(x)) /\ h - Len(x) = k BY <1>3, <4>1
      <4>. HIDE DEF h
      <4>3. (x \o y)[h] = y[k] BY <1>4, <4>2
      <4>. QED BY <1>4, <2>2, <4>1, <4>2, <4>3
    <3>. QED BY <2>2, <3>1, <3>2 DEF HandsOn
  <2>. QED BY <2>1, <2>2 DEF HandsOn
<1>. QED BY <1>2, <1>5 DEF HandsOn

LEMMA ArriveHandsOn ==
    ASSUME WindowInv, NEW n \in FirstNo..LastNo, Arrive(n)
    PROVE  HandsOn(rx, out', rx')
<1>. DEFINE w == Started(rx, n)
            r == Restarted(w, n)
            top == IF n > newest THEN n ELSE newest
<1>1. Deliverable(n) BY DEF Arrive
<1>2. /\ w \in RxType /\ w.have_next /\ Placed(w) /\ w.pending = rx.pending
      /\ rx.due <= w.due /\ Offset(w, n) = n - w.due
      /\ n < w.due + Window => Reaches(w, top)
      /\ \A i \in Used(w) : w.pending[i] <= newest
      /\ newest < w.due + Window
  BY <1>1, StartedIs
<1>3. /\ newest \in Nat /\ n \in 1..LastNo /\ n \in Nat /\ Window \in Nat /\ Window >= 1
      /\ w.due \in Nat /\ rx.due \in Nat /\ LastNo \in Nat
  BY <1>2, ConstantTypes DEF WindowInv, RxType
<1>4. \/ rx' = w /\ out' = <<>>
      \/ /\ BeyondWindow(Offset(w, n))
         /\ rx' = Drained(Put(r, n)) /\ out' = Flushed(w) \o Run(Put(r, n))
      \/ /\ Offset(w, n) >= 0 /\ ~BeyondWindow(Offset(w, n))
         /\ ~Repeated(w, n) /\ Free(w) # {}
         /\ rx' = Drained(Put(w, n)) /\ out' = Run(Put(w, n))
  BY Zenon DEF Arrive
<1>5. Used(w) = Used(rx) BY <1>2 DEF Used
<1>. HIDE DEF w
<1>6. ASSUME NEW heard, NEW after, HandsOn(w, heard, after)
      PROVE  HandsOn(rx, heard, after)
  <2>1. heard \in Seq(0..LastNo) /\ Orderly(heard, w.due, after.due) BY <1>6 DEF HandsOn
  <2>2. \A k \in DOMAIN heard : heard[k] \in Nat
    BY <1>3, <2>1, LenProperties, ElementOfSeq
  <2>3. Orderly(heard, rx.due, after.due) BY <1>2, <1>3, <2>1, <2>2 DEF Orderly
  <2>. QED BY <1>2, <1>5, <1>6, <2>1, <2>3 DEF HandsOn
<1>7. CASE rx' = w /\ out' = <<>> BY <1>2, <1>7, NothingHandedOn
<1>8. CASE /\ BeyondWindow(Offset(w, n))
           /\ rx' = Drained(Put(r, n)) /\ out' = Flushed(w) \o Run(Put(r, n))
  <2>1. n >= w.due + Window BY <1>2, <1>3, <1>8 DEF BeyondWindow
  <2>2. /\ r \in RxType /\ r.due = n /\ Free(r) # {} /\ ~Repeated(r, n)
        /\ Used(r) = {} /\ Placed(r) /\ Reaches(r, n)
    BY <1>2, RestartedIs
  <2>. HIDE DEF r
  <2>3. r.due <= n /\ n < r.due + Window BY <1>3, <2>2
  <2>4. Put(r, n) \in RxType /\ Placed(Put(r, n)) BY <1>3, <2>2, <2>3, PutKeeps
  <2>5. HandsOn(r, Run(Put(r, n)), rx') BY <1>3, <1>8, <2>2, <2>4, PutHandsOn
  <2>6. \A i \in Used(w) : w.pending[i] < n /\ i \in Slots /\ w.pending[i] # 0
    <3>. TAKE i \in Used(w)
    <3>1. w.pending[i] \in Nat BY <1>2, <1>3 DEF RxType, Used
    <3>2. w.pending[i] <= newest /\ newest < w.due + Window BY <1>2
    <3>3. w.pending[i] < n BY <1>3, <2>1, <3>1, <3>2
    <3>. QED BY <3>3 DEF Used
  <2>7. HandsOn(w, Flushed(w), r)
    <3>1. Flushed(w) \in Seq(0..LastNo) /\ Orderly(Flushed(w), w.due, n)
      BY <1>2, <1>3, <2>6, FlushedIsOrderly
    <3>2. \A i \in Used(w) : \E k \in DOMAIN Flushed(w) : Flushed(w)[k] = w.pending[i]
      BY <1>2, FlushedIs
    <3>. QED BY <2>2, <3>1, <3>2 DEF HandsOn
  <2>8. /\ w.due <= r.due /\ r.due \in Nat BY <1>3, <2>1, <2>2
  <2>9. rx'.due \in Nat /\ r.due <= rx'.due
    <3>1. rx'.due = Put(r, n).due + RunLength(Put(r, n)) BY <1>8, <2>4, DrainedFields
    <3>2. Put(r, n).due = r.due BY <1>3, <2>2, PutLeaves
    <3>3. RunLength(Put(r, n)) \in Nat BY RunLengthIs, ConstantTypes
    <3>. QED BY <2>8, <3>1, <3>2, <3>3
  <2>10. HandsOn(w, Flushed(w) \o Run(Put(r, n)), rx')
    BY <1>3, <2>5, <2>6, <2>7, <2>8, <2>9, HandsOnJoin
  <2>. QED BY <1>6, <1>8, <2>10
<1>9. CASE /\ Offset(w, n) >= 0 /\ ~BeyondWindow(Offset(w, n))
           /\ ~Repeated(w, n) /\ Free(w) # {}
           /\ rx' = Drained(Put(w, n)) /\ out' = Run(Put(w, n))
  <2>1. w.due <= n /\ n < w.due + Window BY <1>2, <1>3, <1>9 DEF BeyondWindow
  <2>2. top \in Nat /\ n <= top /\ Reaches(w, top) BY <1>2, <1>3, <2>1
  <2>. HIDE DEF top
  <2>3. Put(w, n) \in RxType /\ Placed(Put(w, n)) BY <1>2, <1>3, <1>9, <2>1, <2>2, PutKeeps
  <2>4. HandsOn(w, Run(Put(w, n)), Drained(Put(w, n))) BY <1>2, <1>3, <1>9, <2>3, PutHandsOn
  <2>. QED BY <1>6, <1>9, <2>4
<1>. QED BY <1>4, <1>7, <1>8, <1>9

\* Before the first packet a tick finds nothing and leaves nothing.
LEMMA NothingMoves == WindowInv /\ ~rx.have_next => Used(Drained(rx)) = {}
<1>. SUFFICES ASSUME WindowInv, ~rx.have_next PROVE Used(Drained(rx)) = {} OBVIOUS
<1>1. rx \in RxType /\ \A i \in Slots : rx.pending[i] = 0 BY DEF WindowInv, Used
<1>2. \A i \in Slots : Drained(rx).pending[i] = 0 BY <1>1, DrainedFields
<1>. QED BY <1>2 DEF Used

LEMMA TickHandsOn ==
    ASSUME WindowInv, Tick
    PROVE  HandsOn(rx, out', rx')
<1>. DEFINE head == Drained(rx)
            off == WrittenOff(head)
            after == Drained(off)
<1>1. rx \in RxType /\ LastNo \in Nat BY ConstantTypes DEF WindowInv
<1>2. \/ rx'.pending = head.pending /\ rx'.due = head.due /\ out' = Run(rx)
      \/ /\ Used(head) # {}
         /\ rx'.pending = after.pending /\ rx'.due = after.due
         /\ out' = Run(rx) \o <<Concealed>> \o Run(off)
  <2>1. head \in RxType BY <1>1, DrainedFields
  <2>2. \/ rx' = head /\ out' = Run(rx)
        \/ rx' = [head EXCEPT !.gap_wait = Waited(head)] /\ out' = Run(rx)
        \/ /\ Used(head) # {}
           /\ rx' = after \/ rx' = [after EXCEPT !.gap_wait = Waited(after)]
           /\ out' = Run(rx) \o <<Concealed>> \o Run(off)
    BY Zenon DEF Tick
  <2>3. \A v \in RxType : \A g : /\ [v EXCEPT !.gap_wait = g].pending = v.pending
                               /\ [v EXCEPT !.gap_wait = g].due = v.due
    BY DEF RxType
  <2>4. Used(head) # {} => after \in RxType
    <3>1. ASSUME rx.have_next, Used(head) # {} PROVE after \in RxType
      <4>1. Placed(rx) /\ Reaches(rx, newest) /\ newest \in Nat
        BY <3>1, ConstantTypes DEF WindowInv
      <4>2. Placed(head) /\ Settled(head) /\ Reaches(head, newest)
        BY <1>1, <4>1, DrainedKeeps
      <4>. HIDE DEF head
      <4>3. off \in RxType BY <2>1, <3>1, <4>1, <4>2, WrittenOffKeeps
      <4>. QED BY <4>3, DrainedFields
    <3>2. ~rx.have_next => Used(head) = {} BY NothingMoves
    <3>. QED BY <3>1, <3>2
  <2>. HIDE DEF head, after, off
  <2>. QED BY ZenonT(40), <2>1, <2>2, <2>3, <2>4
<1>3. CASE ~rx.have_next
  <2>1. Used(rx) = {} BY <1>3 DEF WindowInv
  <2>2. RunLength(rx) = 0 /\ head.due = rx.due BY <1>1, <2>1, NothingToDrain
  <2>3. Used(head) = {} BY <1>3, NothingMoves
  <2>4. out' = Run(rx) BY <1>2, <2>3
  <2>5. out' = <<>> BY <2>2, <2>4 DEF Run
  <2>6. <<>> \in Seq(0..LastNo) /\ DOMAIN <<>> = {} OBVIOUS
  <2>. QED BY <2>1, <2>5, <2>6 DEF HandsOn, Orderly
<1>4. CASE rx.have_next
  <2>1. Placed(rx) /\ Reaches(rx, newest) /\ newest \in Nat
    BY <1>4, ConstantTypes DEF WindowInv
  <2>2. HandsOn(rx, Run(rx), head) BY <1>1, <2>1, DrainHandsOn
  <2>3. /\ head \in RxType /\ Placed(head) /\ Settled(head) /\ Reaches(head, newest)
        /\ head.due = rx.due + RunLength(rx)
    BY <1>1, <2>1, DrainedFields, DrainedKeeps
  <2>4. rx.due \in Nat /\ head.due \in Nat /\ rx.due <= head.due
    <3>1. RunLength(rx) \in Nat BY RunLengthIs, ConstantTypes
    <3>. HIDE DEF head
    <3>. QED BY <1>1, <2>3, <3>1 DEF RxType
  <2>. HIDE DEF head
  <2>5. CASE rx'.pending = head.pending /\ rx'.due = head.due /\ out' = Run(rx)
    BY <2>2, <2>5 DEF HandsOn
  <2>6. CASE /\ Used(head) # {}
             /\ rx'.pending = after.pending /\ rx'.due = after.due
             /\ out' = Run(rx) \o <<Concealed>> \o Run(off)
    <3>1. off \in RxType /\ Placed(off) BY <2>1, <2>3, <2>6, WrittenOffKeeps
    <3>2. off.due = head.due + 1 /\ off.pending = head.pending
      <4>1. head.next_seq \in 0..(Modulus - 1) BY <2>3 DEF RxType
      <4>. QED BY <2>3 DEF WrittenOff, RxType
    <3>. HIDE DEF off
    <3>3. HandsOn(off, Run(off), after) BY <3>1, DrainHandsOn
    <3>4. after.due = off.due + RunLength(off) /\ RunLength(off) \in Nat
      BY <3>1, DrainedFields, RunLengthIs, ConstantTypes
    <3>. HIDE DEF after
    <3>5. off.due \in Nat /\ after.due \in Nat /\ head.due <= off.due /\ off.due <= after.due
      BY <2>4, <3>2, <3>4
    <3>6. HandsOn(head, <<Concealed>>, off)
      <4>. DEFINE one == <<Concealed>>
      <4>1. one \in Seq(0..LastNo) /\ DOMAIN one = 1..1 /\ one[1] = Concealed
        BY <1>1 DEF Concealed
      <4>. HIDE DEF one
      <4>2. \A k \in DOMAIN one : one[k] = Concealed BY <4>1
      <4>3. HandsOn(head, one, off) BY <3>2, <4>1, <4>2 DEF HandsOn, Orderly
      <4>. QED BY <4>3 DEF one
    <3>7. \A i \in Used(rx) : i \in Slots /\ rx.pending[i] # 0 BY DEF Used
    <3>8. HandsOn(rx, Run(rx) \o <<Concealed>>, off)
      BY <2>2, <2>4, <3>5, <3>6, <3>7, HandsOnJoin
    <3>9. rx.due <= off.due BY <2>4, <3>5
    <3>10. HandsOn(rx, (Run(rx) \o <<Concealed>>) \o Run(off), after)
      BY <2>4, <3>3, <3>5, <3>7, <3>8, <3>9, HandsOnJoin
    <3>. QED BY <2>6, <3>10 DEF HandsOn
  <2>. QED BY <1>2, <2>5, <2>6
<1>. QED BY <1>3, <1>4

\* Whatever the network does, the decoder is handed packets in the order they were
\* sent, none from before its horizon, and what waits leaves only to be decoded.
LEMMA StepHandsOn == WindowInv /\ WindowNext => HandsOn(rx, out', rx')
BY ArriveHandsOn, TickHandsOn DEF WindowNext

\* The packets the decoder is handed are in the order they were sent, each once and
\* none from before its horizon (InOrder), also where sequence numbers wrap.
THEOREM DecodedInOrder == WindowSpec => InOrder
<1>. DEFINE Ordered == \A k \in DOMAIN out' : out'[k] # Concealed =>
                          /\ rx.due <= out'[k] /\ out'[k] < rx'.due
                          /\ \A j \in DOMAIN out' : j < k => out'[j] < out'[k]
<1>1. WindowInv /\ [WindowNext]_windowVars => [Ordered]_windowVars
  BY StepHandsOn DEF HandsOn, Orderly
<1>. QED BY <1>1, WindowInvariant, PTL DEF WindowSpec, InOrder

\* What waits leaves only by being decoded, also when a jump flushes it
\* (NoneThrownAway).
THEOREM NothingThrownAway == WindowSpec => NoneThrownAway
<1>. DEFINE Kept == \A i \in Used(rx) :
                       \/ \E j \in Slots : rx'.pending[j] = rx.pending[i]
                       \/ \E k \in DOMAIN out' : out'[k] = rx.pending[i]
<1>1. WindowInv /\ [WindowNext]_windowVars => [Kept]_windowVars
  <2>. SUFFICES ASSUME WindowInv, WindowNext PROVE Kept OBVIOUS
  <2>1. HandsOn(rx, out', rx') BY StepHandsOn
  <2>. QED BY <2>1 DEF HandsOn, Used
<1>. QED BY <1>1, WindowInvariant, PTL DEF WindowSpec, NoneThrownAway
--------------------------------------------------------------------------------
(* Playback: the window and the ring *)

\* The sound card's thread takes from the ring and leaves the window alone; what
\* the pump decodes goes to the ring without a word back to the window.
THEOREM PlaybackImplementsWindow == Spec => WindowSpec
<1>1. Init => WindowInit BY DEF Init
<1>2. [Next]_vars => [WindowNext]_windowVars
  <2>. SUFFICES ASSUME [Next]_vars PROVE [WindowNext]_windowVars OBVIOUS
  <2>1. CASE Receive BY <2>1 DEF Receive
  <2>2. CASE Play BY <2>2 DEF Play
  <2>3. CASE UNCHANGED vars BY <2>3 DEF vars
  <2>. QED BY <2>1, <2>2, <2>3 DEF Next
<1>. QED BY <1>1, <1>2, PTL DEF Spec, WindowSpec

\* While it is also being played, the window holds no packet whose turn is over,
\* tells late from early across a wrap, and has a slot for what comes next.
THEOREM PlaybackWindowSound == Spec => [](NoneStale /\ JudgedRight /\ AlwaysASlot)
BY PlaybackImplementsWindow, NothingStaleWaits, WrapIsHarmless, SlotToSpare, PTL

\* Listening changes neither the order the packets of a caller are handed on in nor
\* what is handed on: no packet reaches the decoder after a later one, and none that
\* was accepted for the window is dropped unheard.
THEOREM PlaybackKeepsOrder == Spec => InOrder /\ NoneThrownAway
BY PlaybackImplementsWindow, DecodedInOrder, NothingThrownAway, PTL

--------------------------------------------------------------------------------
(* Places in the ring *)

LEMMA RingTypes ==
    /\ RING \in Nat /\ RING % 2 = 0 /\ FRAME \in Nat /\ FRAME >= 1 /\ FRAME % 2 = 0
    /\ FRAME < RING
BY RingAssumption

\* The place before the start is the last, the one behind the last the first.
LEMMA RoundTheRing ==
    ASSUME NEW x \in Int, -RING <= x, x < 2 * RING
    PROVE  x % RING = IF x < 0 THEN x + RING ELSE IF x < RING THEN x ELSE x - RING
<1>. DEFINE q == x \div RING
            r == x % RING
<1>1. RING \in Nat /\ RING >= 1 BY RingTypes
<1>2. r \in 0..(RING - 1) /\ q \in Int /\ x = RING * q + r BY <1>1
<1>. HIDE DEF q, r
<1>3. CASE q >= 2
  <2>1. RING * q >= RING * 2 BY <1>1, <1>2, <1>3
  <2>. QED BY <1>1, <1>2, <2>1
<1>4. CASE q <= -2
  <2>1. RING * q <= RING * (-2) BY <1>1, <1>2, <1>4
  <2>. QED BY <1>1, <1>2, <2>1
<1>5. CASE q = 1 BY <1>1, <1>2, <1>5 DEF r
<1>6. CASE q = 0 BY <1>1, <1>2, <1>6 DEF r
<1>7. CASE q = -1 BY <1>1, <1>2, <1>7 DEF r
<1>. QED BY <1>2, <1>3, <1>4, <1>5, <1>6, <1>7

LEMMA WholeFrames ==
    ASSUME NEW x \in Int
    PROVE  /\ x % FRAME \in 0..(FRAME - 1) /\ x \div FRAME \in Int
           /\ x = FRAME * (x \div FRAME) + (x % FRAME)
BY RingTypes

Places == 0..(RING - 1)
Samples == Int \X Int

\* The ring that was allocated, or the empty one before.
RingType == [read_pos : Places, write_pos : Places, dry : BOOLEAN,
             pcm : [Places -> Samples \union {Silence}] \union {<<>>}]

\* How far behind the next sample to be played a place is.
Behind(r, i) == IF i < r.read_pos THEN i - r.read_pos + RING ELSE i - r.read_pos

\* The strengthening: a queued sample is a left one in an even place, a right one in
\* an odd place, and nothing is queued in a ring that is not there.
Stereo(r) ==
    /\ r \in RingType
    /\ r.read_pos % 2 = 0 /\ r.write_pos % 2 = 0
    /\ r.pcm = <<>> => Avail(r) = 0
    /\ \A i \in Places : Behind(r, i) < Avail(r) => r.pcm[i] \in Samples /\ r.pcm[i][2] % 2 = (i + 1) % 2

LEMMA AvailType ==
    ASSUME NEW r \in RingType
    PROVE  /\ Avail(r) \in 0..(RING - 1) /\ r.read_pos \in Nat /\ r.write_pos \in Nat
           /\ r.read_pos < RING /\ r.write_pos < RING
           /\ r.read_pos % 2 = 0 /\ r.write_pos % 2 = 0 => Avail(r) % 2 = 0
           /\ r.write_pos = IF r.read_pos + Avail(r) < RING THEN r.read_pos + Avail(r)
                            ELSE r.read_pos + Avail(r) - RING
BY SMTT(30), RingTypes DEF RingType, Avail, Places

\* A ring that is there has all its places.
LEMMA AllocatedIs ==
    ASSUME NEW r \in RingType
    PROVE  /\ Allocated(r) <=> r.pcm # <<>>
           /\ Memory(r) \in [Places -> Samples \union {Silence}]
           /\ r.pcm # <<>> => Memory(r) = r.pcm
<1>1. 0 \in Places BY RingTypes DEF Places
<1>2. CASE r.pcm = <<>>
  <2>1. ~Allocated(r) BY <1>2 DEF Allocated
  <2>. QED BY <1>2, <2>1 DEF Memory, Places
<1>3. CASE r.pcm # <<>>
  <2>1. r.pcm \in [Places -> Samples \union {Silence}] BY <1>3 DEF RingType
  <2>2. Allocated(r) BY <1>1, <2>1 DEF Allocated
  <2>. QED BY <1>3, <2>1, <2>2 DEF Memory
<1>. QED BY <1>2, <1>3

\* What is dropped is whole pairs, no more than there are, and makes room.
LEMMA DroppedIs ==
    ASSUME NEW r, Stereo(r), NEW n \in Nat, n % 2 = 0, n < RING
    PROVE  /\ Dropped(r, n) \in Nat /\ Dropped(r, n) % 2 = 0
           /\ Dropped(r, n) <= Avail(r)
           /\ Avail(r) - Dropped(r, n) + n < RING
<1>. DEFINE a == Avail(r)
            need == n - Room(r)
            q == (need + FRAME - 1) \div FRAME
            d == Rounded(need)
<1>1. a \in Nat /\ a < RING /\ a % 2 = 0 /\ a - (a % 2) = a
  BY AvailType, RingTypes DEF Stereo
<1>2. Room(r) = RING - a - 1 BY DEF Room
<1>3. CASE Room(r) >= n
  <2>1. Dropped(r, n) = 0 BY <1>3 DEF Dropped
  <2>. QED BY <1>1, <1>2, <1>3, <2>1, RingTypes
<1>4. CASE ~(Room(r) >= n)
  <2>1. need \in Nat /\ need >= 1 BY <1>1, <1>2, <1>4, RingTypes
  <2>. HIDE DEF need
  <2>2. q \in Nat /\ d = q * FRAME /\ d >= need
    <3>. DEFINE x == need + FRAME - 1
                rest == x % FRAME
    <3>1. x \in Int /\ FRAME \in Nat /\ FRAME >= 1 /\ x = need + FRAME - 1 BY <2>1, RingTypes
    <3>2. rest \in 0..(FRAME - 1) /\ q \in Int /\ x = FRAME * q + rest
      BY <3>1, WholeFrames
    <3>3. d = q * FRAME BY DEF Rounded
    <3>. HIDE DEF q, rest, x, d
    <3>5. q >= 0
      <4>1. CASE q <= -1
        <5>1. FRAME * q <= -FRAME BY <3>1, <3>2, <4>1
        <5>. QED BY <2>1, <3>1, <3>2, <5>1
      <4>. QED BY <3>2, <4>1
    <3>7. q * FRAME = FRAME * q /\ FRAME * q \in Int BY <3>1, <3>2
    <3>8. FRAME * q >= need BY <2>1, <3>1, <3>2, <3>7
    <3>. QED BY <3>2, <3>3, <3>5, <3>7, <3>8
  <2>. HIDE DEF q
  <2>3. d % 2 = 0 /\ d \in Nat
    <3>1. PICK h \in Nat : FRAME = 2 * h
      <4>1. FRAME \div 2 \in Nat /\ FRAME = 2 * (FRAME \div 2) BY RingTypes
      <4>. QED BY <4>1
    <3>2. q * FRAME = 2 * (q * h) /\ q * h \in Nat BY <2>2, <3>1
    <3>. QED BY <2>2, <3>2
  <2>4. Dropped(r, n) = IF d > a THEN a - (a % 2) ELSE d BY <1>4 DEF Dropped, need
  <2>. HIDE DEF d
  <2>5. need = n - (RING - a - 1) BY <1>2 DEF need
  <2>. HIDE DEF a
  <2>6. CASE d > a
    <3>1. Dropped(r, n) = a BY <1>1, <2>4, <2>6
    <3>2. a - a + n = n BY <1>1
    <3>. QED BY <1>1, <3>1, <3>2 DEF a
  <2>7. CASE ~(d > a)
    <3>1. Dropped(r, n) = d /\ d <= a BY <1>1, <2>3, <2>4, <2>7
    <3>2. a - d + n < RING BY <1>1, <2>1, <2>2, <2>3, <2>5, RingTypes
    <3>. QED BY <2>3, <3>1, <3>2 DEF a
  <2>. QED BY <2>6, <2>7
<1>. QED BY <1>3, <1>4

--------------------------------------------------------------------------------
(* What goes in and what comes out *)

\* A decoded frame: left and right by turns, and less than the ring.
Alternates(src) ==
    /\ src \in Seq(Samples) /\ Len(src) % 2 = 0 /\ Len(src) < RING
    /\ \A k \in 1..Len(src) : src[k][2] % 2 = k % 2

LEMMA PushedKeeps ==
    ASSUME NEW r, Stereo(r), NEW src, Alternates(src)
    PROVE  Stereo(Pushed(r, src))
<1>. DEFINE n == Len(src)
            a == Avail(r)
            d == Dropped(r, n)
            R == r.read_pos
            W == r.write_pos
            nth(i) == ((i - W) % RING) + 1
            mem == Memory(r)
            pcm == [i \in 0..(RING - 1) |-> IF nth(i) <= n THEN src[nth(i)] ELSE mem[i]]
            x == R + d
            y == W + n
            read == x % RING
            write == y % RING
            p == Pushed(r, src)
<1>1. r \in RingType /\ n \in Nat /\ n % 2 = 0 /\ n < RING
  BY DEF Alternates, Stereo
<1>2. d \in Nat /\ d % 2 = 0 /\ d <= a /\ a - d + n < RING
  BY <1>1, DroppedIs
<1>3. /\ a \in Nat /\ a < RING /\ a % 2 = 0 /\ R \in Nat /\ W \in Nat /\ R < RING /\ W < RING
      /\ R % 2 = 0 /\ W % 2 = 0
      /\ W = IF R + a < RING THEN R + a ELSE R + a - RING
      /\ RING \in Nat /\ RING % 2 = 0
  BY <1>1, AvailType, RingTypes DEF Stereo
<1>4. mem \in [Places -> Samples \union {Silence}] /\ (r.pcm # <<>> => mem = r.pcm)
  BY <1>1, AllocatedIs
<1>5. p = [r EXCEPT !.read_pos = read, !.write_pos = write, !.pcm = pcm]
  BY DEF Pushed
<1>. HIDE DEF n, a, d, R, W
<1>6. /\ read = IF R + d < RING THEN R + d ELSE R + d - RING
      /\ write = IF W + n < RING THEN W + n ELSE W + n - RING
  <2>1. x \in Int /\ -RING <= x /\ x < 2 * RING /\ ~(x < 0) /\ x = R + d BY <1>2, <1>3
  <2>2. y \in Int /\ -RING <= y /\ y < 2 * RING /\ ~(y < 0) /\ y = W + n BY <1>1, <1>3
  <2>. HIDE DEF x, y
  <2>3. read = IF x < RING THEN x ELSE x - RING BY <2>1, RoundTheRing
  <2>4. write = IF y < RING THEN y ELSE y - RING BY <2>2, RoundTheRing
  <2>. HIDE DEF read, write
  <2>5. read = IF R + d < RING THEN R + d ELSE R + d - RING BY <1>2, <1>3, <2>1, <2>3
  <2>6. write = IF W + n < RING THEN W + n ELSE W + n - RING BY <1>1, <1>3, <2>2, <2>4
  <2>. QED BY <2>5, <2>6
<1>7. \A i \in Places : nth(i) = IF i < W THEN i - W + RING + 1 ELSE i - W + 1
  <2>. TAKE i \in Places
  <2>1. i \in Nat /\ i < RING BY <1>3 DEF Places
  <2>2. i - W \in Int /\ -RING <= i - W /\ i - W < 2 * RING /\ i - W < RING BY <1>3, <2>1
  <2>3. (i - W) % RING = IF i - W < 0 THEN i - W + RING ELSE i - W BY <2>2, RoundTheRing
  <2>. QED BY <1>3, <2>1, <2>3
<1>. HIDE DEF nth, mem, read, write
<1>8. pcm = [i \in Places |-> IF nth(i) <= n THEN src[nth(i)] ELSE mem[i]]
  BY DEF Places
<1>9. /\ DOMAIN pcm = Places
      /\ \A i \in Places : pcm[i] = IF nth(i) <= n THEN src[nth(i)] ELSE mem[i]
  <2>. HIDE DEF pcm
  <2>. QED BY <1>8
<1>10. \A i \in Places : nth(i) <= n =>
          pcm[i] \in Samples /\ pcm[i][2] % 2 = (i + 1) % 2
  <2>. TAKE i \in Places
  <2>. HAVE nth(i) <= n
  <2>1. i \in Nat /\ i < RING BY <1>3 DEF Places
  <2>2. nth(i) \in 1..n /\ nth(i) % 2 = (i + 1) % 2 BY <1>1, <1>3, <1>7, <2>1
  <2>3. pcm[i] = src[nth(i)] BY <1>9
  <2>4. src[nth(i)] \in Samples /\ src[nth(i)][2] % 2 = nth(i) % 2
    BY <2>2, ElementOfSeq DEF Alternates, n
  <2>. QED BY <2>2, <2>3, <2>4
<1>. HIDE DEF pcm
<1>11. pcm \in [Places -> Samples \union {Silence}]
  <2>1. \A i \in Places : pcm[i] \in Samples \union {Silence} BY <1>4, <1>9, <1>10
  <2>2. pcm = [i \in Places |-> pcm[i]]
    <3>1. pcm = [i \in DOMAIN pcm |-> pcm[i]] BY DEF pcm
    <3>. QED BY <1>9, <3>1
  <2>. QED BY <2>1, <2>2
<1>12. /\ p \in RingType /\ p.read_pos = read /\ p.write_pos = write /\ p.pcm = pcm
  <2>1. read \in Places /\ write \in Places BY <1>1, <1>2, <1>3, <1>6 DEF Places
  <2>. HIDE DEF p
  <2>. QED BY <1>1, <1>5, <1>11, <2>1 DEF RingType
<1>. HIDE DEF p
<1>13. Avail(p) = a - d + n
  <2>1. Avail(p) = IF write - read < 0 THEN write - read + RING ELSE write - read
    BY <1>12 DEF Avail
  <2>. QED BY <1>1, <1>2, <1>3, <1>6, <2>1
<1>14. p.read_pos % 2 = 0 /\ p.write_pos % 2 = 0
  BY <1>1, <1>2, <1>3, <1>6, <1>12
<1>15. p.pcm # <<>>
  <2>1. 0 \in Places BY RingTypes DEF Places
  <2>. QED BY <1>9, <1>12, <2>1
<1>16. ASSUME NEW i \in Places, Behind(p, i) < Avail(p)
       PROVE  p.pcm[i] \in Samples /\ p.pcm[i][2] % 2 = (i + 1) % 2
  <2>1. i \in Nat /\ i < RING BY <1>3 DEF Places
  <2>2. CASE nth(i) <= n BY <1>10, <1>12, <2>2
  <2>3. CASE ~(nth(i) <= n)
    <3>1. Behind(r, i) < a
      <4>1. Behind(r, i) = IF i < R THEN i - R + RING ELSE i - R BY DEF Behind, R
      <4>2. (IF i < read THEN i - read + RING ELSE i - read) < a - d + n
        BY <1>12, <1>13, <1>16 DEF Behind
      <4>3. ~((IF i < W THEN i - W + RING + 1 ELSE i - W + 1) <= n) BY <1>7, <2>3
      <4>. QED BY <1>1, <1>2, <1>3, <1>6, <2>1, <4>1, <4>2, <4>3
    <3>2. a # 0
      <4>1. Behind(r, i) \in Nat BY <1>3, <2>1 DEF Behind, R
      <4>. QED BY <1>3, <3>1, <4>1
    <3>3. r.pcm # <<>> BY <3>2 DEF Stereo, a
    <3>4. r.pcm[i] \in Samples /\ r.pcm[i][2] % 2 = (i + 1) % 2
      BY <3>1 DEF Stereo, a
    <3>5. p.pcm[i] = r.pcm[i] BY <1>4, <1>9, <1>12, <2>3, <3>3
    <3>. QED BY <3>4, <3>5
  <2>. QED BY <2>2, <2>3
<1>. QED BY <1>12, <1>14, <1>15, <1>16 DEF Stereo, p

\* Taking whole pairs out of the front of the queue leaves the rest as it was.
LEMMA TakenKeeps ==
    ASSUME NEW r, Stereo(r), NEW n \in Nat, n % 2 = 0, n <= Avail(r), NEW dry \in BOOLEAN
    PROVE  Stereo([r EXCEPT !.read_pos = (@ + n) % RING, !.dry = dry])
<1>. DEFINE a == Avail(r)
            R == r.read_pos
            W == r.write_pos
            x == R + n
            read == x % RING
            p == [r EXCEPT !.read_pos = read, !.dry = dry]
<1>1. r \in RingType BY DEF Stereo
<1>2. /\ a \in Nat /\ a < RING /\ R \in Nat /\ W \in Nat /\ R < RING /\ W < RING
      /\ R % 2 = 0 /\ W % 2 = 0 /\ n <= a
      /\ W = IF R + a < RING THEN R + a ELSE R + a - RING
      /\ RING \in Nat /\ RING % 2 = 0
  BY <1>1, AvailType, RingTypes DEF Stereo
<1>. HIDE DEF a, R, W
<1>3. read = IF R + n < RING THEN R + n ELSE R + n - RING
  <2>1. x \in Int /\ -RING <= x /\ x < 2 * RING /\ ~(x < 0) /\ x = R + n BY <1>2
  <2>. HIDE DEF x
  <2>2. read = IF x < RING THEN x ELSE x - RING BY <2>1, RoundTheRing
  <2>. HIDE DEF read
  <2>. QED BY <1>2, <2>1, <2>2
<1>. HIDE DEF read
<1>4. read \in Places /\ read % 2 = 0 BY <1>2, <1>3 DEF Places
<1>5. /\ p \in RingType /\ p.read_pos = read /\ p.write_pos = W /\ p.pcm = r.pcm
  BY <1>1, <1>4 DEF RingType, W
<1>. HIDE DEF p
<1>6. Avail(p) = a - n
  <2>1. Avail(p) = IF W - read < 0 THEN W - read + RING ELSE W - read BY <1>5 DEF Avail
  <2>. QED BY <1>2, <1>3, <2>1
<1>7. r.pcm = <<>> => a = 0 BY DEF Stereo, a
<1>8. ASSUME NEW i \in Places, Behind(p, i) < Avail(p)
      PROVE  p.pcm[i] \in Samples /\ p.pcm[i][2] % 2 = (i + 1) % 2
  <2>1. i \in Nat /\ i < RING BY <1>2 DEF Places
  <2>2. Behind(r, i) = IF i < R THEN i - R + RING ELSE i - R BY DEF Behind, R
  <2>3. (IF i < read THEN i - read + RING ELSE i - read) < a - n
    BY <1>5, <1>6, <1>8 DEF Behind
  <2>4. Behind(r, i) < a BY <1>2, <1>3, <2>1, <2>2, <2>3
  <2>. QED BY <1>5, <2>4 DEF Stereo, a
<1>9. Stereo(p) BY <1>2, <1>4, <1>5, <1>6, <1>7, <1>8 DEF Stereo
<1>. QED BY <1>9 DEF p, read, R

LEMMA MixedKeeps ==
    ASSUME NEW r, Stereo(r), NEW n \in Nat, n % 2 = 0
    PROVE  Stereo(Mixed(r, n))
<1>1. r \in RingType /\ Avail(r) \in Nat /\ Avail(r) % 2 = 0
  BY AvailType, RingTypes DEF Stereo
<1>2. CASE Mixed(r, n) = r BY <1>2
<1>3. CASE Mixed(r, n) = [r EXCEPT !.dry = TRUE]
  <2>. DEFINE p == [r EXCEPT !.dry = TRUE]
  <2>1. p \in RingType /\ p.read_pos = r.read_pos /\ p.write_pos = r.write_pos /\ p.pcm = r.pcm
    BY <1>1 DEF RingType
  <2>. HIDE DEF p
  <2>2. Stereo(p) BY <2>1 DEF Stereo, Avail, Behind
  <2>. QED BY <1>3, <2>2 DEF p
<1>4. CASE \E m \in {Avail(r), n} :
             /\ m <= Avail(r)
             /\ Mixed(r, n) = [r EXCEPT !.read_pos = (@ + m) % RING, !.dry = m < n]
  <2>1. PICK m \in {Avail(r), n} :
             /\ m <= Avail(r)
             /\ Mixed(r, n) = [r EXCEPT !.read_pos = (@ + m) % RING, !.dry = m < n]
    BY <1>4
  <2>. DEFINE dry == m < n
  <2>2. m \in Nat /\ m % 2 = 0 /\ dry \in BOOLEAN /\ m <= Avail(r) BY <1>1, <2>1
  <2>3. Mixed(r, n) = [r EXCEPT !.read_pos = (@ + m) % RING, !.dry = dry] BY <2>1
  <2>. HIDE DEF dry
  <2>4. Stereo([r EXCEPT !.read_pos = (@ + m) % RING, !.dry = dry])
    BY <2>2, TakenKeeps
  <2>. QED BY <2>3, <2>4
<1>5. \/ Mixed(r, n) = r \/ Mixed(r, n) = [r EXCEPT !.dry = TRUE]
      \/ \E m \in {Avail(r), n} :
             /\ m <= Avail(r)
             /\ Mixed(r, n) = [r EXCEPT !.read_pos = (@ + m) % RING, !.dry = m < n]
  <2>. DEFINE m == IF Avail(r) < n THEN Avail(r) ELSE n
  <2>1. m \in {Avail(r), n} /\ m <= Avail(r) BY <1>1
  <2>2. \/ Mixed(r, n) = r \/ Mixed(r, n) = [r EXCEPT !.dry = TRUE]
        \/ Mixed(r, n) = [r EXCEPT !.read_pos = (@ + m) % RING, !.dry = m < n]
    BY Zenon DEF Mixed
  <2>. QED BY <2>1, <2>2
<1>. QED BY <1>2, <1>3, <1>4, <1>5

\* A frame the decoder makes, or invents.
LEMMA SoundAlternates == \A n \in 0..LastNo : Alternates(Sound(n))
<1>. TAKE n \in 0..LastNo
<1>. DEFINE m == IF n = Concealed THEN FRAME ELSE SamplesOf(n)
<1>1. n \in Nat /\ LastNo \in Nat BY ConstantTypes
<1>2. m \in Nat /\ m % 2 = 0 /\ m < RING
  BY <1>1, RingTypes, FramesAssumption DEF Concealed
<1>3. Sound(n) = [i \in 1..m |-> <<n, i>>] BY DEF Sound
<1>. HIDE DEF m
<1>4. \A i \in 1..m : <<n, i>> \in Samples BY <1>1, <1>2 DEF Samples
<1>5. Sound(n) \in [1..m -> Samples] BY <1>3, <1>4
<1>6. Sound(n) \in Seq(Samples) BY <1>2, <1>5, SeqDef
<1>7. Len(Sound(n)) = m BY <1>2, <1>3
<1>8. \A k \in 1..m : Sound(n)[k][2] % 2 = k % 2 BY <1>3
<1>. QED BY <1>2, <1>6, <1>7, <1>8 DEF Alternates

\* decode_into_ring, for everything a step decodes, one after the other.
LEMMA DecodedKeeps ==
    ASSUME NEW r, Stereo(r), NEW heard \in Seq(0..LastNo)
    PROVE  Stereo(Decoded(r, heard))
<1>. DEFINE n == Len(heard)
            Push(q, k) == Pushed(q, Sound(heard[k]))
            Is(f, m) == f = [k \in 0..m |-> IF k = 0 THEN r ELSE Push(f[k - 1], k)]
            T == {m \in Nat : \E f : Is(f, m)}
            after == CHOOSE f : Is(f, n)
<1>0. n \in Nat BY LenProperties
<1>1. Decoded(r, heard) = after[n] BY Zenon DEF Decoded
<1>2. ASSUME NEW q, Stereo(q), NEW k \in 1..n PROVE Stereo(Push(q, k))
  <2>1. heard[k] \in 0..LastNo BY <1>2, ElementOfSeq
  <2>. QED BY <1>2, <2>1, SoundAlternates, PushedKeeps
<1>. HIDE DEF Push, n
<1>3. 0 \in T
  <2>. DEFINE f == [k \in 0..0 |-> r]
  <2>1. Is(f, 0) OBVIOUS
  <2>. QED BY <2>1
<1>4. ASSUME NEW m \in 0..(n - 1), m \in T PROVE m + 1 \in T
  <2>1. PICK g : Is(g, m) BY <1>4
  <2>2. m \in Nat /\ \A k \in 0..m : g[k] = IF k = 0 THEN r ELSE Push(g[k - 1], k)
    BY <2>1
  <2>. DEFINE f == [k \in 0..(m + 1) |-> IF k = m + 1 THEN Push(g[m], k) ELSE g[k]]
  <2>3. \A k \in 0..(m + 1) : f[k] = IF k = 0 THEN r ELSE Push(f[k - 1], k)
    <3>. TAKE k \in 0..(m + 1)
    <3>1. CASE k = m + 1
      <4>1. f[k] = Push(g[m], k) /\ f[k - 1] = g[m] /\ k # 0 BY <2>2, <3>1
      <4>. QED BY <4>1
    <3>2. CASE k # m + 1
      <4>1. k \in 0..m /\ f[k] = g[k] BY <2>2, <3>2
      <4>2. k # 0 => k - 1 \in 0..m /\ f[k - 1] = g[k - 1] BY <2>2, <4>1
      <4>. QED BY <2>2, <4>1, <4>2
    <3>. QED BY <3>1, <3>2
  <2>4. f = [k \in 0..(m + 1) |-> f[k]] OBVIOUS
  <2>. HIDE DEF f
  <2>5. Is(f, m + 1) BY <2>3, <2>4
  <2>. QED BY <2>2, <2>5
<1>5. Is(after, n)
  <2>1. \A k \in 0..n : k \in T
    <3>. HIDE DEF T
    <3>. QED BY <1>0, <1>3, <1>4, CountingUp
  <2>2. \E f : Is(f, n) BY <1>0, <2>1
  <2>. HIDE DEF Is
  <2>. QED BY <2>2, Zenon
<1>6. \A k \in 0..n : after[k] = IF k = 0 THEN r ELSE Push(after[k - 1], k)
  <2>. HIDE DEF after
  <2>. QED BY <1>5
<1>. HIDE DEF after
<1>. DEFINE K == {k \in 0..n : Stereo(after[k])}
<1>7. 0 \in K BY <1>0, <1>6
<1>8. ASSUME NEW k \in 0..(n - 1), k \in K PROVE k + 1 \in K
  <2>1. k + 1 \in 0..n /\ k + 1 \in 1..n /\ k + 1 - 1 = k /\ k + 1 # 0 BY <1>0
  <2>2. after[k + 1] = Push(after[k], k + 1) BY <1>6, <2>1
  <2>. QED BY <1>2, <1>8, <2>1, <2>2
<1>9. \A k \in 0..n : k \in K
  <2>. HIDE DEF K
  <2>. QED BY <1>0, <1>7, <1>8, CountingUp
<1>10. Stereo(after[n]) BY <1>0, <1>9
<1>. QED BY <1>1, <1>10

LEMMA StereoIsAligned == Stereo(ring) => StereoAligned
<1>. SUFFICES ASSUME Stereo(ring) PROVE StereoAligned OBVIOUS
<1>1. ring \in RingType /\ ring.read_pos % 2 = 0 /\ ring.write_pos % 2 = 0 BY DEF Stereo
<1>2. ASSUME NEW k \in 1..Avail(ring)
      PROVE  Contents(ring)[k][2] % 2 = k % 2
  <2>. DEFINE x == ring.read_pos + k - 1
              i == x % RING
  <2>1. /\ Avail(ring) \in Nat /\ Avail(ring) < RING /\ ring.read_pos \in Nat
        /\ ring.read_pos < RING /\ RING % 2 = 0 /\ RING \in Nat /\ k \in Nat
    BY <1>1, AvailType, RingTypes
  <2>2. x \in Int /\ -RING <= x /\ x < 2 * RING /\ ~(x < 0) BY <2>1
  <2>3. Contents(ring)[k] = ring.pcm[i] BY DEF Contents
  <2>. HIDE DEF i
  <2>4. i = IF x < RING THEN x ELSE x - RING
    <3>. HIDE DEF x
    <3>. QED BY <2>2, RoundTheRing DEF i
  <2>5. i \in Places /\ Behind(ring, i) < Avail(ring) BY <1>2, <2>1, <2>4 DEF Places, Behind
  <2>6. ring.pcm[i][2] % 2 = (i + 1) % 2 BY <2>5 DEF Stereo
  <2>7. (i + 1) % 2 = k % 2 BY <1>1, <2>1, <2>4
  <2>. QED BY <2>3, <2>6, <2>7
<1>. QED BY <1>1, <1>2 DEF StereoAligned

--------------------------------------------------------------------------------
(* The playback as a whole *)

\* Left is never played for right, however the network and the sound card press on
\* the ring and however much speaker_push has to drop to make room (StereoAligned).
THEOREM LeftStaysLeft == Spec => []StereoAligned
<1>1. Init => WindowInv /\ Stereo(ring)
  <2>. SUFFICES ASSUME Init PROVE WindowInv /\ Stereo(ring) OBVIOUS
  <2>1. WindowInv BY WindowInvInit DEF Init
  <2>2. /\ ring \in RingType /\ ring.read_pos = 0 /\ ring.write_pos = 0
    BY RingTypes DEF Init, RingInit, RingType, Places
  <2>3. Avail(ring) = 0 BY <2>2 DEF Avail
  <2>4. \A i \in Places : ~(Behind(ring, i) < Avail(ring))
    BY <2>2, <2>3, RingTypes DEF Places, Behind
  <2>. QED BY <2>1, <2>2, <2>3, <2>4 DEF Stereo
<1>2. WindowInv /\ Stereo(ring) /\ [Next]_vars => (WindowInv /\ Stereo(ring))'
  <2>. SUFFICES ASSUME WindowInv, Stereo(ring), [Next]_vars
                PROVE  WindowInv' /\ Stereo(ring')
    BY DEF Stereo, Avail, Behind
  <2>1. CASE Receive
    <3>1. out' \in Seq(0..LastNo) BY <2>1, StepHandsOn DEF Receive, HandsOn
    <3>. QED BY <2>1, <3>1, DecodedKeeps, WindowInvNext DEF Receive
  <2>2. CASE Play
    <3>1. PICK n \in Requests : Mix(n) BY <2>2 DEF Play
    <3>2. n \in Nat /\ n % 2 = 0 BY RequestsAssumption
    <3>3. Stereo(ring') BY <3>1, <3>2, MixedKeeps DEF Mix
    <3>. QED BY <2>2, <3>3, WindowInvNext DEF Play
  <2>3. CASE UNCHANGED vars BY <2>3, WindowInvNext DEF vars
  <2>. QED BY <2>1, <2>2, <2>3 DEF Next
<1>. QED BY <1>1, <1>2, StereoIsAligned, PTL DEF Spec
================================================================================
