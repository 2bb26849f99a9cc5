----------------------------- MODULE ReceiveWindow -----------------------------
(***************************************************************************)
(* The reorder window of one speaker in a call (discord/voice.cpp): what   *)
(* feed_opus does with a packet and what window_drain does on every tick   *)
(* of the receive pump.  Both run under g_speakers_lock, so each is a step. *)
(*                                                                         *)
(* A packet is its number in the sender's stream, 1 for the first.  The    *)
(* wire carries only the low sixteen bits of it, and every comparison here *)
(* is made on those.  What the step under way hands to the opus decoder is *)
(* the sequence out; a frame the decoder invents is Concealed.             *)
(***************************************************************************)
EXTENDS Integers, SequencesExt

CONSTANTS
    Modulus,        \* 2^16: sequence numbers
    Window,         \* 8: packets that can wait
    Patience,       \* 3: ticks a missing head is waited for
    FirstNo, LastNo, \* bound: the stretch of the stream that is modelled
    MaxLate,        \* the network: how far a packet may come behind a newer one
    MaxJump         \* the network: how many packets may be missing in a row

ASSUME StreamAssumption == FirstNo \in Nat \ {0} /\ LastNo \in Nat
ASSUME WindowAssumption ==
    /\ Window \in Nat \ {0} /\ Patience \in Nat \ {0}
    /\ MaxLate \in Nat /\ MaxJump \in Nat
\* The signed difference of two numbers on the wire is read as at most half of
\* what they can count, so the network must not stretch further than that.
ASSUME ModulusAssumption ==
    /\ Modulus \in Nat \ {0} /\ Modulus % 2 = 0
    /\ 2 * (MaxLate + 1) <= Modulus
    /\ 2 * (MaxJump + Window) < Modulus

VARIABLES
    rx,             \* the receiving half of struct speaker
    out,            \* what the last step handed to the decoder
    newest          \* the newest packet that ever arrived

windowVars == <<rx, out, newest>>

Slots == 1..Window
Concealed == 0
Wire(n) == n % Modulus

\* due is not in the code: it is the number next_seq stands for.  Slot 0 is free.
WindowInit ==
    /\ rx = [pending |-> [i \in Slots |-> 0], next_seq |-> 0, have_next |-> FALSE,
             gap_wait |-> 0, due |-> 0]
    /\ out = <<>>
    /\ newest = 0

--------------------------------------------------------------------------------
(* What feed_opus and window_drain are made of.  w is a value of rx. *)

\* seq_ahead: (int)(short)(unsigned short)(a - b)
SeqAheadPlain(a, b) == a - b
SeqAhead(a, b) ==
    LET d == (a - b) % Modulus
    IN IF 2 * d < Modulus THEN d ELSE d - Modulus

Used(w) == {i \in Slots : w.pending[i] # 0}
Free(w) == Slots \ Used(w)
WaitingAt(w, s) == {i \in Used(w) : Wire(w.pending[i]) = s}

\* The k-th sequence number after the one the decoder expects.
NextSeq(w, k) == (w.next_seq + k) % Modulus

\* How many packets in a row have their turn.
RunLength(w) ==
    Min({k \in 0..Window : WaitingAt(w, NextSeq(w, k)) = {}} \union {Window})

\* The slot that the k-th of them is taken from.
Turn(w, k) == Min(WaitingAt(w, NextSeq(w, k)))
Run(w) == [k \in 1..RunLength(w) |-> w.pending[Turn(w, k - 1)]]

\* The arrival pass of window_drain, and the first half of a tick's.
Drained(w) ==
    LET n == RunLength(w)
        freed == {Turn(w, k) : k \in 0..(n - 1)}
    IN [w EXCEPT !.pending = [i \in Slots |-> IF i \in freed THEN 0 ELSE @[i]],
                 !.next_seq = NextSeq(w, n),
                 !.due = @ + n,
                 !.gap_wait = IF n > 0 THEN 0 ELSE @]

\* window_flush takes the waiting packets earliest first.
EarlierReversed(a, b) == SeqAhead(Wire(a), Wire(b)) > 0
Earlier(a, b) == SeqAhead(Wire(a), Wire(b)) < 0

FlushOrderNone(w) == <<>>
Earliest(w, S) == CHOOSE i \in S : \A j \in S : ~Earlier(w.pending[j], w.pending[i])
FlushOrder(w) ==
    LET n == Cardinality(Used(w))
        left[k \in 0..n] == IF k = 0 THEN Used(w)
                            ELSE left[k - 1] \ {Earliest(w, left[k - 1])}
    IN [k \in 1..n |-> Earliest(w, left[k - 1])]

Flushed(w) == LET order == FlushOrder(w) IN [k \in DOMAIN order |-> w.pending[order[k]]]

Restarted(w, n) ==
    [w EXCEPT !.pending = [i \in Slots |-> 0], !.next_seq = Wire(n), !.due = n,
              !.gap_wait = 0]

BeyondWindowLate(off) == off > Window
BeyondWindow(off) == off >= Window

\* A repeat of a packet that is already waiting.
RepeatedNever(w, n) == FALSE
Repeated(w, n) == WaitingAt(w, Wire(n)) # {}

Started(w, n) ==
    IF w.have_next THEN w
    ELSE [w EXCEPT !.have_next = TRUE, !.next_seq = Wire(n), !.due = n]

Offset(w, n) == SeqAhead(Wire(n), w.next_seq)
Put(w, n) == [w EXCEPT !.pending[Min(Free(w))] = n]

\* "++gap_wait", forgotten in the other.
WaitedNever(w) == w.gap_wait
Waited(w) == w.gap_wait + 1

\* A missing head is written off: one frame is concealed in its place.
WrittenOff(w) ==
    [w EXCEPT !.next_seq = NextSeq(w, 1), !.due = @ + 1, !.gap_wait = 0]

--------------------------------------------------------------------------------
(* Steps *)

\* The network delivers packets late, twice, out of order or not at all.
Deliverable(n) == newest = 0 \/ (newest - MaxLate <= n /\ n <= newest + MaxJump)

\* feed_opus: too old, or else put where it waits, after a restart if it is far
\* ahead, unless it waits already or there is no slot; then the arrival pass.
Arrive(n) ==
    /\ Deliverable(n)
    /\ newest' = IF n > newest THEN n ELSE newest
    /\ \E w \in {Started(rx, n)} :
         \/ Offset(w, n) < 0 /\ rx' = w /\ out' = <<>>
         \/ /\ BeyondWindow(Offset(w, n))
            /\ \E put \in {Put(Restarted(w, n), n)} :
                 rx' = Drained(put) /\ out' = Flushed(w) \o Run(put)
         \/ /\ Offset(w, n) >= 0 /\ ~BeyondWindow(Offset(w, n))
            /\ IF Repeated(w, n) \/ Free(w) = {}
               THEN rx' = w /\ out' = <<>>
               ELSE \E put \in {Put(w, n)} : rx' = Drained(put) /\ out' = Run(put)

\* window_drain(true).  After one write-off patience starts again.
Tick ==
    /\ UNCHANGED newest
    /\ \E head \in {Drained(rx)} :
         \/ Used(head) = {} /\ rx' = head /\ out' = Run(rx)
         \/ /\ Used(head) # {} /\ Waited(head) <= Patience
            /\ rx' = [head EXCEPT !.gap_wait = Waited(head)] /\ out' = Run(rx)
         \/ /\ Used(head) # {} /\ Waited(head) > Patience
            /\ \E off \in {WrittenOff(head)} : \E after \in {Drained(off)} :
                 /\ out' = Run(rx) \o <<Concealed>> \o Run(off)
                 /\ rx' = IF Used(after) = {} THEN after
                          ELSE [after EXCEPT !.gap_wait = Waited(after)]

WindowNext == Tick \/ \E n \in FirstNo..LastNo : Arrive(n)

WindowSpec == WindowInit /\ [][WindowNext]_windowVars

--------------------------------------------------------------------------------
(* Properties *)

WindowTypeOK ==
    /\ rx.pending \in [Slots -> 0..LastNo]
    /\ rx.next_seq \in 0..(Modulus - 1)
    /\ rx.have_next \in BOOLEAN
    /\ rx.gap_wait \in 0..Patience
    /\ rx.due \in Nat /\ out \in Seq(0..LastNo)
    /\ newest \in 0..LastNo

\* A packet that waits still has its turn to come, inside the window, and waits
\* once: one left behind would keep its slot and be concealed for, for ever.
NoneStale ==
    \A i \in Used(rx) :
        /\ rx.due < rx.pending[i] /\ rx.pending[i] < rx.due + Window
        /\ \A j \in Used(rx) : rx.pending[i] = rx.pending[j] => i = j

\* The decoder is handed packets in the order they were sent, each of them once
\* and none from before its horizon, also where sequence numbers wrap.
InOrder ==
    [][\A k \in DOMAIN out' : out'[k] # Concealed =>
        /\ rx.due <= out'[k] /\ out'[k] < rx'.due
        /\ \A j \in DOMAIN out' : j < k => out'[j] < out'[k]]_windowVars

\* A slot is free whatever may arrive next: feed_opus calls the case that there
\* is none "unreachable with off < 8".
AlwaysASlot == Free(rx) # {}

\* A packet is judged by its place in the stream, wherever the numbers wrap: late
\* if its turn is over, a new start if it is a window or more ahead.
JudgedRight ==
    rx.have_next =>
        \A n \in FirstNo..LastNo : Deliverable(n) =>
            /\ Offset(rx, n) < 0 <=> n < rx.due
            /\ BeyondWindow(Offset(rx, n)) <=> n >= rx.due + Window

\* What waits leaves only by being decoded, also when a jump flushes it.
NoneThrownAway ==
    [][\A i \in Used(rx) :
        \/ \E j \in Slots : rx'.pending[j] = rx.pending[i]
        \/ \E k \in DOMAIN out' : out'[k] = rx.pending[i]]_windowVars

\* A packet that waits is decoded within the patience of the ticks.
WaitingIsDecoded ==
    \A n \in FirstNo..LastNo :
        (\E i \in Slots : rx.pending[i] = n) ~> ~(\E i \in Slots : rx.pending[i] = n)
================================================================================
