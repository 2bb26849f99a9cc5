---------------------------- MODULE SpeakerPlayback ----------------------------
(***************************************************************************)
(* One speaker of a call from the wire to the sound card: the reorder      *)
(* window decides what is decoded, decode_into_ring pushes every decoded   *)
(* frame, the sound card's thread mixes at its own pace.                   *)
(***************************************************************************)
EXTENDS ReceiveWindow, SpeakerRing

CONSTANTS
    SamplesOf(_),   \* how long a packet's frame is, both channels counted
    Requests        \* how many samples the sound card asks for

ASSUME FramesAssumption ==
    \A n \in 1..LastNo :
        SamplesOf(n) \in Nat /\ SamplesOf(n) % 2 = 0 /\ SamplesOf(n) < RING
ASSUME RequestsAssumption == \A r \in Requests : r \in Nat /\ r % 2 = 0

vars == <<windowVars, ring>>

Init == WindowInit /\ RingInit

\* What the decoder makes of an entry of out.  A frame it cannot decode is none.
Sound(n) ==
    [i \in 1..(IF n = Concealed THEN FRAME ELSE SamplesOf(n)) |-> <<n, i>>]

\* decode_into_ring, once for everything a step decodes.
Decoded(r, heard) ==
    LET after[k \in 0..Len(heard)] ==
            IF k = 0 THEN r ELSE Pushed(after[k - 1], Sound(heard[k]))
    IN after[Len(heard)]

Receive == WindowNext /\ ring' = Decoded(ring, out')

\* The call is not deafened: the card takes what it needs.
Play == (\E samples \in Requests : Mix(samples)) /\ UNCHANGED windowVars

Next == Receive \/ Play

Spec == Init /\ [][Next]_vars

\* The receive pump ticks every 20 ms while the call is up.
FairSpec == Spec /\ WF_windowVars(Tick)

--------------------------------------------------------------------------------
(* Properties *)

TypeOK == WindowTypeOK /\ RingTypeOK

\* Left is never played for right: what is queued begins with a left sample
\* and alternates, however much was dropped to make room.
StereoAligned ==
    /\ ring.read_pos % 2 = 0 /\ ring.write_pos % 2 = 0
    /\ \A k \in 1..Avail(ring) : Contents(ring)[k][2] % 2 = k % 2
================================================================================
