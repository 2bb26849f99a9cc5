------------------------------ MODULE SpeakerRing ------------------------------
(***************************************************************************)
(* The pcm ring of one speaker in a call (discord/voice.cpp): the receive  *)
(* pump pushes decoded stereo frames into it and the sound card's thread   *)
(* takes out what it needs, under g_speakers_lock.  A sample is opaque;    *)
(* left and right alternate.  Volume and fades are left out.               *)
(***************************************************************************)
EXTENDS Integers, Sequences

CONSTANTS
    RING,           \* SPEAKER_RING_SAMPLES: a second of stereo
    FRAME,          \* AUDIO_FRAME_SAMPLES * AUDIO_CHANNELS: 20 ms of stereo
    Silence         \* what fresh memory holds

ASSUME RingAssumption ==
    /\ RING \in Nat /\ RING % 2 = 0
    /\ FRAME \in Nat \ {0} /\ FRAME % 2 = 0
    /\ 3 * FRAME < RING

VARIABLE ring       \* the playing half of struct speaker

CUSHION == 3 * FRAME

RingInit ==
    ring = [read_pos |-> 0, write_pos |-> 0, dry |-> FALSE,
            pcm |-> <<>>]

\* decode_into_ring allocates the ring when something is decoded first; until
\* then the mixer passes over the speaker.
Allocated(r) == DOMAIN r.pcm # {}
Memory(r) == IF Allocated(r) THEN r.pcm ELSE [i \in 0..(RING - 1) |-> Silence]

\* speaker_avail
Avail(r) ==
    LET diff == r.write_pos - r.read_pos IN IF diff < 0 THEN diff + RING ELSE diff

\* One place stays free: a full ring would look like an empty one.
Room(r) == RING - Avail(r) - 1

\* The drop is rounded up to whole frames, so that left stays left.
RoundedToSamples(need) == need
Rounded(need) == ((need + FRAME - 1) \div FRAME) * FRAME

Dropped(r, samples) ==
    LET drop == Rounded(samples - Room(r))
    IN IF Room(r) >= samples THEN 0
       ELSE IF drop > Avail(r) THEN Avail(r) - (Avail(r) % 2)
       ELSE drop

\* speaker_push
Pushed(r, src) ==
    LET nth(i) == ((i - r.write_pos) % RING) + 1
    IN [r EXCEPT !.read_pos = (@ + Dropped(r, Len(src))) % RING,
                 !.write_pos = (@ + Len(src)) % RING,
                 !.pcm = [i \in 0..(RING - 1) |->
                             IF nth(i) <= Len(src) THEN src[nth(i)] ELSE Memory(r)[i]]]

\* mix_voice_into, for this speaker: a refilling speaker is held until three
\* frames are queued, and one that runs dry has to refill.
Held(r) == r.dry /\ Avail(r) < CUSHION

Mixed(r, samples) ==
    IF ~Allocated(r) THEN r
    ELSE IF Avail(r) = 0 THEN [r EXCEPT !.dry = TRUE]
    ELSE IF Held(r) THEN r
    ELSE LET n == IF Avail(r) < samples THEN Avail(r) ELSE samples
         IN [r EXCEPT !.read_pos = (@ + n) % RING, !.dry = n < samples]

\* What the sound card would still hear, oldest first.
Contents(r) == [k \in 1..Avail(r) |-> r.pcm[(r.read_pos + k - 1) % RING]]

Mix(samples) == ring' = Mixed(ring, samples)

RingTypeOK ==
    /\ ring.read_pos \in 0..(RING - 1)
    /\ ring.write_pos \in 0..(RING - 1)
    /\ ring.dry \in BOOLEAN
    /\ DOMAIN ring.pcm \in {{}, 0..(RING - 1)}
    /\ Avail(ring) # 0 => Allocated(ring)
================================================================================
