--------------------------- MODULE MCSpeakerPlayback ---------------------------
EXTENDS SpeakerPlayback

\* Every third packet is twice as long, as a sender may choose; two do not decode.
MCSamplesOf(n) ==
    IF n % 3 = 0 THEN 2 * FRAME ELSE IF n \in {14, 19} THEN 0 ELSE FRAME
================================================================================
