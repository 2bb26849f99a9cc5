------------------------------ MODULE ArchiveRuns ------------------------------
(***************************************************************************)
(* The runs of a channel's archive (discord/archive.cpp): each line of the *)
(* .ranges file says that everything between two message ids arrived in    *)
(* one piece.  Lines are only ever appended; reading the file back sorts   *)
(* and merges them.                                                        *)
(***************************************************************************)
EXTENDS Integers, SequencesExt

CONSTANT SpanCap    \* 64: the most lines a reader has room for

ASSUME SpanCapAssumption == SpanCap \in Nat \ {0}

Span(a, b) == [from_id |-> a, to_id |-> b]

\* archive::note_range: an unknown end is not written down, ends are put in order.
Ordered(a, b) == IF a > b THEN Span(b, a) ELSE Span(a, b)
Noted(ranges, a, b) == IF a = 0 \/ b = 0 THEN ranges ELSE Append(ranges, Ordered(a, b))

\* Two runs are one if they share a message; the later one may be the shorter.
AbsorbedShrinking(last, v) == [last EXCEPT !.to_id = v.to_id]
Absorbed(last, v) == [last EXCEPT !.to_id = IF v.to_id > @ THEN v.to_id ELSE @]

Coalesce(runs, v) ==
    IF runs # <<>> /\ v.from_id <= Last(runs).to_id
    THEN [runs EXCEPT ![Len(runs)] = Absorbed(@, v)]
    ELSE Append(runs, v)

\* A line no other starts after: which one of several is the sort's affair, and
\* makes no difference to the runs.
Latest(lines, S) == CHOOSE i \in S : \A k \in S : lines[k].from_id <= lines[i].from_id

\* archive::channel_spans, which the view repeats on what it returns: the lines that
\* start before it are merged before a line is.
ChannelSpans(ranges) ==
    LET lines == SubSeq(ranges, 1, IF Len(ranges) < SpanCap THEN Len(ranges) ELSE SpanCap)
        merged[S \in SUBSET DOMAIN lines] ==
            IF S = {} THEN <<>>
            ELSE LET i == Latest(lines, S) IN Coalesce(merged[S \ {i}], lines[i])
    IN merged[DOMAIN lines]

\* run_covers in ui_chat.cpp and covered_together in exporter.cpp.
RunCovers(runs, older, newer) ==
    \E i \in DOMAIN runs : runs[i].from_id <= older /\ newer <= runs[i].to_id

\* What merging comes to: every step from one id to the next is inside a line.
Joined(ranges, older, newer) ==
    \A x \in older..(newer - 1) :
        \E i \in DOMAIN ranges : ranges[i].from_id <= x /\ x + 1 <= ranges[i].to_id
================================================================================
