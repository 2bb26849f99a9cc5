---------------------------- MODULE ChannelHistory -----------------------------
(***************************************************************************)
(* What the client knows of one channel's past: the messages it holds, the *)
(* archive they are kept in, and the runs that say between which of them   *)
(* nothing is missing.  Four writers meet here: the gateway thread with    *)
(* live messages (discord/gateway.cpp), the jobs that fetch pages of older *)
(* ones and fill holes (discord/rest.cpp), the checks that ask Discord     *)
(* what follows a message, and the interface that draws, asks and fills    *)
(* (ui/ui_chat.cpp).                                                       *)
(*                                                                         *)
(* Message ids are numbers in the order Discord gives them out.  What a    *)
(* message says is left out: to hold one is to hold its id.                *)
(***************************************************************************)
EXTENDS ArchiveRuns

CONSTANTS
    MaxId,          \* bound: messages of the channel
    Page,           \* 100: the most messages one request brings
    HardCap,        \* 10000: messages of a fill without a budget
    Budgets,        \* what the person may choose; 0 goes to the far side
    NoteCap,        \* 256: verdicts remembered
    Checks,         \* 3: questions under way at a time
    MaxWire,        \* bound: dispatches on their way at a time
    MaxUpsets       \* bound: deletions, edits, failures, lost sessions, exits, buttons

ASSUME LimitsAssumption ==
    /\ MaxId \in Nat /\ Page \in Nat \ {0} /\ HardCap \in Nat /\ Page <= HardCap
    /\ Budgets \subseteq Nat
    /\ NoteCap \in Nat \ {0} /\ Checks \in Nat \ {0}
    /\ MaxWire \in Nat \ {0} /\ MaxUpsets \in Nat

VARIABLES
    top, gone,          \* Discord: the newest id given out, the ids deleted
    alive, wire,        \* the process runs; dispatches on their way to it
    kept, ranges,       \* on disk: ids with a line in the archive; the runs
    held, chan,         \* the store: ids of the channel, its dchannel flags
    notes, checks,      \* verdicts on boundaries, questions under way
    jobs,               \* fetches and fills under way
    dispatch, last_live, \* what the gateway thread is doing, its last message
    g_gaps,             \* the runs as the view last read them
    upsets,             \* how much of MaxUpsets is used up
    lost                \* history: what a lost session, request or process took away

serverVars == <<top, gone, wire>>
diskVars   == <<kept, ranges>>
storeVars  == <<held, chan>>
gapVars    == <<notes, checks>>
gwVars     == <<dispatch, last_live>>
vars == <<serverVars, alive, diskVars, storeVars, gapVars, jobs, gwVars, g_gaps,
          upsets, lost>>

Ids == 1..MaxId
JobSlots == 1..2
CheckSlots == 1..Checks

NoChan == [opened |-> FALSE, loaded |-> FALSE, loading |-> FALSE, failed |-> FALSE,
           exhausted |-> FALSE]
NoJob == [pc |-> "none", op |-> "none", from |-> 0, until |-> 0, left |-> 0,
          cursor |-> 0, edge |-> 0, fetched |-> 0, reached |-> FALSE, page |-> {}]
NoCheck == [pc |-> "none", after |-> 0, until |-> 0, verdict |-> "GAP_UNKNOWN"]
NoDispatch == [stage |-> "none", id |-> 0]
NoGaps == [counted |-> 0, runs |-> <<>>]

Init ==
    /\ top = 0 /\ gone = {} /\ alive = TRUE /\ wire = <<>>
    /\ kept = {} /\ ranges = <<>>
    /\ held = {} /\ chan = NoChan
    /\ notes = <<>> /\ checks = [i \in CheckSlots |-> NoCheck]
    /\ jobs = [k \in JobSlots |-> NoJob]
    /\ dispatch = NoDispatch /\ last_live = 0
    /\ g_gaps = NoGaps
    /\ upsets = 0 /\ lost = {}

\* What the history does not do by itself.
Upset == upsets < MaxUpsets /\ upsets' = upsets + 1

--------------------------------------------------------------------------------
(* Discord: messages are posted, edited and deleted; what happens while no     *)
(* process listens is not told later.                                          *)

Existing == (1..top) \ gone

Tell(kind, id) ==
    /\ alive => Len(wire) < MaxWire
    /\ wire' = IF alive THEN Append(wire, [kind |-> kind, id |-> id]) ELSE wire

Post ==
    /\ top < MaxId
    /\ top' = top + 1
    /\ Tell("create", top + 1)
    /\ UNCHANGED <<gone, alive, diskVars, storeVars, gapVars, jobs, gwVars, g_gaps,
                   upsets, lost>>

Edit(id) ==
    /\ id \in Existing /\ alive
    /\ Upset
    /\ Tell("update", id)
    /\ UNCHANGED <<top, gone, alive, diskVars, storeVars, gapVars, jobs, gwVars,
                   g_gaps, lost>>

Delete(id) ==
    /\ id \in Existing
    /\ Upset
    /\ gone' = gone \union {id}
    /\ Tell("delete", id)
    /\ UNCHANGED <<top, alive, diskVars, storeVars, gapVars, jobs, gwVars,
                   g_gaps, lost>>

\* The session could not be resumed: what was on its way never comes.
Escapes == {wire[i].id : i \in {k \in DOMAIN wire : wire[k].kind = "create"}}

StartOver ==
    /\ wire # <<>>
    /\ Upset
    /\ wire' = <<>>
    /\ lost' = lost \union (Escapes \ kept)
    /\ UNCHANGED <<top, gone, alive, diskVars, storeVars, gapVars, jobs, gwVars,
                   g_gaps>>

\* The n newest, and the n oldest, of a set of messages.
NewestOf(S, n) == {x \in S : Cardinality({y \in S : y > x}) < n}
OldestOf(S, n) == {x \in S : Cardinality({y \in S : y < x}) < n}

--------------------------------------------------------------------------------
(* The gateway thread: MESSAGE_CREATE, MESSAGE_UPDATE, MESSAGE_DELETE          *)

\* archive::put_json: what the store holds gets a line.
PutJson(ids) == kept' = kept \union (ids \intersect held)

GwFold ==
    /\ dispatch.stage = "none" /\ wire # <<>> /\ Head(wire).kind # "delete"
    /\ wire' = Tail(wire)
    /\ held' = held \union {Head(wire).id}
    /\ dispatch' = [stage |-> IF Head(wire).kind = "create" THEN "note" ELSE "keep",
                    id |-> Head(wire).id]
    /\ UNCHANGED <<top, gone, alive, diskVars, chan, gapVars, jobs, last_live,
                   g_gaps,
                   upsets, lost>>

\* Two live messages have nothing missing between them.
GwNote ==
    /\ dispatch.stage = "note"
    /\ ranges' = IF last_live < dispatch.id THEN Noted(ranges, last_live, dispatch.id)
                 ELSE ranges
    /\ last_live' = dispatch.id
    /\ dispatch' = [dispatch EXCEPT !.stage = "keep"]
    /\ UNCHANGED <<serverVars, alive, kept, storeVars, gapVars, jobs, g_gaps,
                   upsets, lost>>

GwKeep ==
    /\ dispatch.stage = "keep"
    /\ PutJson({dispatch.id})
    /\ dispatch' = NoDispatch
    /\ UNCHANGED <<serverVars, alive, ranges, storeVars, gapVars, jobs, last_live,
                   g_gaps, upsets, lost>>

\* A live message of another channel in between.
GwElsewhere ==
    /\ dispatch.stage = "none" /\ last_live # 0
    /\ Upset
    /\ last_live' = 0
    /\ UNCHANGED <<serverVars, alive, diskVars, storeVars, gapVars, jobs,
                   dispatch, g_gaps, lost>>

\* mark_deleted writes a line also for a message it never saw.
GwDelete ==
    /\ dispatch.stage = "none" /\ wire # <<>> /\ Head(wire).kind = "delete"
    /\ wire' = Tail(wire)
    /\ kept' = kept \union {Head(wire).id}
    /\ UNCHANGED <<top, gone, alive, ranges, storeVars, gapVars, jobs, gwVars,
                   g_gaps,
                   upsets, lost>>

--------------------------------------------------------------------------------
(* Fetches and fills                                                           *)

\* The first slot nothing runs in.
Free(slots) == LET idle == {i \in DOMAIN slots : slots[i].pc = "none"}
               IN {i \in idle : \A k \in idle : i <= k}

\* history_loading (StartJob's caller sets it) lets one start at a time; the tail of
\* a fetch runs without it.
StartJob(op, from, until, budget) ==
    /\ ~chan.loading
    /\ \E k \in Free(jobs) :
         /\ jobs' = [jobs EXCEPT ![k] =
                [NoJob EXCEPT !.pc = "ask", !.op = op, !.from = from, !.until = until,
                              !.cursor = from,
                              !.left = IF budget > 0 THEN budget ELSE HardCap]]

Want(j) == IF j.left < Page THEN j.left ELSE Page

Answer(j) ==
    CASE j.op = "fetch"    -> NewestOf({x \in Existing : j.from = 0 \/ x < j.from}, Page)
      [] j.op = "forward"  -> OldestOf({x \in Existing : x > j.cursor}, Want(j))
      [] j.op = "backward" -> NewestOf({x \in Existing : x < j.cursor}, Want(j))

SetJob(k, j) == jobs' = [jobs EXCEPT ![k] = j]

\* A page, or nothing at all, which for a fill means that the far side is reached.
JobAnswered(k) ==
    LET j == jobs[k] IN
    /\ j.pc = "ask"
    /\ IF Answer(j) = {} /\ j.op # "fetch"
       THEN SetJob(k, [j EXCEPT !.reached = TRUE, !.pc = "end"])
       ELSE SetJob(k, [j EXCEPT !.page = Answer(j), !.pc = "fold"])
    /\ UNCHANGED <<serverVars, alive, diskVars, storeVars, gapVars, gwVars, g_gaps,
                   upsets, lost>>

\* The hole of a forward fill that fails before it has anything: JobEnd takes it for
\* one there was nothing in.
FirstPageOf(j) ==
    IF j.op = "forward" /\ j.fetched = 0
    THEN {x \in Existing : j.from < x /\ x < j.until} ELSE {}

\* A fetch that is refused marks the channel; one whose answer cannot be read does not.
Refused == [chan EXCEPT !.loading = FALSE, !.failed = TRUE]

JobFailed(k) ==
    LET j == jobs[k] IN
    /\ j.pc = "ask"
    /\ Upset
    /\ SetJob(k, [j EXCEPT !.pc = IF j.op = "fetch" THEN "unlock" ELSE "end"])
    /\ chan' \in IF j.op = "fetch" THEN {chan, Refused} ELSE {chan}
    /\ lost' = lost \union (FirstPageOf(j) \ kept)
    /\ UNCHANGED <<serverVars, alive, diskVars, held, gapVars, gwVars, g_gaps>>

\* Without an answer the lock comes off, in a section of its own: by then it may be
\* another job's.
UnlockedOnRefusalOnly == chan
Unlocked == [chan EXCEPT !.loading = FALSE]

JobUnlock(k) ==
    /\ jobs[k].pc = "unlock"
    /\ chan' = Unlocked
    /\ SetJob(k, NoJob)
    /\ UNCHANGED <<serverVars, alive, diskVars, held, gapVars, gwVars, g_gaps,
                   upsets, lost>>

JobFold(k) ==
    LET j == jobs[k] IN
    /\ j.pc = "fold"
    /\ held' = held \union j.page
    /\ chan' = IF j.op = "fetch"
               THEN [chan EXCEPT !.loading = FALSE, !.loaded = TRUE, !.failed = FALSE,
                                 !.exhausted = @ \/ Cardinality(j.page) < Page]
               ELSE chan
    /\ SetJob(k, [j EXCEPT !.pc = "keep"])
    /\ UNCHANGED <<serverVars, alive, diskVars, gapVars, gwVars, g_gaps, upsets,
                   lost>>

\* The far side showed up in the page, or the page was short.
ReachedForward(j) == (j.until # 0 /\ Max(j.page) >= j.until) \/ Cardinality(j.page) < Want(j)
ReachedBackward(j) == (j.until # 0 /\ Min(j.page) <= j.until) \/ Cardinality(j.page) < Want(j)

Kept(j) ==
    LET edge == IF j.page = {} THEN 0
                ELSE IF j.edge = 0 \/ Min(j.page) < j.edge THEN Min(j.page) ELSE j.edge
        next == [j EXCEPT !.edge = edge, !.fetched = @ + Cardinality(j.page),
                          !.left = @ - Cardinality(j.page), !.page = {}]
        done == [next EXCEPT !.pc = "end", !.reached = TRUE]
        more == [next EXCEPT !.pc = IF next.left > 0 THEN "ask" ELSE "end"]
    IN CASE j.op = "fetch" ->
              [next EXCEPT !.pc = "end", !.cursor = IF j.page = {} THEN 0 ELSE Max(j.page)]
         [] j.op = "forward" ->
              [IF ReachedForward(j) THEN done ELSE more EXCEPT !.cursor = Max(j.page)]
         [] j.op = "backward" ->
              [IF ReachedBackward(j) THEN done ELSE more EXCEPT !.cursor = Min(j.page)]

JobKeep(k) ==
    /\ jobs[k].pc = "keep"
    /\ PutJson(jobs[k].page)
    /\ SetJob(k, Kept(jobs[k]))
    /\ UNCHANGED <<serverVars, alive, ranges, storeVars, gapVars, gwVars, g_gaps,
                   upsets, lost>>

\* What a forward fill writes down.  edge is its oldest message ("newest" in the
\* code); with none fetched the last line notes the whole hole.
RunForwardPages(j) == IF j.edge > j.from THEN Noted(ranges, j.from, j.edge) ELSE ranges
RunForward(j) ==
    LET to == IF j.reached /\ j.until > j.edge THEN j.until ELSE j.edge
    IN IF to > j.from THEN Noted(ranges, j.from, to)
       ELSE IF j.fetched = 0 /\ j.until > j.from THEN Noted(ranges, j.from, j.until)
       ELSE ranges

RunBackwardWhole(j) == Noted(ranges, j.until, j.from)
RunBackward(j) ==
    LET from == IF j.reached /\ j.until > j.edge THEN j.until ELSE j.edge
    IN IF j.from > from THEN Noted(ranges, from, j.from)
       ELSE IF j.fetched = 0 /\ j.until # 0 /\ j.from > j.until
            THEN Noted(ranges, j.until, j.from)
       ELSE ranges

JobEnd(k) ==
    LET j == jobs[k] IN
    /\ j.pc = "end"
    /\ ranges' = CASE j.op = "fetch"    -> Noted(ranges, j.edge, j.cursor)
                   [] j.op = "forward"  -> RunForward(j)
                   [] j.op = "backward" -> RunBackward(j)
    /\ chan' = IF j.op = "fetch" THEN chan ELSE [chan EXCEPT !.loading = FALSE]
    /\ SetJob(k, NoJob)
    /\ UNCHANGED <<serverVars, alive, kept, held, gapVars, gwVars, g_gaps,
                   upsets, lost>>

--------------------------------------------------------------------------------
(* Checks of a boundary                                                        *)

NoteOf(after) == {i \in DOMAIN notes : notes[i].after = after}
GapStatus(after) ==
    IF NoteOf(after) = {} THEN "GAP_UNKNOWN" ELSE notes[Min(NoteOf(after))].state

\* gap_set: the table starts over when it is full.
GapSetOnce(after, state) ==
    notes' = IF NoteOf(after) # {} THEN notes
             ELSE Append(notes, [after |-> after, state |-> state])
GapSet(after, state) ==
    LET note == [after |-> after, state |-> state] IN
    notes' = IF NoteOf(after) # {} THEN [notes EXCEPT ![Min(NoteOf(after))] = note]
             ELSE IF Len(notes) >= NoteCap THEN <<note>>
             ELSE Append(notes, note)

\* "The very next message is the one already held", or there is none.
VerdictSwapped(c, later) ==
    IF later = {} \/ Min(later) <= c.until THEN "GAP_NONE" ELSE "GAP_REAL"
Verdict(c, later) ==
    IF later = {} \/ Min(later) >= c.until THEN "GAP_NONE" ELSE "GAP_REAL"

CheckAsk(i) ==
    LET later == {x \in Existing : x > checks[i].after} IN
    /\ checks[i].pc = "ask"
    /\ \/ /\ checks' = [checks EXCEPT ![i].pc = "got", ![i].verdict = Verdict(checks[i], later)]
          /\ UNCHANGED upsets
       \/ /\ Upset
          /\ checks' = [checks EXCEPT ![i].pc = "got"]
    /\ UNCHANGED <<serverVars, alive, diskVars, storeVars, notes, jobs, gwVars,
                   g_gaps, lost>>

CheckEnd(i) ==
    LET c == checks[i] IN
    /\ c.pc = "got"
    /\ ranges' = IF c.verdict = "GAP_NONE" THEN Noted(ranges, c.after, c.until) ELSE ranges
    /\ GapSet(c.after, c.verdict)
    /\ checks' = [checks EXCEPT ![i] = NoCheck]
    /\ UNCHANGED <<serverVars, alive, kept, storeVars, jobs, gwVars, g_gaps,
                   upsets, lost>>

--------------------------------------------------------------------------------
(* The interface, a frame at a time and with the store locked                  *)

\* The first look at the channel reads its archive and, in the same frame, asks for
\* the newest page.
UiOpen ==
    /\ alive /\ ~chan.opened
    /\ held' = held \union kept
    /\ StartJob("fetch", 0, 0, 0)
    /\ chan' = [chan EXCEPT !.opened = TRUE, !.loading = TRUE]
    /\ UNCHANGED <<serverVars, alive, diskVars, gapVars, gwVars, g_gaps, upsets,
                   lost>>

\* The view asks again after an answer it could not read; after a refusal, a person
\* does: with the button, which clears the mark, or from the sidebar, which does not.
UiFetch ==
    /\ alive /\ chan.opened /\ ~chan.loaded /\ ~chan.failed
    /\ StartJob("fetch", 0, 0, 0)
    /\ chan' = [chan EXCEPT !.loading = TRUE]
    /\ UNCHANGED <<serverVars, alive, diskVars, held, gapVars, gwVars, g_gaps,
                   upsets, lost>>

UiRetry ==
    /\ alive /\ ~chan.loaded /\ chan.failed
    /\ Upset
    /\ StartJob("fetch", 0, 0, 0)
    /\ \E failed \in BOOLEAN : chan' = [chan EXCEPT !.loading = TRUE, !.failed = failed]
    /\ UNCHANGED <<serverVars, alive, diskVars, held, gapVars, gwVars, g_gaps,
                   lost>>

\* refresh_gaps: only a different number of messages makes the view read again.
Current == g_gaps.counted = Cardinality(held)

UiFrame ==
    /\ alive /\ chan.opened /\ ~Current
    /\ g_gaps' = [counted |-> Cardinality(held), runs |-> ChannelSpans(ranges)]
    /\ UNCHANGED <<serverVars, alive, diskVars, storeVars, gapVars, jobs, gwVars,
                   upsets, lost>>

\* Another channel is looked at, and this one again.
UiAway ==
    /\ alive /\ g_gaps # NoGaps
    /\ Upset
    /\ g_gaps' = NoGaps
    /\ UNCHANGED <<serverVars, alive, diskVars, storeVars, gapVars, jobs, gwVars,
                   lost>>

\* Two messages that are drawn one after the other, with no run across.
Neighbours(S, a, b) == a \in S /\ b \in S /\ a < b /\ \A x \in S : ~(a < x /\ x < b)

Open(a, b) ==
    /\ alive /\ chan.opened /\ Current
    /\ Neighbours(held, a, b)
    /\ ~RunCovers(g_gaps.runs, a, b)

\* draw_hole
Marked(a, b) == Open(a, b) /\ GapStatus(a) = "GAP_REAL"

UiCheck(a, b) ==
    /\ Open(a, b) /\ GapStatus(a) = "GAP_UNKNOWN"
    /\ \E i \in Free(checks) :
         checks' = [checks EXCEPT ![i] =
                        [NoCheck EXCEPT !.pc = "ask", !.after = a, !.until = b]]
    /\ GapSet(a, "GAP_CHECKING")
    /\ UNCHANGED <<serverVars, alive, diskVars, storeVars, jobs, gwVars, g_gaps,
                   upsets, lost>>

\* The two buttons of a marker.
UiFill(a, b, budget) ==
    /\ Marked(a, b)
    /\ Upset
    /\ StartJob("forward", a, b, budget) \/ StartJob("backward", b, a, budget)
    /\ chan' = [chan EXCEPT !.loading = TRUE]
    /\ UNCHANGED <<serverVars, alive, diskVars, held, gapVars, gwVars, g_gaps,
                   lost>>

\* "Load older": from the top of what is held, or of what a marker cut off.
UiOlder(b) ==
    /\ alive /\ chan.opened /\ ~chan.exhausted /\ held # {}
    /\ b = Min(held) \/ \E a \in held : Marked(a, b)
    /\ Upset
    /\ StartJob("fetch", b, 0, 0)
    /\ chan' = [chan EXCEPT !.loading = TRUE]
    /\ UNCHANGED <<serverVars, alive, diskVars, held, gapVars, gwVars, g_gaps,
                   lost>>

--------------------------------------------------------------------------------
(* The process ends, and is started again: only the disk is left               *)

\* What was folded and has no line yet.
Arriving ==
    {dispatch.id} \union UNION {jobs[k].page : k \in {i \in JobSlots : jobs[i].pc = "keep"}}
InHand == Arriving \ {0}

Exit ==
    /\ alive
    /\ Upset
    /\ lost' = lost \union (InHand \ kept)
    /\ alive' = FALSE /\ wire' = <<>>
    /\ held' = {} /\ chan' = NoChan
    /\ notes' = <<>> /\ checks' = [i \in CheckSlots |-> NoCheck]
    /\ jobs' = [k \in JobSlots |-> NoJob]
    /\ dispatch' = NoDispatch /\ last_live' = 0 /\ g_gaps' = NoGaps
    /\ UNCHANGED <<top, gone, diskVars>>

Launch ==
    /\ ~alive
    /\ alive' = TRUE
    /\ UNCHANGED <<serverVars, diskVars, storeVars, gapVars, jobs, gwVars,
                   g_gaps, upsets, lost>>

--------------------------------------------------------------------------------
Discord == Post \/ StartOver \/ \E id \in Ids : Edit(id) \/ Delete(id)
Gateway == GwFold \/ GwNote \/ GwKeep \/ GwDelete
Job(k) == \/ JobAnswered(k) \/ JobFailed(k) \/ JobUnlock(k)
          \/ JobFold(k) \/ JobKeep(k) \/ JobEnd(k)
Check(i) == CheckAsk(i) \/ CheckEnd(i)
Looks == UiOpen \/ UiFetch \/ UiFrame \/ \E a, b \in Ids : UiCheck(a, b)
Presses ==
    \/ UiAway \/ UiRetry
    \/ \E a, b \in Ids, budget \in Budgets : UiFill(a, b, budget)
    \/ \E b \in Ids : UiOlder(b)

Next ==
    \/ Discord \/ Gateway \/ GwElsewhere
    \/ (\E k \in JobSlots : Job(k))
    \/ (\E i \in CheckSlots : Check(i))
    \/ Looks \/ Presses
    \/ Exit \/ Launch

Spec == Init /\ [][Next]_vars

\* The threads run and the view is drawn; nobody has to press anything.
Fairness ==
    /\ WF_vars(Gateway) /\ WF_vars(Launch)
    /\ \A k \in JobSlots : WF_vars(Job(k))
    /\ \A i \in CheckSlots : WF_vars(Check(i))
    /\ WF_vars(UiOpen) /\ WF_vars(UiFetch) /\ WF_vars(UiFrame)
    /\ \A a, b \in Ids : WF_vars(UiCheck(a, b))

FairSpec == Spec /\ Fairness

--------------------------------------------------------------------------------
(* Properties *)

Verdicts == {"GAP_UNKNOWN", "GAP_CHECKING", "GAP_NONE", "GAP_REAL"}

TypeOK ==
    /\ top \in 0..MaxId /\ gone \subseteq Ids /\ kept \subseteq Ids /\ held \subseteq Ids
    /\ lost \subseteq Ids
    /\ \A i \in DOMAIN ranges : ranges[i].from_id \in Ids /\ ranges[i].to_id \in Ids
    /\ \A k \in JobSlots :
         /\ jobs[k].pc \in {"none", "ask", "unlock", "fold", "keep", "end"}
         /\ jobs[k].edge \in 0..MaxId /\ jobs[k].cursor \in 0..MaxId
         /\ jobs[k].left \in Nat
    /\ Len(notes) <= NoteCap
    /\ \A i \in DOMAIN notes : notes[i].state \in Verdicts
    /\ \A i \in CheckSlots : checks[i].verdict \in Verdicts \ {"GAP_CHECKING"}
    /\ dispatch.stage \in {"none", "note", "keep"}

\* A conversation that is drawn without a break has none: between two messages that
\* a run joins, Discord has no message that the client does not hold, but for the
\* very ones that a session which replays nothing, a failed first page or the end of
\* the process took from it.
NoHiddenHole ==
    chan.opened => \A a, b \in held :
        Neighbours(held, a, b) /\ Joined(ranges, a, b)
            => \A x \in Existing \ lost : ~(a < x /\ x < b)

\* The same of what is on disk, which an export without a connection relies on:
\* whatever lies inside a run is in the archive, or on its way there, but for those.
RunsAreKept ==
    \A x \in Existing \ lost :
        x > 1 /\ Joined(ranges, x - 1, x + 1) => x \in kept \union Arriving

\* Sorting and merging the lines joins exactly the messages that the lines join.
MergeIsRight ==
    \A a, b \in Ids : a < b =>
        (RunCovers(ChannelSpans(ranges), a, b) <=> Joined(ranges, a, b))

\* A fill that reached the far side settles the hole, also when it brought nothing.
\* (A backward one stops short of a near side that was deleted under it.)
FilledIsRecorded ==
    [][\A k \in JobSlots :
        LET j == jobs[k] IN
        JobEnd(k) /\ j.reached =>
            IF j.op = "forward" THEN Joined(ranges', j.from, j.until)
            ELSE j.edge <= j.until => Joined(ranges', j.until, j.from)]_vars

\* history_loading comes off whatever happens to the request: a channel that is
\* being loaded can be loaded again.
HistoryUnlocks == chan.loading ~> ~chan.loading

\* Every boundary on screen is settled in the end: by a run, or by Discord's answer.
BoundariesAnswered ==
    <>[](chan.opened => \A a, b \in Ids :
            Neighbours(held, a, b) => \/ Joined(ranges, a, b)
                                      \/ GapStatus(a) \in {"GAP_NONE", "GAP_REAL"})
================================================================================
