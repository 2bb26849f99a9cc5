------------------------------ MODULE ArchiveLog -------------------------------
(***************************************************************************)
(* The log a channel is kept in (discord/archive.cpp): one file to which   *)
(* lines are only ever added, who adds them, and what comes back when the  *)
(* channel is opened. The gateway thread keeps live messages and marks     *)
(* deletions, a job keeps the pages it fetched, a search reads the file    *)
(* without any lock, and the process may end at any moment.                *)
(*                                                                         *)
(* Where module ChannelHistory only asks whether a message has a line, a   *)
(* line here has what it says and whether it can be read. Texts are told   *)
(* apart and nothing else, which is what message_stamp does.               *)
(***************************************************************************)
EXTENDS Integers, Sequences, FiniteSets, SequencesExt

CONSTANTS
    Ids,             \* the messages of the channel
    Texts,           \* what a message can say
    MaxTold,         \* bound: dispatches Discord sends
    MaxPages,        \* bound: pages a job fetches
    MaxSearches,     \* bound: searches made
    MaxDeaths,       \* bound: times the process ends
    Torn             \* a process may end with a line half written

ASSUME LogAssumption ==
    /\ Texts \subseteq Nat \ {0}
    /\ MaxTold \in Nat /\ MaxPages \in Nat /\ MaxSearches \in Nat /\ MaxDeaths \in Nat
    /\ Torn \in BOOLEAN

VARIABLES
    said, gone,      \* Discord: what each message says, 0 before it is posted
    wire,            \* dispatches on their way to the client
    file,            \* the lines on disk
    cut,             \* the last of them has no newline
    held,            \* the store's copy of each message, or NotHeld
    known,           \* g_known: the stamp of what was last written
    loaded,          \* archive_loaded
    gw, job,         \* where the gateway thread and the fetching job are
    guard, lock,     \* who holds the store's guard, and the archive's lock
    reading,         \* a search has the file open
    refused,         \* messages whose last put met an open file
    spent            \* what is used up of each bound

disk == <<file, cut>>
server == <<said, gone, wire>>
vars == <<server, disk, held, known, loaded, gw, job, guard, lock, reading, refused, spent>>

Bare == 0                             \* a message of which only the id is known
NotHeld == [text |-> -1, deleted |-> FALSE]
Unknown == 0
Marked == -1                          \* 0xFFFFFFFF
NoDispatch == [pc |-> "idle"]
NoJob == [pc |-> "idle"]
Free == "free"

Line(id, text, deleted) == [id |-> id, text |-> text, deleted |-> deleted, whole |-> TRUE]

Init ==
    /\ said = [id \in Ids |-> 0] /\ gone = {} /\ wire = <<>>
    /\ file = <<>> /\ cut = FALSE
    /\ held = [id \in Ids |-> NotHeld] /\ known = [id \in Ids |-> Unknown]
    /\ loaded = FALSE
    /\ gw = NoDispatch /\ job = NoJob
    /\ guard = Free /\ lock = Free /\ reading = FALSE /\ refused = {}
    /\ spent = [told |-> 0, pages |-> 0, searches |-> 0, deaths |-> 0]

-----------------------------------------------------------------------------
(* Discord (external): messages are posted, edited and taken back.            *)

Tell(kind, id, text) ==
    /\ spent.told < MaxTold
    /\ spent' = [spent EXCEPT !.told = @ + 1]
    /\ wire' = Append(wire, [kind |-> kind, id |-> id, text |-> text])

Write(id, text) ==
    /\ id \notin gone /\ said[id] # text
    /\ said' = [said EXCEPT ![id] = text]
    /\ Tell("message", id, text)
    /\ UNCHANGED <<gone, disk, held, known, loaded, gw, job, guard, lock, reading, refused>>

TakeBack(id) ==
    /\ said[id] # 0 /\ id \notin gone
    /\ gone' = gone \union {id}
    /\ Tell("delete", id, Bare)
    /\ UNCHANGED <<said, disk, held, known, loaded, gw, job, guard, lock, reading, refused>>

-----------------------------------------------------------------------------
(* The file.                                                                  *)

\* append(): the file is opened, added to and closed each time. A line that
\* follows one without a newline becomes part of it, and neither can be parsed.
AppendLine(l) ==
    IF reading THEN UNCHANGED disk
    ELSE file' = Append(file, [l EXCEPT !.whole = ~cut]) /\ cut' = FALSE

Readable(id) == {i \in DOMAIN file : file[i].id = id /\ file[i].whole}

\* store::upsert_message: what the line says replaces what is held; the flag of
\* a deletion is not among it.
Upserted(m, text) ==
    [text |-> IF text # Bare \/ m = NotHeld THEN text ELSE m.text, deleted |-> m.deleted]

RestoredPlain(m, l) == [Upserted(m, l.text) EXCEPT !.deleted = l.deleted]

\* One line read back. Monotonic: a line without the mark takes none away.
Restored(m, l) == [Upserted(m, l.text) EXCEPT !.deleted = m.deleted \/ l.deleted]

\* load_channel's walk: the last line first; after[k] is what k of them give.
Loaded ==
    LET n == Len(file)
        after[k \in 0..n] ==
            IF k = 0 THEN held
            ELSE LET l == file[n + 1 - k] IN
                 IF l.whole THEN [after[k - 1] EXCEPT ![l.id] = Restored(@, l)]
                 ELSE after[k - 1]
    IN after[n]

-----------------------------------------------------------------------------
(* The gateway thread.                                                        *)

\* MESSAGE_CREATE and MESSAGE_UPDATE: folded into the store.
GwFold ==
    /\ gw.pc = "idle" /\ wire # <<>> /\ Head(wire).kind = "message"
    /\ guard = Free
    /\ LET d == Head(wire)
       IN  /\ held' = [held EXCEPT ![d.id] = Upserted(@, d.text)]
           /\ gw' = [pc |-> "keep", id |-> d.id]
    /\ wire' = Tail(wire)
    /\ UNCHANGED <<said, gone, disk, known, loaded, job, guard, lock, reading, refused, spent>>

PutOnce(id) ==
    LET text == held[id].text
    IN  IF known[id] # Unknown
        THEN UNCHANGED <<disk, known, refused>>
        ELSE /\ AppendLine(Line(id, text, FALSE))
             /\ refused' = IF reading THEN refused \union {id} ELSE refused \ {id}
             /\ known' = [known EXCEPT ![id] = text]

\* archive::put: what has been written already is not written again; the stamp
\* is taken down whether or not the line got there.
Put(id) ==
    LET text == held[id].text
    IN  IF known[id] = text
        THEN UNCHANGED <<disk, known, refused>>
        ELSE /\ AppendLine(Line(id, text, FALSE))
             /\ refused' = IF reading THEN refused \union {id} ELSE refused \ {id}
             /\ known' = [known EXCEPT ![id] = text]

\* archive::put_json: both locks, the guard first.
GwKeep ==
    /\ gw.pc = "keep" /\ guard = Free /\ lock = Free
    /\ Put(gw.id)
    /\ gw' = NoDispatch
    /\ UNCHANGED <<server, held, loaded, job, guard, lock, reading, spent>>

\* MESSAGE_DELETE, archive::mark_deleted: a copy of what is held, if it is.
GwCopy ==
    /\ gw.pc = "idle" /\ wire # <<>> /\ Head(wire).kind = "delete"
    /\ guard = Free
    /\ LET id == Head(wire).id
       IN  gw' = [pc |-> "mark", id |-> id,
                  text |-> IF held[id] = NotHeld THEN Bare ELSE held[id].text]
    /\ wire' = Tail(wire)
    /\ UNCHANGED <<said, gone, disk, held, known, loaded, job, guard, lock, reading, refused,
                   spent>>

\* The archive's lock, and under it, in write_message, the guard.
GwLock ==
    /\ gw.pc = "mark" /\ lock = Free
    /\ lock' = "gw"
    /\ gw' = [gw EXCEPT !.pc = "locked"]
    /\ UNCHANGED <<server, disk, held, known, loaded, job, guard, reading, refused, spent>>

GwCompose ==
    /\ gw.pc = "locked" /\ guard = Free
    /\ gw' = [gw EXCEPT !.pc = "append"]
    /\ UNCHANGED <<server, disk, held, known, loaded, job, guard, lock, reading, refused, spent>>

StampKept(id) == known

\* The next put of this message is to write a line again.
StampMarked(id) == [known EXCEPT ![id] = IF @ = Unknown THEN Unknown ELSE Marked]

GwMark ==
    /\ gw.pc = "append"
    /\ AppendLine(Line(gw.id, gw.text, TRUE))
    /\ known' = StampMarked(gw.id)
    /\ lock' = Free
    /\ gw' = [gw EXCEPT !.pc = "flag"]
    /\ UNCHANGED <<server, held, loaded, job, guard, reading, refused, spent>>

\* store::mark_message_deleted.
GwFlag ==
    /\ gw.pc = "flag" /\ guard = Free
    /\ held' = [held EXCEPT ![gw.id] =
                   IF @ = NotHeld THEN NotHeld ELSE [@ EXCEPT !.deleted = TRUE]]
    /\ gw' = NoDispatch
    /\ UNCHANGED <<server, disk, known, loaded, job, guard, lock, reading, refused, spent>>

-----------------------------------------------------------------------------
(* A job that fetches a page.                                                 *)

JobAnswered ==
    /\ job.pc = "idle"
    /\ spent.pages < MaxPages /\ spent' = [spent EXCEPT !.pages = @ + 1]
    /\ job' = [pc |-> "fold", page |-> [id \in {i \in Ids \ gone : said[i] # 0} |-> said[id]]]
    /\ UNCHANGED <<server, disk, held, known, loaded, gw, guard, lock, reading, refused>>

JobFold ==
    /\ job.pc = "fold" /\ guard = Free
    /\ held' = [id \in Ids |-> IF id \in DOMAIN job.page THEN Upserted(held[id], job.page[id])
                               ELSE held[id]]
    /\ job' = [pc |-> "keep", left |-> DOMAIN job.page]
    /\ UNCHANGED <<server, disk, known, loaded, gw, guard, lock, reading, refused, spent>>

\* archive::put_json of one message of the page: the guard, then the lock.
JobGuard ==
    /\ job.pc = "keep" /\ guard = Free
    /\ IF job.left = {} THEN job' = NoJob /\ UNCHANGED guard
       ELSE /\ \E id \in job.left : job' = [pc |-> "put", id |-> id, left |-> job.left \ {id}]
            /\ guard' = "job"
    /\ UNCHANGED <<server, disk, held, known, loaded, gw, lock, reading, refused, spent>>

JobPut ==
    /\ job.pc = "put" /\ lock = Free
    /\ Put(job.id)
    /\ guard' = Free
    /\ job' = [pc |-> "keep", left |-> job.left]
    /\ UNCHANGED <<server, held, loaded, gw, lock, reading, spent>>

-----------------------------------------------------------------------------
(* The interface, a search, and the end.                                      *)

\* The channel is opened: the file is read once, under the guard of the frame.
\* It cannot be opened while a line is being added.
Open ==
    /\ ~loaded /\ guard = Free
    /\ loaded' = TRUE
    /\ held' = IF gw.pc = "append" THEN held ELSE Loaded
    /\ UNCHANGED <<server, disk, known, gw, job, guard, lock, reading, refused, spent>>

\* archive::search_local takes neither lock.
SearchOpens ==
    /\ ~reading /\ gw.pc # "append"
    /\ spent.searches < MaxSearches /\ spent' = [spent EXCEPT !.searches = @ + 1]
    /\ reading' = TRUE
    /\ UNCHANGED <<server, disk, held, known, loaded, gw, job, guard, lock, refused>>

SearchCloses ==
    /\ reading
    /\ reading' = FALSE
    /\ UNCHANGED <<server, disk, held, known, loaded, gw, job, guard, lock, refused, spent>>

\* Half a line: the process or the machine ended while it was written.
Half(l) ==
    /\ Torn /\ ~reading
    /\ file' = Append(file, [l EXCEPT !.whole = FALSE]) /\ cut' = TRUE

Die ==
    /\ spent.deaths < MaxDeaths /\ spent' = [spent EXCEPT !.deaths = @ + 1]
    /\ \/ UNCHANGED disk
       \/ gw.pc = "append" /\ Half(Line(gw.id, gw.text, TRUE))
       \/ job.pc = "put" /\ lock = Free /\ known[job.id] # held[job.id].text
             /\ Half(Line(job.id, held[job.id].text, FALSE))
    /\ wire' = <<>>
    /\ held' = [id \in Ids |-> NotHeld] /\ known' = [id \in Ids |-> Unknown]
    /\ loaded' = FALSE /\ gw' = NoDispatch /\ job' = NoJob
    /\ guard' = Free /\ lock' = Free /\ reading' = FALSE /\ refused' = {}
    /\ UNCHANGED <<said, gone>>

-----------------------------------------------------------------------------
Gateway == GwFold \/ GwKeep \/ GwCopy \/ GwLock \/ GwCompose \/ GwMark \/ GwFlag
Job == JobFold \/ JobGuard \/ JobPut

Next ==
    \/ \E id \in Ids : TakeBack(id) \/ \E t \in Texts : Write(id, t)
    \/ Gateway \/ JobAnswered \/ Job
    \/ Open \/ SearchOpens \/ SearchCloses \/ Die

Spec == Init /\ [][Next]_vars

-----------------------------------------------------------------------------
(* What must hold.                                                            *)

Lines == [id : Ids, text : Texts \union {Bare}, deleted : BOOLEAN, whole : BOOLEAN]
Copies == [text : Texts \union {Bare}, deleted : BOOLEAN] \union {NotHeld}

\* Every variable has its type; the guard is the job's exactly while it puts, the
\* archive's lock the gateway thread's while it marks; what is put says something.
TypeOK ==
    /\ said \in [Ids -> Texts \union {0}] /\ gone \subseteq Ids
    /\ file \in Seq(Lines) /\ cut \in BOOLEAN
    /\ held \in [Ids -> Copies] /\ known \in [Ids -> Texts \union {Unknown, Marked}]
    /\ gw.pc \in {"idle", "keep", "mark", "locked", "append", "flag"}
    /\ job.pc \in {"idle", "fold", "keep", "put"}
    /\ guard \in {Free, "job"} /\ (guard = "job") = (job.pc = "put")
    /\ lock \in {Free, "gw"} /\ (lock = "gw") = (gw.pc \in {"locked", "append"})
    /\ job.pc = "put" => held[job.id].text \in Texts
    /\ loaded \in BOOLEAN /\ reading \in BOOLEAN /\ refused \subseteq Ids

LinesOf(id) == {i \in DOMAIN file : file[i].id = id}
LastLine(id) == CHOOSE i \in LinesOf(id) : \A j \in LinesOf(id) : j <= i

\* The log keeps up with the store. What the archive takes for written is the
\* last line of its message and can be read; and between two handlers whatever
\* the store shows of a message was written at some time. Excepted are a line
\* that met an open file and one that follows half a line.
LogKeepsUp ==
    \A id \in Ids \ refused :
        /\ known[id] \in Texts =>
              /\ LinesOf(id) # {}
              /\ LET i == LastLine(id)
                 IN  /\ file[i].text = known[id] /\ ~file[i].deleted
                     /\ file[i].whole \/ ~file[i - 1].whole
        /\ (gw.pc = "idle" /\ job.pc = "idle" /\ held[id] # NotHeld) =>
              \E i \in LinesOf(id) : file[i].text = held[id].text

Opening == ~loaded /\ loaded' /\ gw.pc # "append"

\* "Deletion here is a flag rather than a removal": nothing takes it away again
\* while the process lives, neither an edit nor a page that was fetched before
\* it nor the lines read back; and when the channel is opened, in this life or
\* in a later one, whatever has a mark in the log that can be read gets it.
DeletionsStick ==
    [][\A id \in Ids :
          /\ spent'.deaths = spent.deaths /\ held[id].deleted => held'[id].deleted
          /\ Opening /\ (\E i \in Readable(id) : file[i].deleted) => held'[id].deleted]_vars

\* "One JSON object per line, newest wins", and "a later line about the same
\* message replaces the earlier one": a channel that is opened shows what the
\* last line says. Not so: load_channel applies the lines from last to first.
NewestWins ==
    [][\A id \in Ids :
          LET telling == {i \in Readable(id) : file[i].text # Bare}
          IN  Opening /\ telling # {} =>
                 held'[id].text = file[CHOOSE i \in telling : \A j \in telling : j <= i].text]_vars

\* The two locks are not waited for in a circle. They are: mark_deleted takes
\* the archive's first, put_json the store's.
NoCircle == ~(gw.pc = "locked" /\ job.pc = "put")
=============================================================================
