---------------------------- MODULE DaveTransitions ----------------------------
(***************************************************************************)
(* How a client keeps in step with the encryption of its voice channel:    *)
(* discord/voice.cpp, the DAVE part. The server announces a commit and     *)
(* only later says go, a client that cannot follow says so and introduces  *)
(* itself again, and a client without keys for fifteen seconds does too.   *)
(*                                                                         *)
(* Two threads of the client share all of it without a lock: the websocket *)
(* thread, which handles what the server sends, and the tick thread, which *)
(* wraps frames and keeps the fifteen seconds. A step of the model is what *)
(* one of them does up to the point where the other could see it halfway.  *)
(*                                                                         *)
(* A group is a number: 0 none, e > 0 epoch e of the channel, -k the group *)
(* of one that came with key package k, Fork an epoch nobody else has.     *)
(* Which tree stands behind an epoch is module GroupTree's subject.        *)
(***************************************************************************)
EXTENDS Integers, Sequences, FiniteSets

CONSTANTS
    MaxEpoch,        \* bound: epochs other people's coming and going make
    TopEpoch,        \* bound: epochs altogether, letting this client in again included
    Packages,        \* key packages told apart before a number is used again
    MaxUpsets,       \* bound: changes of version, groups started over, new sessions
    MaxEarly,        \* bound: times somebody's patience ends with an answer under way
    First,           \* the client may be the first in the channel
    BareHelps        \* the server lets a member in again for a key package alone

ASSUME DaveAssumption ==
    /\ MaxEpoch \in Nat /\ TopEpoch \in Nat \ {0} /\ MaxEpoch <= TopEpoch
    /\ Packages \in Nat \ {0}
    /\ MaxUpsets \in Nat /\ MaxEarly \in Nat
    /\ First \in BOOLEAN /\ BareHelps \in BOOLEAN

Fork == -Packages - 1
NoneDone == -1            \* 0xFFFFFFFF in g_last_transition_done
Groups == Fork .. TopEpoch

VARIABLES
    \* the client
    active,          \* g_dave_active
    version,         \* g_dave_version
    versionNext,     \* g_dave_version_next
    group,           \* g_group
    groupNext,       \* g_group_next: the group it was copied from, and the commit's number
    groupReady,      \* g_group_ready
    mediaReady,      \* g_media_ready
    package,         \* g_key_package, 0 when there is none (g_key_package_ready)
    own,             \* g_own_commit_ready, g_own_commit_won
    pending,         \* g_have_pending_commit and the commit kept
    pendingId,       \* g_pending_transition
    known,           \* the groups whose proposals g_known holds
    lastDone,        \* g_last_transition_done
    recent,          \* the last rebuild is less than 250 ticks ago
    ratchet,         \* the group the media keys in g_ratchets came from, 0 none
    ws,              \* where the websocket thread is
    tick,            \* where the tick thread is
    \* the server and the channel (external)
    epoch,           \* the group's epoch, as the server counts it
    live,            \* the last epoch the channel was told to move to
    winner,          \* per epoch: the number of this client's commit that led there, or 0
    member,          \* the server counts the client among the members
    spare,           \* a key package of the client the server has not used, or 0
    channel,         \* the protocol version the channel runs
    offered,         \* the package the proposals that are out add: 0 only others', or NoOffer
    move,            \* the transition under way: its id, epoch, whether the client was told
    nextId,          \* the next transition's id in this session
    \* between them, each in order
    inbox, outbox,
    \* bounds
    upsets, early,
    \* what has happened, for the properties: no action reads it
    crossed,         \* a welcome was taken between the two halves of the watchdog's rebuild
    turnedDown       \* a commit that was to take effect at once was not applied

client == <<active, version, versionNext, group, groupNext, groupReady, mediaReady, package,
            own, pending, pendingId, known, lastDone, recent, ratchet, ws, tick>>
server == <<epoch, live, winner, member, spare, channel, offered, move, nextId>>
history == <<crossed, turnedDown>>
vars == <<client, server, inbox, outbox, upsets, early, history>>

NoMove == [to |-> 0]
NoOffer == -1
NoCommit == [have |-> FALSE]
OwnNone == [ready |-> FALSE, won |-> FALSE]

\* Key packages and commits are told apart by numbers used in turn.
After(k) == (k % Packages) + 1

Say(message) == outbox' = Append(outbox, message)
Stay == UNCHANGED outbox

\* What a session starts with; transition zero moves nothing, and a channel
\* that is not encrypted has nothing to say.
Hello(v) == IF v = 0 THEN <<>>
            ELSE <<[op |-> "sender"], [op |-> "prepare", id |-> 0, version |-> 1],
                   [op |-> "execute", id |-> 0]>>

Init ==
    /\ active = TRUE /\ version = 1 /\ versionNext = 1
    /\ group = 0 /\ groupNext = [base |-> 0, number |-> 0]
    /\ groupReady = FALSE /\ mediaReady = FALSE
    /\ package = 0
    /\ own = OwnNone /\ pending = NoCommit /\ pendingId = 0 /\ known = {}
    /\ lastDone = NoneDone /\ recent \in BOOLEAN
    /\ ratchet = 0
    /\ ws = "idle" /\ tick = "idle"
    /\ epoch \in IF First THEN {0, 1} ELSE {1}
    /\ live = epoch
    /\ winner = [e \in 1 .. TopEpoch |-> 0]
    /\ member = FALSE /\ spare = 0 /\ channel = 1 /\ offered = NoOffer /\ move = NoMove
    /\ nextId = 1
    /\ inbox = Hello(1)
    /\ outbox = <<>>
    /\ upsets = 0 /\ early = 0
    /\ crossed = FALSE /\ turnedDown = FALSE

-----------------------------------------------------------------------------
(* The websocket thread. A handler that moves the group or throws it away is  *)
(* two steps: the tick thread can be anywhere between them.                   *)

\* send_key_package: a fresh package, and the group of one that goes with it.
SendKeyPackage ==
    /\ package' = After(package)
    /\ group' = -package'
    /\ groupReady' = TRUE
    /\ Say([op |-> "package", package |-> package'])

ForgetKeepingMedia ==
    /\ recent' = TRUE /\ pending' = NoCommit /\ own' = OwnNone /\ known' = {}
    /\ groupReady' = FALSE /\ ratchet' = 0 /\ UNCHANGED mediaReady

\* dave_reinit up to the call of send_key_package, which is the next step of
\* the thread `at` it runs on.
Forget ==
    /\ recent' = TRUE
    /\ pending' = NoCommit /\ own' = OwnNone /\ known' = {}
    /\ groupReady' = FALSE /\ mediaReady' = FALSE
    /\ ratchet' = 0

\* Op 25: the external sender.
OnSender ==
    /\ SendKeyPackage
    /\ UNCHANGED <<active, version, versionNext, groupNext, mediaReady, own, pending,
                   pendingId, known, lastDone, recent, ratchet, ws, tick>>

\* Op 27. The commit is built on a copy; this one, if the server takes any of
\* ours.
OnProposals(m) ==
    /\ known' = known \union {m.base}
    /\ IF groupReady
       THEN LET number == groupNext.number + 1
            IN  /\ groupNext' = [base |-> group, number |-> number]
                /\ own' = [ready |-> TRUE, won |-> FALSE]
                /\ Say([op |-> "commit", base |-> group, number |-> number])
       ELSE UNCHANGED <<groupNext, own>> /\ Stay
    /\ UNCHANGED <<active, version, versionNext, group, groupReady, mediaReady, package,
                   pending, pendingId, lastDone, recent, ratchet, ws, tick>>

\* Op 27 that takes proposals back.
OnRevoke ==
    /\ known' = {}
    /\ Stay
    /\ UNCHANGED <<active, version, versionNext, group, groupNext, groupReady, mediaReady,
                   package, own, pending, pendingId, lastDone, recent, ratchet, ws, tick>>

\* Op 30: sealed to one key package, and opened by no other.
OnWelcome(m) ==
    \/ /\ package = 0
       /\ Stay /\ UNCHANGED client
    \/ /\ package # 0 /\ m.package = package
       /\ group' = m.epoch
       /\ groupReady' = TRUE /\ mediaReady' = TRUE
       /\ ws' = "welcomed" /\ lastDone' = m.id
       /\ Stay
       /\ UNCHANGED <<active, version, versionNext, groupNext, package, own, pending,
                      pendingId, known, recent, ratchet, tick>>
    \/ /\ package # 0 /\ m.package # package
       /\ Say([op |-> "invalid", id |-> m.id])
       /\ Forget /\ ws' = "rebuild"
       /\ UNCHANGED <<active, version, versionNext, group, groupNext, package, pendingId,
                      lastDone, tick>>

\* mls::process_commit takes another member's commit on the group this client
\* is in, when it kept the proposals the commit names.
Processes(c) == c.base = group /\ ~c.mine /\ c.base \in known

\* Op 29 with transition zero takes effect at once.
OnAnnounceNow(m) ==
    /\ Say([op |-> IF Processes(m) THEN "ready" ELSE "invalid", id |-> 0])
    /\ IF Processes(m) THEN group' = m.base + 1 /\ known' = {} /\ ws' = "moved"
                       ELSE UNCHANGED <<group, known, ws>>
    /\ UNCHANGED <<active, version, versionNext, groupNext, groupReady, mediaReady, package,
                   own, pending, pendingId, lastDone, recent, ratchet, tick>>

\* Op 29: our own commit is recognised by its bytes, if the server has left them
\* as they were, and another's is kept; both wait for the word to go.
OnAnnounceLater(m) ==
    \E mine \in {FALSE, own.ready /\ m.mine /\ m.number = groupNext.number} :
        /\ pendingId' = m.id
        /\ own' = [own EXCEPT !.won = mine]
        /\ pending' = IF mine THEN NoCommit
                      ELSE [have |-> TRUE, base |-> m.base, mine |-> m.mine]
        /\ Say([op |-> "ready", id |-> m.id])
        /\ UNCHANGED <<active, version, versionNext, group, groupNext, groupReady, mediaReady,
                       package, known, lastDone, recent, ratchet, ws, tick>>

\* It says so, but stays as it is and makes no new key package.
LeavesOut(m) == m.op = "announce" /\ m.id = 0 /\ ~(groupReady /\ Processes(m))

OnAnnounceAtOnce(m) ==
    \/ ~groupReady /\ Stay /\ UNCHANGED client
    \/ groupReady /\ OnAnnounceNow(m)

OnAnnounce(m) ==
    \/ ~groupReady /\ Stay /\ UNCHANGED client
    \/ groupReady /\ m.id = 0 /\ OnAnnounceNow(m)
    \/ groupReady /\ m.id # 0 /\ OnAnnounceLater(m)

\* Op 21: remembered, and answered.
OnPrepare(m) ==
    /\ versionNext' = m.version
    /\ Say([op |-> "ready", id |-> m.id])
    /\ UNCHANGED <<active, version, group, groupNext, groupReady, mediaReady, package, own,
                   pending, pendingId, known, lastDone, recent, ratchet, ws, tick>>

\* Op 24 with epoch one: the group starts over.
OnEpochOne ==
    /\ version' = 1 /\ versionNext' = 1 /\ active' = TRUE /\ ws' = "forget"
    /\ Stay
    /\ UNCHANGED <<group, groupNext, groupReady, mediaReady, package, own, pending, pendingId,
                   known, lastDone, recent, ratchet, tick>>

\* execute_transition, the version first: down to none, or up again.
ChangeVersion ==
    /\ version' = versionNext
    /\ IF versionNext = 0
       THEN /\ active' = FALSE /\ mediaReady' = TRUE
            /\ pending' = NoCommit /\ own' = OwnNone
            /\ UNCHANGED ws
       ELSE /\ active' = TRUE /\ ws' = "forget"
            /\ UNCHANGED <<mediaReady, pending, own>>
    /\ Stay
    /\ UNCHANGED <<versionNext, group, groupNext, groupReady, package, pendingId, known,
                   lastDone, recent, ratchet, tick>>

OwnWonAnyway(id) == own.ready /\ id = pendingId

OwnWon(id) ==
    /\ own.won \/ (own.ready /\ ~pending.have)
    /\ id = pendingId

\* Where the swap leads: with the channel if the server took this very commit.
Swapped ==
    LET e == IF groupNext.base > 0 THEN groupNext.base + 1 ELSE 1
    IN  IF e <= TopEpoch /\ winner[e] = groupNext.number THEN e ELSE Fork

\* Our own commit: the live group becomes the copy.
Swap(id) ==
    /\ group' = Swapped
    /\ own' = OwnNone /\ pending' = NoCommit /\ known' = {} /\ lastDone' = id
    /\ ws' = "moved"
    /\ Stay
    /\ UNCHANGED <<active, version, versionNext, groupNext, groupReady, mediaReady, package,
                   pendingId, recent, ratchet, tick>>


\* worth_it, and no more than once in five seconds.
WorthRebuilding(id) == id # 0 /\ active /\ package # 0 /\ ~recent

\* Nothing kept for this one: answer first, rebuild second.
Missed(id) ==
    IF WorthRebuilding(id)
    THEN /\ Say([op |-> "invalid", id |-> id])
         /\ Forget /\ ws' = "rebuild"
         /\ UNCHANGED <<active, version, versionNext, group, groupNext, package, pendingId,
                        lastDone, tick>>
    ELSE Stay /\ UNCHANGED client

\* The commit that was kept.
ApplyPending(id) ==
    IF Processes(pending)
    THEN /\ group' = pending.base + 1
         /\ pending' = NoCommit /\ known' = {} /\ lastDone' = id
         /\ ws' = "moved"
         /\ Stay
         /\ UNCHANGED <<active, version, versionNext, groupNext, groupReady, mediaReady,
                        package, own, pendingId, recent, ratchet, tick>>
    ELSE /\ Say([op |-> "invalid", id |-> id])
         /\ Forget /\ ws' = "rebuild"
         /\ UNCHANGED <<active, version, versionNext, group, groupNext, package, pendingId,
                        lastDone, tick>>

\* Op 22.
OnExecute(m) ==
    IF versionNext # version THEN ChangeVersion
    ELSE IF m.id = lastDone THEN Stay /\ UNCHANGED client
    ELSE IF OwnWon(m.id) THEN Swap(m.id)
    ELSE IF ~pending.have \/ m.id # pendingId THEN Missed(m.id)
    ELSE ApplyPending(m.id)

Handle ==
    /\ ws = "idle" /\ inbox # <<>>
    /\ inbox' = Tail(inbox)
    /\ LET m == Head(inbox)
       IN  \/ m.op = "sender" /\ OnSender
           \/ m.op = "proposals" /\ OnProposals(m)
           \/ m.op = "revoke" /\ OnRevoke
           \/ m.op = "welcome" /\ OnWelcome(m)
           \/ m.op = "announce" /\ OnAnnounce(m)
           \/ m.op = "prepare" /\ OnPrepare(m)
           \/ m.op = "execute" /\ OnExecute(m)
           \/ m.op = "epoch" /\ OnEpochOne
    /\ crossed' = (crossed \/ (tick = "rebuild" /\ ws' = "welcomed"))
    /\ turnedDown' = (turnedDown \/ LeavesOut(Head(inbox)))
    /\ UNCHANGED <<server, upsets, early>>

RatchetsKept == ratchet

\* dave::reset_ratchets, after a move.
RatchetsReset == 0

\* The rest of a handler that moved the group: the media keys start over.
ResetRatchets ==
    /\ ws = "moved"
    /\ ratchet' = RatchetsReset /\ ws' = "idle"
    /\ UNCHANGED <<active, version, versionNext, group, groupNext, groupReady, mediaReady,
                   package, own, pending, pendingId, known, lastDone, recent, tick,
                   server, inbox, outbox, upsets, early, history>>

\* The same after a welcome, which also answers.
Welcomed ==
    /\ ws = "welcomed"
    /\ ratchet' = RatchetsReset /\ known' = {} /\ ws' = "idle"
    /\ Say([op |-> "ready", id |-> lastDone])
    /\ UNCHANGED <<active, version, versionNext, group, groupNext, groupReady, mediaReady,
                   package, own, pending, pendingId, lastDone, recent, tick,
                   server, inbox, upsets, early, history>>

\* dave_reinit, called with the channel already marked as encrypted again.
ForgetFirst ==
    /\ ws = "forget"
    /\ Forget /\ ws' = "rebuild"
    /\ UNCHANGED <<active, version, versionNext, group, groupNext, package, pendingId,
                   lastDone, tick, server, inbox, outbox, upsets, early, history>>

\* The rest of dave_reinit.
Rebuild ==
    /\ ws = "rebuild"
    /\ SendKeyPackage /\ ws' = "idle"
    /\ UNCHANGED <<active, version, versionNext, groupNext, mediaReady, own, pending,
                   pendingId, known, lastDone, recent, ratchet, tick,
                   server, inbox, upsets, early, history>>

-----------------------------------------------------------------------------
(* The tick thread.                                                           *)

\* send_media, and decrypt_frame the other way: the flag is read, and later
\* the ratchet is looked up or made from the group as it is then.
CheckMedia ==
    /\ tick = "idle" /\ mediaReady
    /\ tick' = "checked"
    /\ UNCHANGED <<active, version, versionNext, group, groupNext, groupReady, mediaReady,
                   package, own, pending, pendingId, known, lastDone, recent, ratchet, ws,
                   server, inbox, outbox, upsets, early, history>>

UseRatchet ==
    /\ tick = "checked"
    /\ tick' = "idle"
    /\ ratchet' = IF ratchet = 0 THEN group ELSE ratchet
    /\ UNCHANGED <<active, version, versionNext, group, groupNext, groupReady, mediaReady,
                   package, own, pending, pendingId, known, lastDone, recent, ws,
                   server, inbox, outbox, upsets, early, history>>

\* An answer takes longer than somebody waits for it; that is bounded.
Impatient == early < MaxEarly /\ early' = early + 1

\* Nothing is on its way that could give the client keys.
NothingComes == /\ inbox = <<>> /\ outbox = <<>> /\ move = NoMove
                /\ offered = NoOffer /\ (member \/ spare = 0)

\* Seconds pass: longer than what is under way takes, or that is slow for once.
LongWhile == \/ NothingComes /\ ws = "idle" /\ UNCHANGED early
             \/ ~(NothingComes /\ ws = "idle") /\ Impatient

\* Fifteen seconds without keys.
Watchdog ==
    /\ tick = "idle" /\ active /\ ~mediaReady
    /\ LongWhile
    /\ Forget /\ tick' = "rebuild"
    /\ UNCHANGED <<active, version, versionNext, group, groupNext, package, pendingId,
                   lastDone, ws, server, inbox, outbox, upsets, history>>

WatchdogRebuild ==
    /\ tick = "rebuild"
    /\ SendKeyPackage /\ tick' = "idle"
    /\ UNCHANGED <<active, version, versionNext, groupNext, mediaReady, own, pending,
                   pendingId, known, lastDone, recent, ratchet, ws,
                   server, inbox, upsets, early, history>>

\* 250 ticks since the last rebuild.
FiveSeconds ==
    /\ recent /\ recent' = FALSE
    /\ LongWhile
    /\ UNCHANGED <<active, version, versionNext, group, groupNext, groupReady, mediaReady,
                   package, own, pending, pendingId, known, lastDone, ratchet, ws, tick,
                   server, inbox, outbox, upsets, history>>

-----------------------------------------------------------------------------
(* The server and the other members, as the client's handlers and comments    *)
(* take them to be (external).                                                *)

Tell(message) == inbox' = Append(inbox, message)

\* A key package: kept for whoever is not in the group. From a member it asks
\* for nothing, or it is let in again.
TakePackage(m) ==
    /\ IF member /\ ~BareHelps
       THEN UNCHANGED <<member, spare>>
       ELSE member' = FALSE /\ spare' = m.package
    /\ UNCHANGED <<epoch, live, winner, channel, offered, move, nextId, inbox>>

\* Op 31: this client is let in again, with the next key package it sends, and
\* the transition goes on without it.
TakeInvalid(m) ==
    /\ member' = FALSE /\ spare' = 0
    /\ move' = IF move # NoMove /\ m.id = move.id THEN [move EXCEPT !.told = FALSE] ELSE move
    /\ UNCHANGED <<epoch, live, winner, channel, offered, nextId, inbox>>

\* Op 23: it can go ahead.
TakeReady(m) ==
    /\ move' = IF move # NoMove /\ m.id = move.id THEN [move EXCEPT !.ready = TRUE] ELSE move
    /\ UNCHANGED <<epoch, live, winner, member, spare, channel, offered, nextId, inbox>>

\* The commit that is taken starts a transition, told to everyone.
Moves(id, told) ==
    /\ epoch' = epoch + 1
    /\ offered' = NoOffer
    /\ IF id = 0 THEN move' = NoMove /\ live' = epoch + 1 /\ UNCHANGED nextId
                 ELSE move' = [to |-> epoch + 1, id |-> id, told |-> told, ready |-> FALSE]
                      /\ nextId' = nextId + 1 /\ UNCHANGED live
    /\ UNCHANGED channel

\* Our commit, on the epoch the group is at or on our own new group. The very
\* first may be told with transition zero.
Acceptable(m) ==
    /\ offered # NoOffer /\ move = NoMove
    /\ IF epoch = 0 THEN -m.base = offered ELSE member /\ m.base = epoch

TakeCommit(m) ==
    IF Acceptable(m)
    THEN \E id \in IF epoch = 0 THEN {0, nextId} ELSE {nextId} :
            /\ Moves(id, TRUE)
            /\ winner' = [winner EXCEPT ![epoch + 1] = m.number]
            /\ member' = TRUE /\ spare' = IF spare = offered THEN 0 ELSE spare
            /\ Tell([op |-> "announce", id |-> id, base |-> epoch, mine |-> TRUE,
                     number |-> m.number])
    ELSE UNCHANGED <<server, inbox>>

Take ==
    /\ outbox # <<>>
    /\ outbox' = Tail(outbox)
    /\ LET m == Head(outbox)
       IN  \/ m.op = "package" /\ TakePackage(m)
           \/ m.op = "invalid" /\ TakeInvalid(m)
           \/ m.op = "commit" /\ TakeCommit(m)
           \/ m.op = "ready" /\ TakeReady(m)
    /\ UNCHANGED <<client, upsets, early, history>>

\* Somebody comes or goes, or this client is to be let in.
Admits == ~member /\ spare # 0

Offer ==
    /\ channel = 1 /\ offered = NoOffer /\ move = NoMove
    /\ epoch < MaxEpoch \/ (Admits /\ epoch < TopEpoch)
    /\ offered' = IF Admits THEN spare ELSE 0
    /\ Tell([op |-> "proposals", base |-> epoch])
    /\ UNCHANGED <<client, epoch, live, winner, member, spare, channel, move, nextId, outbox,
                   upsets, early, history>>

\* Another member's commit is taken: announced to a member, a welcome to one let in.
OtherCommit ==
    /\ offered # NoOffer
    /\ Moves(nextId, member \/ offered > 0)
    /\ winner' = winner
    /\ IF offered > 0
       THEN /\ Tell([op |-> "welcome", id |-> nextId, epoch |-> epoch + 1, package |-> offered])
            /\ member' = TRUE /\ spare' = IF spare = offered THEN 0 ELSE spare
       ELSE /\ IF member
               THEN Tell([op |-> "announce", id |-> nextId, base |-> epoch, mine |-> FALSE,
                          number |-> 0])
               ELSE UNCHANGED inbox
            /\ UNCHANGED <<member, spare>>
    /\ UNCHANGED <<client, outbox, upsets, early, history>>

\* Everybody moves, once those who were told have answered. One who was not
\* told, or could not follow, may hear this all the same.
Execute ==
    /\ move # NoMove
    /\ \/ (move.told => move.ready) /\ UNCHANGED early
       \/ move.told /\ ~move.ready /\ Impatient
    /\ move' = NoMove /\ live' = move.to
    /\ \/ Tell([op |-> "execute", id |-> move.id])
       \/ ~move.told /\ UNCHANGED inbox
    /\ UNCHANGED <<client, epoch, winner, member, spare, channel, offered, nextId, outbox,
                   upsets, history>>

\* What may happen to a call, a bounded number of times.
Upset ==
    /\ upsets < MaxUpsets /\ upsets' = upsets + 1
    /\ UNCHANGED <<client, epoch, live, winner, outbox, early, history>>

\* Somebody joins who cannot encrypt.
Downgrade ==
    /\ Upset
    /\ channel = 1 /\ move = NoMove
    /\ channel' = 0 /\ offered' = NoOffer /\ member' = FALSE /\ spare' = 0
    /\ nextId' = nextId + 1
    /\ inbox' = inbox \o <<[op |-> "prepare", id |-> nextId, version |-> 0],
                           [op |-> "execute", id |-> nextId]>>
    /\ UNCHANGED move

\* And leaves again; or the group starts over as it is.
StartOver ==
    /\ Upset
    /\ move = NoMove
    /\ channel' = 1 /\ offered' = NoOffer /\ member' = FALSE /\ spare' = 0
    /\ \/ /\ channel = 0 /\ nextId' = nextId + 1
          /\ inbox' = inbox \o <<[op |-> "prepare", id |-> nextId, version |-> 1],
                                 [op |-> "execute", id |-> nextId]>>
       \/ /\ Tell([op |-> "epoch"]) /\ UNCHANGED nextId
    /\ UNCHANGED move

\* The proposals are taken back.
Revoke ==
    /\ Upset
    /\ offered # NoOffer
    /\ offered' = NoOffer
    /\ Tell([op |-> "revoke"])
    /\ UNCHANGED <<member, spare, channel, move, nextId>>

\* The server says go a second time.
Repeat ==
    /\ Upset
    /\ move = NoMove /\ nextId > 1
    /\ Tell([op |-> "execute", id |-> nextId - 1])
    /\ UNCHANGED <<member, spare, channel, offered, move, nextId>>

\* The session died and rehandshake_voice has made another: what was on its
\* way is gone, and so is our place in the group. The tick thread waits.
Rehandshake ==
    /\ upsets < MaxUpsets /\ upsets' = upsets + 1
    /\ ws = "idle" /\ tick = "idle"
    /\ active' = (channel = 1) /\ version' = channel /\ versionNext' = channel
    /\ groupReady' = FALSE /\ mediaReady' = FALSE /\ package' = 0
    /\ own' = OwnNone /\ pending' = NoCommit /\ pendingId' = 0
    /\ lastDone' = NoneDone /\ recent' = FALSE /\ ratchet' = 0
    /\ member' = FALSE /\ spare' = 0 /\ offered' = NoOffer
    /\ move' = NoMove /\ live' = epoch /\ nextId' = 1
    /\ inbox' = Hello(channel) /\ outbox' = <<>>
    /\ UNCHANGED <<group, groupNext, known, ws, tick, epoch, winner, channel, early, history>>

-----------------------------------------------------------------------------
WsThread == Handle \/ ResetRatchets \/ Welcomed \/ ForgetFirst \/ Rebuild
TickThread == CheckMedia \/ UseRatchet \/ Watchdog \/ WatchdogRebuild \/ FiveSeconds
Server == Take \/ Offer \/ OtherCommit \/ Execute
Upsets == Downgrade \/ StartOver \/ Revoke \/ Repeat \/ Rehandshake

Next == WsThread \/ TickThread \/ Server \/ Upsets

Spec == Init /\ [][Next]_vars

\* Both threads run; the server reads, lets in whoever asked, takes a commit of
\* somebody's and says go. Nobody has to come or go, and nothing has to go wrong.
FairSpec ==
    /\ Spec
    /\ WF_vars(WsThread) /\ WF_vars(UseRatchet) /\ WF_vars(WatchdogRebuild)
    /\ WF_vars(Watchdog) /\ WF_vars(FiveSeconds)
    /\ WF_vars(Take) /\ WF_vars(Admits /\ Offer) /\ WF_vars(OtherCommit) /\ WF_vars(Execute)

-----------------------------------------------------------------------------
(* What must hold.                                                            *)

\* A thread is between two steps of one handler.
Midway == ws # "idle" \/ tick = "rebuild"

\* Frames are wrapped for the group.
Sealing == active /\ mediaReady

\* Nothing is under way and nobody owes anybody an answer.
Quiet == /\ inbox = <<>> /\ outbox = <<>> /\ offered = NoOffer /\ move = NoMove
         /\ ~Admits /\ ~Midway

\* Every variable has its type, and a commit is kept for later only while there
\* is a group it could be applied to.
TypeOK ==
    /\ active \in BOOLEAN /\ version \in 0 .. 1 /\ versionNext \in 0 .. 1
    /\ group \in Groups /\ ratchet \in Groups
    /\ groupNext.base \in Groups /\ groupNext.number \in Nat
    /\ groupReady \in BOOLEAN /\ mediaReady \in BOOLEAN
    /\ package \in 0 .. Packages /\ spare \in 0 .. Packages
    /\ pending.have => groupReady
    /\ ws \in {"idle", "moved", "welcomed", "forget", "rebuild"}
    /\ tick \in {"idle", "checked", "rebuild"}
    /\ epoch \in 0 .. TopEpoch /\ live \in 0 .. epoch
    /\ offered \in NoOffer .. Packages

\* The media keys a frame is wrapped with are those of the group the client is
\* in: no handler that moves the group leaves the keys of the one before
\* behind, wherever the tick thread was while it ran.
RatchetsFollow == (Sealing /\ ~Midway /\ ratchet # 0) => ratchet = group

\* "Media must not flow before that": no frame is wrapped for the group the
\* client made for itself while it waits for a welcome, nor for an epoch only
\* its own commit led to.  Only a welcome taken between the two halves of the
\* watchdog's rebuild leaves its media flag behind over the group the watchdog
\* makes.
NeverAlone == (Sealing /\ ~Midway /\ ~crossed) => group > 0

\* The client is not on an epoch before the channel is told to move there,
\* except as the one the transition lets in, who has no epoch before it and is
\* marked as having done this one.
NotAhead == (Sealing /\ group > live) =>
                (move # NoMove /\ group = move.to /\ lastDone = move.id)

\* Once nothing is under way, a client that wraps its frames is a member, and
\* wraps them for the epoch the channel is at: but for that crossing, and until
\* it leaves out a commit that was to take effect at once, such as its own
\* first.  What it answers then has no new key package after it, and may put it
\* out of the group when it had been let in again.
BelievedMeansHeard ==
    (Quiet /\ Sealing /\ ~crossed /\ ~turnedDown) => (member /\ group = epoch)

=============================================================================
