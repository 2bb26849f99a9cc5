---------------------------- MODULE GatewaySession -----------------------------
(***************************************************************************)
(* One connection to Discord (gw_conn in discord/gateway.cpp): the receive *)
(* loop that identifies, resumes and reconnects, the heartbeat thread that *)
(* closes a dead socket under it, and what both do to the store and to the *)
(* call that runs beside them.  Discord's side of the socket is external   *)
(* and modelled from what the code expects of it: a session is a numbered  *)
(* stream of dispatches whose first is READY, and it can be resumed at its *)
(* own node until Discord expires it.                                      *)
(*                                                                         *)
(* A dispatch is its number in its session.  What was sent but not yet     *)
(* received is the interval next..log[bound], so order on the wire is      *)
(* FIFO and only a lost socket loses anything.                             *)
(***************************************************************************)
EXTENDS Integers

CONSTANTS
    MaxFaults,      \* bound: drops, silences, expiries, refusals and sign-outs
    MaxSeq,         \* bound: dispatches of one session
    Bot,            \* api::is_bot()
    Granted,        \* the bot has its privileged intents switched on
    MayHold,        \* an account switch may leave this connection holding a call
    MaySilenceEarly \* the socket may go silent before HELLO was read

ASSUME BoundsAssumption == MaxFaults \in Nat /\ MaxSeq \in Nat \ {0}
ASSUME FlagsAssumption ==
    /\ Bot \in BOOLEAN
    /\ Granted \in BOOLEAN
    /\ MayHold \in BOOLEAN
    /\ MaySilenceEarly \in BOOLEAN

VARIABLES
    \* gw_conn, and the thread that runs it
    pc, running, want_resume, session_id, resume_url, sequence, had_session,
    backoff_ms, close_status, dispatching,
    taken,          \* session of the dispatch the thread is about to fold
    \* the heartbeat thread
    heartbeat_ms, acked, hb,
    \* process-wide flags of gateway.cpp
    state, hold_media, intents_denied,
    \* what the client shows: the stream the store was folded from, the call
    store_session, store_seq, media, call_session,
    \* the socket, and Discord's view of it
    phase, silent, at, req_session, req_seq, bound, next,
    \* Discord's sessions
    live, log, issued, named,
    faults

threadVars == <<pc, running, want_resume, session_id, resume_url, sequence,
                had_session, backoff_ms, close_status, dispatching, taken>>
beatVars   == <<heartbeat_ms, acked, hb>>
flagVars   == <<state, hold_media, intents_denied>>
storeVars  == <<store_session, store_seq>>
mediaVars  == <<media, call_session>>
wireVars   == <<phase, silent, at, req_session, req_seq, bound, next>>
serverVars == <<live, log, issued, named>>
vars == <<threadVars, beatVars, flagVars, storeVars, mediaVars, wireVars,
          serverVars, faults>>

\* Only a fault makes Discord issue another session, so there are no more.
Sessions == 1..(MaxFaults + 1)

Interval == 41250
BackoffSteps == {0, 1000, 2000, 4000, 8000, 16000, 30000, 32000}

\* The node that can resume s: the one its READY named, else any (0).
Home(s) == IF s \in named THEN s ELSE 0

Fault == faults < MaxFaults /\ faults' = faults + 1

Init ==
    /\ pc = "off" /\ running = FALSE /\ want_resume = FALSE
    /\ session_id = 0 /\ resume_url = 0 /\ sequence = 0
    /\ had_session = FALSE /\ backoff_ms = 0 /\ close_status = 0
    /\ dispatching = FALSE /\ taken = 0
    /\ heartbeat_ms = 0 /\ acked = FALSE /\ hb = "poll"
    /\ state = "OFFLINE" /\ hold_media = FALSE /\ intents_denied = FALSE
    /\ store_session = 0 /\ store_seq = 0
    /\ media = "none" /\ call_session = 0
    /\ phase = "none" /\ silent = FALSE /\ at = 0
    /\ req_session = 0 /\ req_seq = 0 /\ bound = 0 /\ next = 0
    /\ live = {} /\ log = [s \in Sessions |-> 0] /\ issued = 0 /\ named = {}
    /\ faults = 0

--------------------------------------------------------------------------------
(* Pieces the handlers share *)

\* "!g_hold_media && c == voice_conn()": this connection answers for the call.
\* It is voice_conn() all its life: in front with nothing held, or the one held.
OwnsMediaNever == FALSE
OwnsMedia == ~hold_media

\* screenshare, streamview and voice ::on_gateway_disconnected
EndMedia == media' = "none" /\ call_session' = 0

\* websocket::close and destroy: nothing more is read from this socket.
Hangup ==
    /\ phase' = "none"
    /\ silent' = FALSE
    /\ UNCHANGED <<at, req_session, req_seq, bound, next>>

\* The cap is tested before doubling: 16000 becomes 32000, then 30000.
NextBackoffLinear == backoff_ms + 1000
NextBackoff == IF backoff_ms < 30000 THEN backoff_ms * 2 ELSE 30000

\* Where the socket is opened: the session's own node if a resume is wanted.
WhereAlwaysCommon == 0
Where == IF want_resume THEN resume_url ELSE 0

\* After a socket died on its own: is there anything to resume?
WantsResumeWhenAsked(session) == want_resume
WantsResume(session) == want_resume \/ (session # 0 /\ sequence > 0)

\* What HELLO is answered with: the session to resume, or 0 for an identify.
Answer == IF want_resume THEN session_id ELSE 0

\* send_resume's "seq".
ResumeFromNext == sequence + 1
ResumeFrom == sequence

\* OP_INVALID_SESSION keeps the session only if it may still be resumed.
SessionAfterInvalidKept(d) == session_id
SessionAfterInvalid(d) == IF d THEN session_id ELSE 0

\* The previous beat went unanswered.
UnansweredNever == FALSE
Unanswered == ~acked

\* The wait a connection that worked goes back to.
BackoffReset == 1000

--------------------------------------------------------------------------------
(* Signing in and out *)

\* job_login's success: the slot is zeroed and both threads are created.  The
\* account that was in front before it is signed out, so the store is empty.
Start ==
    /\ pc = "off"
    /\ pc' = "connect" /\ running' = TRUE /\ dispatching' = TRUE
    /\ want_resume' = FALSE /\ session_id' = 0 /\ resume_url' = 0
    /\ sequence' = 0 /\ had_session' = FALSE /\ backoff_ms' = 1000
    /\ close_status' = 0 /\ taken' = 0
    /\ heartbeat_ms' = 0 /\ acked' = FALSE /\ hb' = "poll"
    /\ hold_media' = FALSE /\ state' = "CONNECTING"
    /\ store_session' = 0 /\ store_seq' = 0
    /\ UNCHANGED <<intents_denied, mediaVars, wireVars, serverVars,
                   faults>>

\* tear_down_session (keep: an account switch with no call) and release_hold,
\* as far as stop_conn's waits: the socket is closed under the two threads.
Stop(keep) ==
    /\ running
    /\ keep => media = "none"
    /\ Fault
    /\ running' = FALSE
    /\ hold_media' = IF dispatching THEN keep ELSE hold_media
    /\ Hangup
    /\ UNCHANGED <<pc, want_resume, session_id, resume_url, sequence,
                   had_session, backoff_ms, close_status, dispatching, taken,
                   beatVars, state, intents_denied, storeVars, mediaVars,
                   serverVars>>

\* The waits are over.  A front connection takes the call and the store with
\* it; a held one has neither to give back.
StopEnd ==
    /\ pc = "exited"
    /\ hb # "closing"
    /\ pc' = "off"
    /\ hb' = "poll"
    /\ IF dispatching
       THEN /\ EndMedia
            /\ store_session' = 0 /\ store_seq' = 0
       ELSE UNCHANGED <<storeVars, mediaVars>>
    /\ UNCHANGED <<running, want_resume, session_id, resume_url, sequence,
                   had_session, backoff_ms, close_status, dispatching, taken,
                   heartbeat_ms, acked, flagVars, wireVars, serverVars, faults>>

\* switch_account with a call up: detach_for_voice, then the store is reset
\* for the account that is about to sign in on the other slot.
Detach ==
    /\ MayHold
    /\ running /\ dispatching
    /\ media = "live"
    /\ hold_media' = TRUE
    /\ dispatching' = FALSE
    /\ store_session' = 0 /\ store_seq' = 0
    /\ UNCHANGED <<pc, running, want_resume, session_id, resume_url, sequence,
                   had_session, backoff_ms, close_status, taken, beatVars, state,
                   intents_denied, mediaVars, wireVars, serverVars, faults>>

\* The other account's login succeeded: hold_media(false).
LoginDone ==
    /\ hold_media /\ ~dispatching
    /\ hold_media' = FALSE
    /\ UNCHANGED <<threadVars, beatVars, state, intents_denied, storeVars,
                   mediaVars, wireVars, serverVars, faults>>

--------------------------------------------------------------------------------
(* gateway_thread *)

ConnectOk ==
    /\ pc = "connect" /\ running
    /\ pc' = "recv"
    /\ close_status' = 0
    /\ acked' = TRUE
    /\ phase' = "greet" /\ silent' = FALSE /\ at' = Where
    /\ req_session' = 0 /\ req_seq' = 0 /\ bound' = 0 /\ next' = 0
    /\ UNCHANGED <<running, want_resume, session_id, resume_url, sequence,
                   had_session, backoff_ms, dispatching, taken, heartbeat_ms, hb,
                   flagVars, storeVars, mediaVars, serverVars, faults>>

ConnectFail ==
    /\ pc = "connect" /\ running
    /\ Fault
    /\ pc' = "wait"
    /\ state' = "RECONNECTING"
    /\ UNCHANGED <<running, want_resume, session_id, resume_url, sequence,
                   had_session, backoff_ms, close_status, dispatching, taken,
                   beatVars, hold_media, intents_denied, storeVars, mediaVars,
                   wireVars, serverVars>>

WaitDone ==
    /\ pc = "wait" /\ running
    /\ pc' = "connect"
    /\ backoff_ms' = NextBackoff
    /\ state' = "CONNECTING"
    /\ UNCHANGED <<running, want_resume, session_id, resume_url, sequence,
                   had_session, close_status, dispatching, taken, beatVars,
                   hold_media, intents_denied, storeVars, mediaVars, wireVars,
                   serverVars, faults>>

\* stop_event ends the wait; a connect whose socket was closed fails into it.
ThreadExit ==
    /\ pc \in {"connect", "wait"} /\ ~running
    /\ pc' = "exited"
    /\ state' = "OFFLINE"
    /\ UNCHANGED <<running, want_resume, session_id, resume_url, sequence,
                   had_session, backoff_ms, close_status, dispatching, taken,
                   beatVars, hold_media, intents_denied, storeVars, mediaVars,
                   wireVars, serverVars, faults>>

\* The receive loop has ended.  Everything between it and the next wait.
LoopEnd ==
    LET denied  == close_status = 4014 /\ Bot /\ ~intents_denied
        session == IF denied THEN 0 ELSE session_id
        wants   == WantsResume(session)
    IN
    /\ pc = "recv" /\ phase = "none"
    /\ intents_denied' = (intents_denied \/ denied)
    /\ session_id' = session
    /\ want_resume' = wants
    /\ heartbeat_ms' = 0
    /\ IF OwnsMedia /\ ~wants THEN EndMedia ELSE UNCHANGED mediaVars
    /\ pc' = IF running THEN "wait" ELSE "exited"
    /\ state' = IF running THEN "RECONNECTING" ELSE "OFFLINE"
    /\ UNCHANGED <<running, resume_url, sequence, had_session, backoff_ms,
                   close_status, dispatching, taken, acked, hb, hold_media,
                   storeVars, wireVars, serverVars, faults>>

\* A message can be read: the loop is in receive() and the socket delivers.
Reading == pc = "recv" /\ running /\ phase # "none" /\ ~silent

\* OP_HELLO: resume if one is wanted and there is something to resume.
RecvHello ==
    /\ Reading /\ phase = "greet"
    /\ heartbeat_ms' = Interval
    /\ acked' = TRUE
    /\ phase' = "asked"
    /\ req_session' = Answer
    /\ req_seq' = IF Answer # 0 THEN ResumeFrom ELSE 0
    /\ want_resume' = FALSE
    /\ state' = "IDENTIFYING"
    /\ UNCHANGED <<pc, running, session_id, resume_url, sequence, had_session,
                   backoff_ms, close_status, dispatching, taken, hb, hold_media,
                   intents_denied, storeVars, mediaVars, silent, at, bound, next,
                   serverVars, faults>>

\* handle_payload takes "s" and handle_dispatch reads c->dispatching; only
\* then does it reach for the store.  A held connection drops it here.
TakeDispatch ==
    /\ Reading /\ phase \in {"replay", "serve"}
    /\ next <= log[bound]
    /\ sequence' = next
    /\ next' = next + 1
    /\ IF dispatching
       THEN pc' = "fold" /\ taken' = bound
       ELSE UNCHANGED <<pc, taken>>
    /\ UNCHANGED <<running, want_resume, session_id, resume_url, had_session,
                   backoff_ms, close_status, dispatching, beatVars, flagVars,
                   storeVars, mediaVars, phase, silent, at, req_session, req_seq,
                   bound, serverVars, faults>>

\* handle_ready: the first dispatch of a session rebuilds the store.
HandleReady ==
    /\ IF had_session /\ OwnsMedia THEN EndMedia ELSE UNCHANGED mediaVars
    /\ had_session' = TRUE
    /\ session_id' = taken
    /\ resume_url' = Home(taken)
    /\ backoff_ms' = BackoffReset
    /\ state' = "READY"

\* The rest of the handler, with the store guard held.
FoldDispatch ==
    /\ pc = "fold"
    /\ pc' = "recv"
    /\ store_session' = taken
    /\ store_seq' = sequence
    /\ IF sequence = 1
       THEN HandleReady
       ELSE UNCHANGED <<had_session, session_id, resume_url, backoff_ms, state,
                        mediaVars>>
    /\ UNCHANGED <<running, want_resume, sequence, close_status, dispatching,
                   taken, beatVars, hold_media, intents_denied, wireVars,
                   serverVars, faults>>

\* RESUMED ends the replay.  It is not a call dispatch, so a held connection
\* drops it unread.
RecvResumed ==
    /\ Reading /\ phase = "replay" /\ next > log[bound]
    /\ phase' = "serve"
    /\ IF dispatching
       THEN state' = "READY" /\ backoff_ms' = BackoffReset
       ELSE UNCHANGED <<state, backoff_ms>>
    /\ UNCHANGED <<pc, running, want_resume, session_id, resume_url, sequence,
                   had_session, close_status, dispatching, taken, beatVars,
                   hold_media, intents_denied, storeVars, mediaVars, silent, at,
                   req_session, req_seq, bound, next, serverVars, faults>>

\* OP_RECONNECT
RecvReconnect ==
    /\ Reading
    /\ Fault
    /\ want_resume' = TRUE
    /\ Hangup
    /\ UNCHANGED <<pc, running, session_id, resume_url, sequence, had_session,
                   backoff_ms, close_status, dispatching, taken, beatVars,
                   flagVars, storeVars, mediaVars, serverVars>>

\* OP_INVALID_SESSION: d says whether the session may still be resumed.
RecvInvalid(d) ==
    /\ Reading
    /\ IF d THEN phase # "refused" /\ Fault
            ELSE phase = "refused" /\ UNCHANGED faults
    /\ want_resume' = d
    /\ session_id' = SessionAfterInvalid(d)
    /\ backoff_ms' = BackoffReset
    /\ Hangup
    /\ UNCHANGED <<pc, running, resume_url, sequence, had_session, close_status,
                   dispatching, taken, beatVars, flagVars, storeVars, mediaVars,
                   serverVars>>

\* OP_HEARTBEAT_ACK
RecvAck ==
    /\ Reading /\ ~acked
    /\ acked' = TRUE
    /\ UNCHANGED <<threadVars, heartbeat_ms, hb, flagVars, storeVars, mediaVars,
                   wireVars, serverVars, faults>>

--------------------------------------------------------------------------------
(* heartbeat_thread *)

HbArm ==
    /\ running /\ hb = "poll" /\ heartbeat_ms > 0
    /\ hb' = "armed"
    /\ UNCHANGED <<threadVars, heartbeat_ms, acked, flagVars, storeVars,
                   mediaVars, wireVars, serverVars, faults>>

\* The interval passed.  On a socket that works the ack came in time, unless
\* it was delayed by a whole interval.
HbTimeout ==
    /\ running /\ hb = "armed"
    /\ \/ /\ phase = "none"
          /\ hb' = "poll" /\ UNCHANGED <<acked, faults>>
       \/ /\ phase # "none" /\ ~Unanswered
          /\ hb' = "poll" /\ acked' = FALSE /\ UNCHANGED faults
       \/ /\ phase # "none" /\ Unanswered
          /\ IF silent THEN UNCHANGED faults ELSE Fault
          /\ hb' = "closing" /\ UNCHANGED acked
    /\ UNCHANGED <<threadVars, heartbeat_ms, flagVars, storeVars, mediaVars,
                   wireVars, serverVars>>

\* ws.close on whatever socket the connection has by now.
HbClose ==
    /\ hb = "closing"
    /\ hb' = "poll"
    /\ Hangup
    /\ UNCHANGED <<threadVars, heartbeat_ms, acked, flagVars, storeVars,
                   mediaVars, serverVars, faults>>

--------------------------------------------------------------------------------
(* The call, as far as the gateway sees it *)

StartCall ==
    /\ dispatching /\ running /\ state = "READY" /\ phase = "serve"
    /\ pc = "recv" /\ ~silent
    /\ media = "none"
    /\ media' = "live"
    /\ call_session' = session_id
    /\ UNCHANGED <<threadVars, beatVars, flagVars, storeVars, wireVars,
                   serverVars, faults>>

HangUpCall ==
    /\ media = "live"
    /\ EndMedia
    /\ UNCHANGED <<threadVars, beatVars, flagVars, storeVars, wireVars,
                   serverVars, faults>>

--------------------------------------------------------------------------------
(* Discord and the network *)

SrvIdentify ==
    /\ phase = "asked" /\ ~silent /\ req_session = 0
    /\ ~Bot \/ Granted \/ intents_denied
    /\ issued + 1 \in Sessions
    /\ issued' = issued + 1
    /\ live' = live \union {issued + 1}
    /\ log' = [log EXCEPT ![issued + 1] = 1]
    /\ \/ named' = named \union {issued + 1}
       \/ named' = named
    /\ phase' = "serve" /\ bound' = issued + 1 /\ next' = 1
    /\ UNCHANGED <<threadVars, beatVars, flagVars, storeVars, mediaVars, silent,
                   at, req_session, req_seq, faults>>

\* A bot that asked for intents it was not granted is closed with 4014.
SrvDeny ==
    /\ phase = "asked" /\ ~silent /\ req_session = 0
    /\ Bot /\ ~Granted /\ ~intents_denied
    /\ close_status' = 4014
    /\ Hangup
    /\ UNCHANGED <<pc, running, want_resume, session_id, resume_url, sequence,
                   had_session, backoff_ms, dispatching, taken, beatVars,
                   flagVars, storeVars, mediaVars, serverVars, faults>>

SrvResume ==
    /\ phase = "asked" /\ ~silent
    /\ req_session \in live /\ at = Home(req_session)
    /\ phase' = "replay" /\ bound' = req_session /\ next' = req_seq + 1
    /\ UNCHANGED <<threadVars, beatVars, flagVars, storeVars, mediaVars, silent,
                   at, req_session, req_seq, serverVars, faults>>

SrvRefuse ==
    /\ phase = "asked" /\ ~silent /\ req_session # 0
    /\ req_session \notin live \/ at # Home(req_session)
    /\ phase' = "refused"
    /\ UNCHANGED <<threadVars, beatVars, flagVars, storeVars, mediaVars, silent,
                   at, req_session, req_seq, bound, next, serverVars, faults>>

\* Something happens in the account while the session lives, connected or not.
SrvEvent(s) ==
    /\ s \in live
    /\ log[s] < MaxSeq
    /\ log' = [log EXCEPT ![s] = @ + 1]
    /\ UNCHANGED <<threadVars, beatVars, flagVars, storeVars, mediaVars, wireVars,
                   live, issued, named, faults>>

\* Discord gives a session up; a socket that still serves it is told so.
SrvExpire(s) ==
    /\ s \in live
    /\ Fault
    /\ live' = live \ {s}
    /\ phase' = IF phase \in {"replay", "serve"} /\ bound = s
                THEN "refused" ELSE phase
    /\ UNCHANGED <<threadVars, beatVars, flagVars, storeVars, mediaVars, silent,
                   at, req_session, req_seq, bound, next, log, issued, named>>

LinkDrop ==
    /\ phase # "none"
    /\ Fault
    /\ Hangup
    /\ UNCHANGED <<threadVars, beatVars, flagVars, storeVars, mediaVars,
                   serverVars>>

\* The socket stays open and carries nothing any more.
LinkSilent ==
    /\ phase # "none" /\ ~silent
    /\ MaySilenceEarly \/ phase # "greet"
    /\ Fault
    /\ silent' = TRUE
    /\ UNCHANGED <<threadVars, beatVars, flagVars, storeVars, mediaVars, phase,
                   at, req_session, req_seq, bound, next, serverVars>>

--------------------------------------------------------------------------------
GatewayThread ==
    \/ ConnectOk \/ WaitDone \/ ThreadExit \/ LoopEnd \/ RecvHello
    \/ TakeDispatch \/ FoldDispatch \/ RecvResumed \/ RecvInvalid(FALSE)

HeartbeatThread == HbArm \/ HbTimeout \/ HbClose

Discord == SrvIdentify \/ SrvDeny \/ SrvResume \/ SrvRefuse

Next ==
    \/ Start \/ (\E keep \in BOOLEAN : Stop(keep)) \/ StopEnd
    \/ Detach \/ LoginDone
    \/ GatewayThread \/ ConnectFail \/ RecvReconnect \/ RecvInvalid(TRUE)
    \/ RecvAck
    \/ HeartbeatThread
    \/ StartCall \/ HangUpCall
    \/ Discord
    \/ \E s \in Sessions : SrvEvent(s) \/ SrvExpire(s)
    \/ LinkDrop \/ LinkSilent

Spec == Init /\ [][Next]_vars

\* The threads are scheduled, a message on a working socket arrives, Discord
\* answers what it is asked, and stop_conn comes back from its waits.
Fairness ==
    /\ WF_vars(GatewayThread)
    /\ WF_vars(HbArm) /\ WF_vars(HbTimeout) /\ WF_vars(HbClose)
    /\ WF_vars(RecvAck)
    /\ WF_vars(Discord)
    /\ WF_vars(StopEnd)

FairSpec == Spec /\ Fairness

--------------------------------------------------------------------------------
(* Properties *)

FlagsTypeOK ==
    /\ running \in BOOLEAN /\ want_resume \in BOOLEAN
    /\ had_session \in BOOLEAN /\ dispatching \in BOOLEAN
    /\ acked \in BOOLEAN /\ silent \in BOOLEAN
    /\ hold_media \in BOOLEAN /\ intents_denied \in BOOLEAN

ConnTypeOK ==
    /\ pc \in {"off", "connect", "recv", "fold", "wait", "exited"}
    /\ session_id \in Sessions \union {0}
    /\ resume_url \in Sessions \union {0}
    /\ taken \in Sessions \union {0}
    /\ sequence \in 0..MaxSeq
    /\ backoff_ms \in BackoffSteps
    /\ close_status \in {0, 4014}

ClientTypeOK ==
    /\ heartbeat_ms \in {0, Interval}
    /\ hb \in {"poll", "armed", "closing"}
    /\ state \in {"OFFLINE", "CONNECTING", "IDENTIFYING", "READY", "RECONNECTING"}
    /\ store_session \in Sessions \union {0} /\ store_seq \in 0..MaxSeq
    /\ media \in {"none", "live"} /\ call_session \in Sessions \union {0}

WireTypeOK ==
    /\ phase \in {"none", "greet", "asked", "replay", "serve", "refused"}
    /\ at \in Sessions \union {0}
    /\ req_session \in Sessions \union {0} /\ req_seq \in 0..MaxSeq
    /\ bound \in Sessions \union {0} /\ next \in 0..(MaxSeq + 1)

DiscordTypeOK ==
    /\ live \in SUBSET Sessions /\ named \in SUBSET Sessions
    /\ log \in [Sessions -> 0..MaxSeq]
    /\ issued \in 0..(MaxFaults + 1)
    /\ faults \in 0..MaxFaults

\* gw_conn as the code can leave it, whatever the bounds: backoff_ms takes no
\* value but the steps of its doubling, and no counter leaves its range.
TypeOK == FlagsTypeOK /\ ConnTypeOK /\ ClientTypeOK /\ WireTypeOK /\ DiscordTypeOK

\* The store is a prefix of one session's dispatches: handle_payload and
\* handle_dispatch fold each of them once and in order, whatever sockets they
\* came over, and a new session starts over at its READY.
Stream == INSTANCE SessionStream WITH session <- store_session,
                                      applied <- store_seq
StoreFollowsStream == Stream!StreamSpec

\* The gateway identifies afresh, which throws the store away, only once
\* Discord has given up the session the store was built from.
NeverAbandons ==
    phase = "asked" /\ req_session = 0 /\ dispatching
        => store_session \notin live

\* After READY the call that is up is one of the session now served: a call
\* whose session was replaced was ended by LoopEnd or by handle_ready.
MediaFollowsSession ==
    phase = "serve" /\ pc = "recv" /\ next > 1 /\ media = "live"
        => call_session = bound

\* A lost socket does not end a call that its session could have kept: only
\* hanging up, signing out or the session's own end does.
CallSurvivesSocket ==
    [][LoopEnd \/ FoldDispatch
        => (media = "live" /\ media' = "none" => call_session \notin live)]_vars

\* "A resume that worked is a connection that worked": once READY or RESUMED
\* was answered, the wait before the next attempt is a second again.
WorkingMeansSecond ==
    phase = "serve" /\ pc = "recv" /\ next > 1 => backoff_ms = 1000

\* A socket that went silent is closed, so that its place can be taken: the
\* heartbeat is the only thing that watches, receive() has no deadline.
SilenceEnds == silent ~> ~silent

\* Once the faults stop, a client that is signed in is READY and has every
\* dispatch of its session.
EventuallyCaughtUp ==
    []<>(running /\ dispatching => /\ state = "READY"
                                   /\ store_session # 0
                                   /\ store_seq = log[store_session])
================================================================================
