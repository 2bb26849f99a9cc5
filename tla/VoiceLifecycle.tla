----------------------------- MODULE VoiceLifecycle ----------------------------
(***************************************************************************)
(* A call's connection being built, kept, rebuilt and taken apart          *)
(* (discord/voice.cpp): join and leave on the interface's thread, the two  *)
(* voice dispatches on the gateway's, the voice websocket threads, and the *)
(* rejoin threads that bring a call back after close code 4014.  All of    *)
(* them share the globals below; only g_life_lock keeps a start and a stop *)
(* apart, and a stop waits for the websocket thread while holding it.      *)
(*                                                                         *)
(* The gateway's side of Discord (who is in which channel) and the voice   *)
(* server are external.  A voice session and a voice server are numbered   *)
(* in the order Discord hands them out.                                    *)
(***************************************************************************)
EXTENDS Naturals, Sequences, FiniteSets

CONSTANTS
    Channels,       \* voice channels, numbers from 1
    MaxOps,         \* bound: joins and leaves of the person
    MaxMoves,       \* bound: moves and kicks by a moderator
    MaxUpsets,      \* bound: sockets that die, gateway sessions that are lost
    MaxResumes,     \* the code's 4: attempts to resume one dead socket
    MaxRejoins,     \* the code's 3: rejoins allowed inside two minutes
    MaxLate         \* bound: limited waits that run out before what they wait for

ASSUME ChannelsAssumption == Channels \subseteq Nat \ {0}
ASSUME LimitsAssumption ==
    /\ MaxOps \in Nat /\ MaxMoves \in Nat /\ MaxUpsets \in Nat
    /\ MaxResumes \in Nat /\ MaxRejoins \in Nat /\ MaxLate \in Nat

VARIABLES
    g_running, g_session_ready, g_generation, g_channel_id, g_voice_session,
    g_endpoint, g_have_server, g_have_state, g_stop_event,
    g_ws_thread,    \* the websocket thread a stop will wait for, 0 for none
    g_rejoining, g_rejoins,
    life,           \* who holds g_life_lock
    st, job,        \* where each caller is, and what it was asked to do
    ws,             \* the websocket threads that were created
    \* Discord
    dchan, dsess, dend, inbox, gwup,
    want,           \* where the person last said they want to be
    ops, moves, upsets, late,
    \* history, which no action reads: what the properties except
    leftBehind,     \* a stop gave up waiting for the websocket thread
    overtook,       \* a call ended or began under a rejoin about to act on it
    refused         \* a call that was up could not reach its voice server

callVars    == <<g_running, g_session_ready, g_generation, g_channel_id,
                 g_voice_session, g_endpoint, g_have_server, g_have_state,
                 g_stop_event, g_ws_thread>>
rejoinVars  == <<g_rejoining, g_rejoins>>
callerVars  == <<st, job>>
discordVars == <<dchan, dsess, dend, inbox, gwup>>
boundVars   == <<ops, moves, upsets>>
pastVars    == <<late, leftBehind, overtook, refused>>
vars == <<callVars, rejoinVars, life, callerVars, ws, discordVars, want, boundVars,
          pastVars>>

Rejoiners == {"rj1", "rj2"}
Callers == {"ui", "gw"} \union Rejoiners
Slots == 1..3
NoJob == [op |-> "none", chan |-> 0, era |-> 0]
NoWs == [pc |-> "none", url |-> 0, sess |-> 0, attempt |-> 0,
         ever |-> FALSE, opened |-> FALSE, code |-> 0]

Init ==
    /\ g_running = FALSE /\ g_session_ready = FALSE /\ g_generation = 0
    /\ g_channel_id = 0 /\ g_voice_session = 0 /\ g_endpoint = 0
    /\ g_have_server = FALSE /\ g_have_state = FALSE /\ g_stop_event = FALSE
    /\ g_ws_thread = 0
    /\ g_rejoining = FALSE /\ g_rejoins = 0
    /\ life = "free"
    /\ st = [t \in Callers |-> "idle"] /\ job = [t \in Callers |-> NoJob]
    /\ ws = [i \in Slots |-> NoWs]
    /\ dchan = 0 /\ dsess = 0 /\ dend = 0 /\ inbox = <<>> /\ gwup = "up"
    /\ want = 0
    /\ ops = 0 /\ moves = 0 /\ upsets = 0
    /\ late = 0 /\ leftBehind = FALSE /\ overtook = FALSE /\ refused = FALSE

--------------------------------------------------------------------------------
(* Discord, as op 4 and the voice dispatches show it *)

State(c, s) == [kind |-> "state", chan |-> c, val |-> s]
Server(e)   == [kind |-> "server", chan |-> 0, val |-> e]

\* gateway::update_voice_state.  Asking for the channel one is in is no change
\* and brings no answer; with the gateway down it goes nowhere.
Op4(c) ==
    IF gwup # "up" \/ c = dchan
    THEN UNCHANGED discordVars
    ELSE /\ dchan' = c
         /\ IF c = 0
            THEN /\ inbox' = Append(inbox, State(0, 0))
                 /\ UNCHANGED <<dsess, dend>>
            ELSE /\ dsess' = dsess + 1 /\ dend' = dend + 1
                 /\ inbox' = inbox \o <<State(c, dsess + 1), Server(dend + 1)>>
         /\ UNCHANGED gwup

--------------------------------------------------------------------------------
(* stop_voice_connection and start_voice_connection *)

Goto(t, s) == st' = [st EXCEPT ![t] = s]

\* The call a caller makes next: op says what it does once the stop is over.
Call(t, op, c) ==
    /\ Goto(t, "call")
    /\ job' = [job EXCEPT ![t].op = op, ![t].chan = c]

Finish(t) ==
    /\ Goto(t, "idle")
    /\ job' = [job EXCEPT ![t] = NoJob]

\* ws.close: who reads the socket finds it closed; who is still opening it has
\* nothing yet that could be closed.
ClosedLate(w) == w
Closed(w) == IF w.pc = "ready" THEN [w EXCEPT !.pc = "dying", !.code = 0] ELSE w

\* life_guard: a plain critical section.  The threads a stop waits for never take
\* it, and neither does a rejoin that rebuilds.
LockNone == TRUE
LockFree == life = "free"

\* For the history only: a rejoin that comes into being, or that has just found
\* the call to be its own and is going to rebuild it.  The lock does not stop a
\* start or stop that comes in between.
AboutToAct ==
    \/ \E j \in Rejoiners : st[j] \in {"new", "rehand"}
    \/ \E i \in Slots : ws[i].pc = "spawn"

Overtakes ==
    /\ overtook' = (overtook \/ AboutToAct)
    /\ UNCHANGED <<late, leftBehind, refused>>

\* WaitForSingleObject and the polls with a limit: over with what they wait for,
\* or, on a slow day, before it.
Waited(for) ==
    \/ for /\ UNCHANGED late
    \/ ~for /\ late < MaxLate /\ late' = late + 1

StopEnter(t) ==
    /\ st[t] = "call" /\ LockFree
    /\ IF g_running
       THEN /\ life' = t
            /\ g_running' = FALSE
            /\ g_generation' = g_generation + 1
            /\ g_session_ready' = FALSE
            /\ g_stop_event' = TRUE
            /\ ws' = [i \in Slots |-> Closed(ws[i])]
            /\ Goto(t, "reap")
            /\ Overtakes
       ELSE /\ Goto(t, "after")
            /\ UNCHANGED <<life, g_running, g_generation, g_session_ready,
                           g_stop_event, ws, pastVars>>
    /\ UNCHANGED <<g_channel_id, g_voice_session, g_endpoint, g_have_server,
                   g_have_state, g_ws_thread, rejoinVars, job, discordVars, want,
                   boundVars>>

\* The websocket thread is over, so what it used is cleared.  A move keeps the
\* server, since inside a guild no second one will come.
KeepsServer(t) == job[t].op = "moved"

HandleAfterStop == 0

Reaped == g_ws_thread # 0 => ws[g_ws_thread].pc = "exited"

StopReap(t) ==
    /\ st[t] = "reap"
    /\ Waited(Reaped)
    /\ leftBehind' = (leftBehind \/ ~Reaped)
    /\ ws' = [i \in Slots |-> IF i = g_ws_thread /\ Reaped THEN NoWs ELSE ws[i]]
    /\ g_ws_thread' = HandleAfterStop
    /\ IF KeepsServer(t)
       THEN UNCHANGED <<g_have_server, g_endpoint>>
       ELSE g_have_server' = FALSE /\ g_endpoint' = 0
    /\ g_have_state' = FALSE
    /\ life' = "free"
    /\ Goto(t, "after")
    /\ UNCHANGED <<g_running, g_session_ready, g_generation, g_channel_id,
                   g_voice_session, g_stop_event, rejoinVars, job, discordVars,
                   want, boundVars, overtook, refused>>

\* A slot no thread has: the first, since they differ in name only.
Free(i) == ws[i].pc = "none" /\ \A k \in Slots : k < i => ws[k].pc # "none"

\* CreateThread(voice_ws_thread)
NewWs(i) ==
    /\ Free(i)
    /\ g_ws_thread' = i
    /\ ws' = [ws EXCEPT ![i] = [NoWs EXCEPT !.pc = "new"]]

\* Both halves are here and no call is up: only the first complete pair starts.
Starts == g_have_server /\ g_have_state /\ ~g_running

StartVoice ==
    /\ st["gw"] = "start" /\ LockFree
    /\ IF Starts
       THEN /\ g_running' = TRUE
            /\ g_stop_event' = FALSE
            /\ g_generation' = g_generation + 1
            /\ \E i \in Slots : NewWs(i)
            /\ Overtakes
       ELSE UNCHANGED <<g_running, g_stop_event, g_generation, g_ws_thread, ws,
                        pastVars>>
    /\ Finish("gw")
    /\ UNCHANGED <<g_session_ready, g_channel_id, g_voice_session, g_endpoint,
                   g_have_server, g_have_state, rejoinVars, life, discordVars,
                   want, boundVars>>

--------------------------------------------------------------------------------
(* The interface: voice::join and voice::leave *)

\* join into the channel one is already in does nothing.
Joins(c) == ~(g_channel_id = c /\ g_running)

UiJoin(c) ==
    /\ st["ui"] = "idle" /\ ops < MaxOps
    /\ ops' = ops + 1
    /\ IF Joins(c) THEN Call("ui", "join", c) ELSE UNCHANGED callerVars
    /\ UNCHANGED <<callVars, rejoinVars, life, ws, discordVars, want, moves, upsets,
                   pastVars>>

UiLeave ==
    /\ st["ui"] = "idle" /\ ops < MaxOps
    /\ g_channel_id # 0
    /\ ops' = ops + 1
    /\ Call("ui", "leave", 0)
    /\ UNCHANGED <<callVars, rejoinVars, life, ws, discordVars, want, moves, upsets,
                   pastVars>>

\* The rest of join, on the interface's thread or on a rejoin's.
JoinAfter(t) ==
    /\ st[t] = "after" /\ job[t].op = "join"
    /\ g_channel_id' = job[t].chan
    /\ Op4(job[t].chan)
    /\ want' = IF t = "ui" THEN job[t].chan ELSE want
    /\ g_rejoining' = (g_rejoining /\ t \notin Rejoiners)
    /\ Finish(t)
    /\ UNCHANGED <<g_running, g_session_ready, g_generation, g_voice_session,
                   g_endpoint, g_have_server, g_have_state, g_stop_event,
                   g_ws_thread, g_rejoins, life, ws, boundVars, pastVars>>

LeaveAfter ==
    /\ st["ui"] = "after" /\ job["ui"].op = "leave"
    /\ g_channel_id' = 0
    /\ Op4(0)
    /\ want' = 0
    /\ Finish("ui")
    /\ UNCHANGED <<g_running, g_session_ready, g_generation, g_voice_session,
                   g_endpoint, g_have_server, g_have_state, g_stop_event,
                   g_ws_thread, rejoinVars, life, ws, boundVars, pastVars>>

--------------------------------------------------------------------------------
(* The gateway thread: on_gateway_voice_state, on_gateway_voice_server *)

\* What a state with a channel in it does: nothing if it is the session in use,
\* a restart if somebody moved us, otherwise half of a new pair.
IsMove(c) == g_running /\ g_channel_id # 0 /\ g_channel_id # c

GwState ==
    LET m == Head(inbox) IN
    /\ st["gw"] = "idle" /\ inbox # <<>> /\ m.kind = "state"
    /\ inbox' = Tail(inbox)
    /\ IF m.chan = 0
       THEN /\ IF g_channel_id # 0 THEN Call("gw", "kicked", 0)
                                   ELSE UNCHANGED callerVars
            /\ UNCHANGED <<g_channel_id, g_voice_session, g_have_state>>
       ELSE /\ g_channel_id' = m.chan
            /\ IF ~IsMove(m.chan) /\ g_running /\ g_voice_session = m.val
               THEN UNCHANGED <<g_voice_session, g_have_state, callerVars>>
               ELSE /\ g_voice_session' = m.val
                    /\ g_have_state' = TRUE
                    /\ IF IsMove(m.chan)
                       THEN Call("gw", "moved", m.chan)
                       ELSE Goto("gw", "start") /\ UNCHANGED job
    /\ UNCHANGED <<g_running, g_session_ready, g_generation, g_endpoint,
                   g_have_server, g_stop_event, g_ws_thread, rejoinVars, life, ws,
                   dchan, dsess, dend, gwup, want, boundVars,
                   pastVars>>

KickedAfter ==
    /\ st["gw"] = "after" /\ job["gw"].op = "kicked"
    /\ g_channel_id' = 0
    /\ Finish("gw")
    /\ UNCHANGED <<g_running, g_session_ready, g_generation, g_voice_session,
                   g_endpoint, g_have_server, g_have_state, g_stop_event,
                   g_ws_thread, rejoinVars, life, ws, discordVars, want, boundVars,
                   pastVars>>

\* "Put back what the stop just took away", then start again.
MovedAfter ==
    /\ st["gw"] = "after" /\ job["gw"].op = "moved"
    /\ g_have_state' = TRUE
    /\ Goto("gw", "start")
    /\ UNCHANGED <<g_running, g_session_ready, g_generation, g_channel_id,
                   g_voice_session, g_endpoint, g_have_server, g_stop_event,
                   g_ws_thread, rejoinVars, life, job, ws, discordVars, want,
                   boundVars, pastVars>>

GwServer ==
    LET m == Head(inbox) IN
    /\ st["gw"] = "idle" /\ inbox # <<>> /\ m.kind = "server"
    /\ inbox' = Tail(inbox)
    /\ g_endpoint' = m.val
    /\ g_have_server' = TRUE
    /\ Goto("gw", "start")
    /\ UNCHANGED <<g_running, g_session_ready, g_generation, g_channel_id,
                   g_voice_session, g_have_state, g_stop_event, g_ws_thread,
                   rejoinVars, life, job, ws, dchan, dsess, dend, gwup, want,
                   boundVars, pastVars>>

\* on_gateway_disconnected, which a lost session brings twice: from the end of
\* the receive loop and from handle_ready, just before the gateway is READY.  A
\* call whose socket is not ready is left to the recovery that owns it.
NextUp == IF gwup = "lost" THEN "back" ELSE "up"

GwLost ==
    /\ st["gw"] = "idle" /\ gwup # "up"
    /\ IF g_running /\ g_channel_id # 0 /\ ~g_session_ready
       THEN gwup' = NextUp /\ UNCHANGED callerVars
       ELSE Call("gw", "lost", 0) /\ UNCHANGED gwup
    /\ UNCHANGED <<callVars, rejoinVars, life, ws, dchan, dsess, dend, inbox, want,
                   boundVars, pastVars>>

LostAfter ==
    /\ st["gw"] = "after" /\ job["gw"].op = "lost"
    /\ gwup' = NextUp
    /\ Finish("gw")
    /\ UNCHANGED <<callVars, rejoinVars, life, ws, dchan, dsess, dend, inbox, want,
                   boundVars, pastVars>>

--------------------------------------------------------------------------------
(* voice_ws_thread *)

SetWs(i, r) == ws' = [ws EXCEPT ![i] = r]

WsBegin(i) ==
    /\ ws[i].pc = "new"
    /\ SetWs(i, [ws[i] EXCEPT !.pc = "connect", !.url = g_endpoint])
    /\ UNCHANGED <<callVars, rejoinVars, life, callerVars, discordVars, want,
                   boundVars, pastVars>>

\* The voice server takes the session Discord last gave out, on the server it
\* gave it out for, and voids any other with 4006.
Accepted(i) ==
    dchan # 0 /\ g_voice_session = dsess /\ ws[i].url = dend

\* Hello, identify or resume, and the media handshake or RESUMED.
WsOpen(i) ==
    /\ ws[i].pc = "connect" /\ g_running
    /\ IF Accepted(i)
       THEN /\ SetWs(i, [ws[i] EXCEPT !.pc = "ready", !.sess = dsess,
                                      !.opened = TRUE, !.code = 0])
            /\ g_session_ready' = TRUE
       ELSE /\ SetWs(i, [ws[i] EXCEPT !.pc = "dying", !.opened = TRUE,
                                      !.code = 4006])
            /\ UNCHANGED g_session_ready
    /\ UNCHANGED <<g_running, g_generation, g_channel_id, g_voice_session,
                   g_endpoint, g_have_server, g_have_state, g_stop_event,
                   g_ws_thread, rejoinVars, life, callerVars, discordVars, want,
                   boundVars, pastVars>>

\* The socket does not open; a thread that was already told to stop also ends
\* its connect here.
WsFail(i) ==
    /\ ws[i].pc = "connect"
    /\ refused' = (refused \/ g_running)
    /\ SetWs(i, [ws[i] EXCEPT !.pc = "dying", !.opened = FALSE])
    /\ UNCHANGED <<callVars, rejoinVars, life, callerVars, discordVars, want,
                   boundVars, late, leftBehind, overtook>>

WsDrop(i) ==
    /\ ws[i].pc = "ready" /\ upsets < MaxUpsets
    /\ upsets' = upsets + 1
    /\ SetWs(i, [ws[i] EXCEPT !.pc = "dying", !.code = 1006])
    /\ UNCHANGED <<callVars, rejoinVars, life, callerVars, discordVars, want, ops,
                   moves, pastVars>>

\* The session the voice server knew is not the one Discord has for us now, so
\* it says 4014.
Over(i) == dchan = 0 \/ dsess # ws[i].sess

WsEnded(i) ==
    /\ ws[i].pc = "ready" /\ Over(i)
    /\ SetWs(i, [ws[i] EXCEPT !.pc = "dying", !.code = 4014])
    /\ UNCHANGED <<callVars, rejoinVars, life, callerVars, discordVars, want,
                   boundVars, pastVars>>

\* close_worth_resuming, of the codes modelled.
WorthResuming(i) == ~ws[i].opened \/ ws[i].code = 1006

\* A connection that authenticated earns the budget back.
SpentNever(i) == 0
Spent(i) == IF g_session_ready THEN 0 ELSE ws[i].attempt

WsDying(i) ==
    LET ever    == ws[i].ever \/ g_session_ready
        attempt == Spent(i)
        worth   == /\ g_running /\ ever /\ attempt < MaxResumes
                   /\ WorthResuming(i)
    IN
    /\ ws[i].pc = "dying"
    /\ g_session_ready' = FALSE
    /\ SetWs(i, [ws[i] EXCEPT !.ever = ever,
                              !.attempt = IF worth THEN attempt + 1 ELSE attempt,
                              !.pc = IF worth THEN "wait" ELSE "end"])
    /\ UNCHANGED <<g_running, g_generation, g_channel_id, g_voice_session,
                   g_endpoint, g_have_server, g_have_state, g_stop_event,
                   g_ws_thread, rejoinVars, life, callerVars, discordVars, want,
                   boundVars, pastVars>>

WsWait(i) ==
    /\ ws[i].pc = "wait"
    /\ SetWs(i, [ws[i] EXCEPT !.pc = IF g_stop_event THEN "end" ELSE "connect"])
    /\ UNCHANGED <<callVars, rejoinVars, life, callerVars, discordVars, want,
                   boundVars, pastVars>>

GoodbyeNever(i) == FALSE
Goodbye(i) == ws[i].code = 4006

\* After the loop: the goodbye that a 4006 needs, and whether to come back.  Two
\* quiet minutes give rejoin_allowed its budget back.
ComesBack(i) == ws[i].code = 4014 /\ g_running /\ g_channel_id # 0

WsEnd(i) ==
    /\ ws[i].pc = "end"
    /\ IF Goodbye(i)
       THEN g_voice_session' = 0 /\ Op4(0)
       ELSE UNCHANGED <<g_voice_session, discordVars>>
    /\ IF ComesBack(i)
       THEN \E quiet \in {q \in BOOLEAN : q => upsets < MaxUpsets} :
              /\ g_rejoins' = IF quiet THEN 1 ELSE g_rejoins + 1
              /\ upsets' = IF quiet THEN upsets + 1 ELSE upsets
              /\ SetWs(i, [ws[i] EXCEPT !.pc = IF g_rejoins' <= MaxRejoins
                                               THEN "spawn" ELSE "exited"])
       ELSE /\ SetWs(i, [ws[i] EXCEPT !.pc = "exited"])
            /\ UNCHANGED <<g_rejoins, upsets>>
    /\ g_session_ready' = FALSE
    /\ UNCHANGED <<g_running, g_generation, g_channel_id, g_endpoint,
                   g_have_server, g_have_state, g_stop_event, g_ws_thread,
                   g_rejoining, life, callerVars, want, ops, moves,
                   pastVars>>

\* CreateThread(rejoin_thread), with the channel as it is by now.
WsSpawn(i) ==
    /\ ws[i].pc = "spawn"
    /\ SetWs(i, [ws[i] EXCEPT !.pc = "exited"])
    /\ \E j \in Rejoiners :
         /\ st[j] = "idle" /\ (j = "rj2" => st["rj1"] # "idle")
         /\ Goto(j, "new")
         /\ job' = [job EXCEPT ![j].chan = g_channel_id]
    /\ UNCHANGED <<callVars, rejoinVars, life, discordVars, want, boundVars,
                   pastVars>>

--------------------------------------------------------------------------------
(* rejoin_thread *)

\* "!g_running || g_channel_id != r->channel || g_generation != era", negated.
StillOurs(j) ==
    g_running /\ g_channel_id = job[j].chan /\ g_generation = job[j].era

\* What a rejoin waits for in vain: a pair that is not coming.  A websocket
\* thread is awaited while it works.
NoneComing == inbox = <<>> /\ st["gw"] = "idle"
Working == g_ws_thread # 0 /\ ws[g_ws_thread].pc \notin {"ready", "exited"}

Cancel(j) == Finish(j) /\ g_rejoining' = FALSE

RjEnter(j) ==
    /\ st[j] = "new"
    /\ IF g_rejoining
       THEN Finish(j) /\ UNCHANGED g_rejoining
       ELSE /\ g_rejoining' = TRUE
            /\ Goto(j, "ready")
            /\ job' = [job EXCEPT ![j].era = g_generation]
    /\ UNCHANGED <<callVars, g_rejoins, life, ws, discordVars, want, boundVars,
                   pastVars>>

\* The gateway is READY, or ten seconds passed: announce the same channel.
RjAnnounce(j) ==
    /\ st[j] = "ready"
    /\ Waited(gwup = "up" \/ ~g_running)
    /\ IF StillOurs(j)
       THEN /\ g_have_server' = FALSE /\ g_have_state' = FALSE
            /\ Op4(job[j].chan)
            /\ Goto(j, "pair")
            /\ UNCHANGED <<job, g_rejoining>>
       ELSE Cancel(j) /\ UNCHANGED <<g_have_server, g_have_state, discordVars>>
    /\ UNCHANGED <<g_running, g_session_ready, g_generation, g_channel_id,
                   g_voice_session, g_endpoint, g_stop_event, g_ws_thread,
                   g_rejoins, life, ws, want, boundVars, leftBehind, overtook,
                   refused>>

RjPair(j) ==
    /\ st[j] = "pair"
    /\ \/ /\ ~StillOurs(j)
          /\ Cancel(j) /\ UNCHANGED late
       \/ /\ StillOurs(j) /\ g_have_server /\ g_have_state
          /\ Goto(j, "rehand") /\ UNCHANGED <<job, g_rejoining, late>>
       \/ /\ StillOurs(j) /\ ~(g_have_server /\ g_have_state)
          /\ Waited(NoneComing)
          /\ Goto(j, "check") /\ UNCHANGED <<job, g_rejoining>>
    /\ UNCHANGED <<callVars, g_rejoins, life, ws, discordVars, want, boundVars,
                   leftBehind, overtook, refused>>

\* rehandshake_voice: outside g_life_lock.  It reaps the thread that died and
\* creates another; if that handle is a living thread's, four seconds pass and
\* the handle is overwritten all the same.
Rehandshake(j) ==
    /\ st[j] = "rehand"
    /\ Waited(~Working)
    /\ \E i \in Slots :
         /\ Free(i)
         /\ ws' = [k \in Slots |->
                     IF k = i THEN [NoWs EXCEPT !.pc = "new"]
                     ELSE IF k = g_ws_thread /\ Reaped THEN NoWs ELSE ws[k]]
         /\ g_ws_thread' = i
    /\ Goto(j, "up")
    /\ UNCHANGED <<g_running, g_session_ready, g_generation, g_channel_id,
                   g_voice_session, g_endpoint, g_have_server, g_have_state,
                   g_stop_event, rejoinVars, life, job, discordVars, want,
                   boundVars, leftBehind, overtook, refused>>

RjUp(j) ==
    /\ st[j] = "up"
    /\ g_rejoining' = FALSE
    /\ \/ (~StillOurs(j) \/ g_session_ready) /\ Finish(j) /\ UNCHANGED late
       \/ /\ StillOurs(j) /\ ~g_session_ready
          /\ Waited(~Working)
          /\ Goto(j, "check") /\ UNCHANGED job
    /\ UNCHANGED <<callVars, g_rejoins, life, ws, discordVars, want, boundVars,
                   leftBehind, overtook, refused>>

RjCheck(j) ==
    /\ st[j] = "check"
    /\ IF StillOurs(j)
       THEN Call(j, "heavy", job[j].chan) /\ UNCHANGED g_rejoining
       ELSE Cancel(j)
    /\ UNCHANGED <<callVars, g_rejoins, life, ws, discordVars, want, boundVars,
                   pastVars>>

\* Everything was taken apart: leave for real, so that joining is a change.
HeavyAfter(j) ==
    /\ st[j] = "after" /\ job[j].op = "heavy"
    /\ g_voice_session' = 0
    /\ Op4(0)
    /\ Goto(j, "slept")
    /\ UNCHANGED <<g_running, g_session_ready, g_generation, g_channel_id,
                   g_endpoint, g_have_server, g_have_state, g_stop_event,
                   g_ws_thread, rejoinVars, life, job, ws, want, boundVars,
                   pastVars>>

\* 600 ms later, if nobody else has started or stopped anything: join.
RjReturn(j) ==
    /\ st[j] = "slept"
    /\ IF /\ g_generation = job[j].era + 1 /\ g_channel_id = job[j].chan
          /\ Joins(job[j].chan)
       THEN Call(j, "join", job[j].chan) /\ UNCHANGED g_rejoining
       ELSE Cancel(j)
    /\ UNCHANGED <<callVars, g_rejoins, life, ws, discordVars, want, boundVars,
                   pastVars>>

--------------------------------------------------------------------------------
(* What Discord and others do to the call *)

Kick ==
    /\ dchan # 0 /\ gwup = "up" /\ moves < MaxMoves
    /\ moves' = moves + 1
    /\ dchan' = 0
    /\ inbox' = Append(inbox, State(0, 0))
    /\ want' = 0
    /\ UNCHANGED <<callVars, rejoinVars, life, callerVars, ws, dsess, dend, gwup,
                   ops, upsets, pastVars>>

\* The voice server stays, or a new one follows because the channel is elsewhere.
Move(c, across) ==
    /\ dchan \notin {0, c} /\ gwup = "up" /\ moves < MaxMoves
    /\ moves' = moves + 1
    /\ dchan' = c
    /\ dsess' = dsess + 1
    /\ IF across
       THEN /\ dend' = dend + 1
            /\ inbox' = inbox \o <<State(c, dsess + 1), Server(dend + 1)>>
       ELSE inbox' = Append(inbox, State(c, dsess + 1)) /\ UNCHANGED dend
    /\ want' = c
    /\ UNCHANGED <<callVars, rejoinVars, life, callerVars, ws, gwup, ops, upsets,
                   pastVars>>

\* The gateway session that put us in the channel is gone, and our place in
\* the channel with it; what was still on its way is lost too.
GatewaySessionLost ==
    /\ gwup = "up" /\ upsets < MaxUpsets
    /\ upsets' = upsets + 1
    /\ gwup' = "lost"
    /\ dchan' = 0
    /\ inbox' = <<>>
    /\ UNCHANGED <<callVars, rejoinVars, life, callerVars, ws, dsess, dend, want,
                   ops, moves, pastVars>>

--------------------------------------------------------------------------------
Ui == \/ (\E c \in Channels : UiJoin(c)) \/ UiLeave \/ LeaveAfter
      \/ StopEnter("ui") \/ StopReap("ui") \/ JoinAfter("ui")

Gateway == \/ GwState \/ GwServer \/ StartVoice \/ KickedAfter \/ MovedAfter
           \/ GwLost \/ LostAfter \/ StopEnter("gw") \/ StopReap("gw")

WsThread(i) == \/ WsBegin(i) \/ WsOpen(i) \/ WsFail(i) \/ WsDrop(i) \/ WsEnded(i)
               \/ WsDying(i) \/ WsWait(i) \/ WsEnd(i) \/ WsSpawn(i)

Rejoin(j) == \/ RjEnter(j) \/ RjAnnounce(j) \/ RjPair(j) \/ Rehandshake(j)
             \/ RjUp(j) \/ RjCheck(j) \/ HeavyAfter(j) \/ RjReturn(j)
             \/ StopEnter(j) \/ StopReap(j) \/ JoinAfter(j)

Others == \/ Kick \/ GatewaySessionLost
          \/ \E c \in Channels, across \in BOOLEAN : Move(c, across)

Next ==
    \/ Ui \/ Gateway
    \/ (\E i \in Slots : WsThread(i))
    \/ (\E j \in Rejoiners : Rejoin(j))
    \/ Others

Spec == Init /\ [][Next]_vars

(* Threads run, waits end, connects are answered or fail, a socket whose session *)
(* is over is closed.  Nobody has to press anything, and no socket has to die.  *)
UiGoesOn == LeaveAfter \/ StopEnter("ui") \/ StopReap("ui") \/ JoinAfter("ui")

WsGoesOn(i) == \/ WsBegin(i) \/ WsOpen(i) \/ WsFail(i) \/ WsEnded(i)
               \/ WsDying(i) \/ WsWait(i) \/ WsEnd(i) \/ WsSpawn(i)

Fairness ==
    /\ WF_vars(UiGoesOn) /\ WF_vars(Gateway)
    /\ \A i \in Slots : WF_vars(WsGoesOn(i))
    /\ \A j \in Rejoiners : WF_vars(Rejoin(j))

FairSpec == Spec /\ Fairness

--------------------------------------------------------------------------------
(* Properties *)

WsPcs == {"none", "new", "connect", "ready", "dying", "wait", "end", "spawn", "exited"}
UiStates == {"idle", "call", "reap", "after"}
RejoinStates == UiStates \union {"new", "ready", "pair", "rehand", "up", "check", "slept"}

Ops == {"none", "join", "leave", "kicked", "moved", "lost", "heavy"}
Jobs == [op : Ops, chan : Nat, era : Nat]
WsThreads == [pc : WsPcs, url : Nat, sess : Nat, attempt : Nat, ever : BOOLEAN,
              opened : BOOLEAN, code : {0, 1006, 4006, 4014}]
Messages == [kind : {"state", "server"}, chan : Nat, val : Nat]

CallOK ==
    /\ g_running \in BOOLEAN /\ g_session_ready \in BOOLEAN
    /\ g_have_server \in BOOLEAN /\ g_have_state \in BOOLEAN
    /\ g_stop_event \in BOOLEAN /\ g_rejoining \in BOOLEAN
    /\ g_generation \in Nat /\ g_channel_id \in Nat /\ g_voice_session \in Nat
    /\ g_endpoint \in Nat /\ g_rejoins \in Nat
CallersOK ==
    /\ life \in Callers \union {"free"}
    /\ st \in [Callers -> RejoinStates \union {"start"}]
    /\ st["ui"] \in UiStates /\ st["gw"] \in UiStates \union {"start"}
    /\ job \in [Callers -> Jobs]
SocketsOK ==
    /\ g_ws_thread \in Slots \union {0}
    /\ ws \in [Slots -> WsThreads]
DiscordOK ==
    /\ dchan \in Nat /\ dsess \in Nat /\ dend \in Nat
    /\ inbox \in Seq(Messages) /\ gwup \in {"up", "lost", "back"}

\* Every variable has its type.
TypeOK ==
    /\ CallOK /\ CallersOK /\ SocketsOK /\ DiscordOK
    /\ want \in Nat /\ ops \in Nat /\ moves \in Nat /\ upsets \in Nat
    /\ late \in Nat
    /\ leftBehind \in BOOLEAN /\ overtook \in BOOLEAN /\ refused \in BOOLEAN

\* One socket object serves the call, so at most one thread opens, reads or
\* closes it.  Two things only can break this, and the property names them: a
\* call that ended or began under a rejoin about to act on it, since the rebuild
\* takes no lock, and a stop whose four seconds were over before its thread was.
\* Every other wait may run out, and every connection fail.
OnSocket(i) == ws[i].pc \notin {"none", "new", "spawn", "exited"}
OneSocket ==
    ~overtook /\ ~leftBehind =>
        \A i, j \in Slots : OnSocket(i) /\ OnSocket(j) => i = j

\* Nothing is under way: every caller is back, Discord has said all it had to
\* say, and no websocket thread has anything left to do.
Quiet ==
    /\ \A t \in Callers : st[t] = "idle"
    /\ inbox = <<>> /\ gwup = "up"
    /\ \A i \in Slots : \/ ws[i].pc \in {"none", "exited"}
                       \/ (ws[i].pc = "ready" /\ ~Over(i))

Up == \E i \in Slots : ws[i].pc = "ready" /\ ws[i].sess = dsess /\ ws[i].url = dend

\* After the first join, whatever moderators do to it: when all is quiet, a join
\* that is ignored because the call is already there is ignored for a call that
\* is up, in that channel, in Discord's eyes too.
IgnoredJoinIsUp ==
    Quiet /\ ops <= 1 /\ upsets = 0 /\ late = 0 /\ ~overtook /\ ~refused =>
        \A c \in Channels : ~Joins(c) => Up /\ g_session_ready /\ dchan = c

\* Who was put out of the channel, or left it, stays out. The code does not keep
\* this: the voice socket's 4014 may be handled before the gateway's dispatch.
RemovalIsFinal == Quiet /\ want = 0 => dchan = 0

\* join, leave, a dispatch or a rejoin that began comes to its end: no stop
\* waits for ever on a websocket thread while it holds g_life_lock.
CallsReturn == \A t \in Callers : st[t] # "idle" ~> st[t] = "idle"

\* When no one disturbs the call any more, everything comes to rest: a server
\* that cannot be reached is not tried without end.
EndsQuiet == <>[]Quiet
================================================================================
