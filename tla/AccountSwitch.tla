---------------------------- MODULE AccountSwitch -----------------------------
(***************************************************************************)
(* Two accounts, two gateway connections and one call                      *)
(* (ui/ui.cpp, discord/gateway.cpp, discord/voice.cpp).  Changing accounts *)
(* with a call up does not close the old connection: it steps aside and    *)
(* holds the call, while the new account connects in the other slot.       *)
(*                                                                         *)
(* Threads: the interface ("ui"), the sign-in job ("job"), the voice       *)
(* websocket's thread ("ws"), the rejoin thread ("rj") and one gateway     *)
(* thread for each slot.  A stop of the call waits for "ws" with           *)
(* g_life_lock held; "ws" on its way out waits for the held gateway's      *)
(* thread; and that thread may want g_life_lock.  Each wait has a time     *)
(* limit; here one runs out only when what it waits for is itself waiting. *)
(*                                                                         *)
(* There is one voice channel.  Gateway sessions and voice sessions are    *)
(* numbered as Discord hands them out.  A connection is up as soon as it   *)
(* is started and is resumed when it drops: GatewaySession is about that;  *)
(* how the voice websocket is resumed, VoiceLifecycle.                     *)
(***************************************************************************)
EXTENDS Naturals, Sequences

CONSTANTS
    Accounts,       \* the accounts the client remembers
    First,          \* the one signed in at the start
    NoOne,
    MaxOps,         \* bound: what the person does
    MaxUpsets,      \* bound: calls ended by Discord, sockets refused
    MaxRejoins,     \* the code's 3: returns after 4014
    Hasty           \* a sign-in may be over before the old thread of its slot is

ASSUME FirstAssumption == First \in Accounts /\ NoOne \notin Accounts
ASSUME BoundsAssumption ==
    /\ MaxOps \in Nat /\ MaxUpsets \in Nat /\ MaxRejoins \in Nat
    /\ Hasty \in BOOLEAN

VARIABLES
    conn, inbox,    \* g_conns, and the dispatches on their way to each
    g_active,
    self, data,     \* the store: who is signed in, whose data is in it
    login,          \* the account the sign-in job is for
    call,           \* the globals of voice.cpp
    life,           \* the thread that holds g_life_lock
    st,             \* where each thread is
    op,             \* what the interface is doing
    moved,          \* how far g_generation is past the rejoin's era, 2 for more
    dcall, given,   \* Discord: who is in the channel by which session
    ops, upsets, rejoins

bounds == <<ops, upsets, rejoins>>
store  == <<self, data>>
discord == <<inbox, dcall, given>>
vars == <<conn, g_active, store, login, call, life, st, op, moved, discord, bounds>>

Slots == {"a", "b"}
Threads == Slots \union {"ui", "job", "ws", "rj"}
Other(s) == CHOOSE x \in Slots : x # s

At(t, pc) == st[t].pc = pc
Gone(t)   == At(t, "none")
Goes(t, pc) == st' = [st EXCEPT ![t].pc = pc]
Both(t, pc, x, px) == st' = [st EXCEPT ![t].pc = pc, ![x].pc = px]
\* InterlockedIncrement(&g_generation), as far as a rejoin tells it
MovesOn == moved' = IF moved = 0 THEN 1 ELSE 2
\* goes through pc, and then on to next
Through(t, pc, next, s) == st' = [st EXCEPT ![t] = [pc |-> pc, next |-> next, slot |-> s]]

--------------------------------------------------------------------------------
(* gateway.cpp: the two connections *)

Spare     == Other(g_active)
Holding   == conn[Spare].running
VoiceConn == IF Holding THEN Spare ELSE g_active

Msg(k, u, c, n) == [kind |-> k, user |-> u, chan |-> c, sess |-> n]
NoCall == [by |-> 0, n |-> 0]

\* Every connection of an account is told the account's voice state
Tell(box, u, c, n, at) ==
    [s \in Slots |-> IF at[s].running /\ at[s].user = u
                     THEN Append(box[s], Msg("state", u, c, n)) ELSE box[s]]

\* gateway::update_voice_state on slot s.  A change of channel is answered,
\* asking for the channel this session is already in is not; a session that is
\* not in the call ends nothing by leaving.
Op4(s, c) ==
    LET u == conn[s].user
        mine == dcall[u].by = conn[s].sess
        box == Tell(inbox, u, c, IF c = 0 THEN 0 ELSE given + 1, conn)
    IN IF ~conn[s].running \/ (c = 0 /\ ~mine) \/ (c = 1 /\ mine)
       THEN UNCHANGED discord
       ELSE /\ given' = given + c
            /\ dcall' = [dcall EXCEPT ![u] =
                  IF c = 0 THEN NoCall ELSE [by |-> conn[s].sess, n |-> given + 1]]
            /\ inbox' = IF c = 0 THEN box
                        ELSE [box EXCEPT ![s] = Append(@, Msg("server", u, c, 0))]

\* stop_conn up to its wait: the socket is closed and the session ends with it
Close(s) ==
    LET u == conn[s].user
        shut == [conn EXCEPT ![s].running = FALSE]
        dead == [inbox EXCEPT ![s] = <<>>]
    IN /\ conn' = shut
       /\ UNCHANGED given
       /\ IF dcall[u].by = conn[s].sess
          THEN /\ dcall' = [dcall EXCEPT ![u] = NoCall]
               /\ inbox' = Tell(dead, u, 0, 0, shut)
          ELSE inbox' = dead /\ UNCHANGED dcall

\* gateway::start, the thread included.  Discord sends READY, the account's
\* data, and a session that is not in the call may see the call or not see it.
Start(u) ==
    LET s == g_active
        n == 1 + conn["a"].sess + conn["b"].sess
        seen == IF dcall[u].by = 0 THEN {<<>>}
                ELSE {<<>>, <<Msg("state", u, 1, dcall[u].n)>>, <<Msg("state", u, 0, 0)>>}
    IN IF conn[s].running THEN UNCHANGED <<conn, inbox>> /\ Goes("job", "none")
       ELSE /\ conn' = [conn EXCEPT ![s] =
                  [running |-> TRUE, dispatching |-> TRUE, user |-> u, sess |-> n]]
            /\ \E view \in seen : inbox' = [inbox EXCEPT ![s] = <<Msg("ready", u, 0, 0)>> \o view]
            /\ Both(s, "recv", "job", "none")

--------------------------------------------------------------------------------
(* The call's connection: start and stop, one at a time *)

LifeGuardNone == TRUE        \* Not the code: before the lock, as its comment tells
LifeGuard == life = "free"

\* start_voice_connection on gateway thread s
StartVoice(s) ==
    /\ At(s, "start") /\ LifeGuard
    /\ IF call.server /\ call.state /\ ~call.running
       THEN /\ call' = [call EXCEPT !.running = TRUE]
            /\ Both(s, "recv", "ws", "conn")
            /\ MovesOn
       ELSE Goes(s, "recv") /\ UNCHANGED <<call, moved>>
    /\ UNCHANGED <<conn, g_active, store, login, life, op, discord, bounds>>

\* stop_voice_connection up to its wait for the websocket thread
StopBegin(t) ==
    /\ At(t, "stop") /\ LifeGuard
    /\ IF call.running
       THEN /\ call' = [call EXCEPT !.running = FALSE, !.ready = FALSE]
            /\ life' = t /\ Goes(t, "wait")
            /\ MovesOn
       ELSE Goes(t, st[t].next) /\ UNCHANGED <<call, life, moved>>
    /\ UNCHANGED <<conn, g_active, store, login, op, discord, bounds>>

\* Not the code: a wait without its time limit
CircleForEver == FALSE

\* The thread the websocket's thread waits for is the one that waits for it, or
\* wants the lock that one holds: nothing but the time limit ends this
Circle ==
    /\ life # "free" /\ At("ws", "drain")
    /\ \/ st["ws"].slot = life
       \/ st[st["ws"].slot].pc \in {"start", "stop"}

StopEnd(t) ==
    /\ At(t, "wait") /\ (Gone("ws") \/ Circle)
    /\ life' = "free"
    /\ call' = [call EXCEPT !.server = FALSE, !.state = FALSE]
    /\ Goes(t, st[t].next)
    /\ UNCHANGED <<conn, g_active, store, login, op, moved, discord, bounds>>

--------------------------------------------------------------------------------
(* A gateway thread: handle_dispatch *)

\* voice::on_gateway_voice_state and on_gateway_voice_server, up to the lock
IsOurs == self = NoOne \/ call.self \in {NoOne, self}

VoiceState(s, m) ==
    IF ~IsOurs \/ call.self \notin {NoOne, m.user} THEN Goes(s, "recv") /\ UNCHANGED call
    ELSE IF m.chan = 0 THEN
        IF call.chan = 0 THEN /\ call' = [call EXCEPT !.kind = "idle"]
                              /\ Goes(s, "recv")
        ELSE Through(s, "stop", "cleared", s) /\ UNCHANGED call
    ELSE IF call.running /\ call.sess = m.sess THEN
        /\ call' = [call EXCEPT !.chan = 1] /\ Goes(s, "recv")
    ELSE /\ call' = [call EXCEPT !.chan = 1, !.sess = m.sess, !.state = TRUE]
         /\ Goes(s, "start")

VoiceServer(s) ==
    IF IsOurs THEN call' = [call EXCEPT !.server = TRUE] /\ Goes(s, "start")
    ELSE UNCHANGED call /\ Goes(s, "recv")

\* Not the code: the account is looked at, the connection is not
ForTheCallAnyConn(s, m) == m.kind = "state" => m.user = self

\* The two tests that keep a dispatch from the call
ForTheCall(s, m) ==
    /\ s = VoiceConn
    /\ m.kind = "state" => m.user = self

\* dispatching is read here, and what READY says is folded in later
Receive(s) ==
    /\ At(s, "recv") /\ conn[s].running /\ inbox[s] # <<>>
    /\ LET m == Head(inbox[s])
       IN IF m.kind = "ready" THEN
              /\ IF conn[s].dispatching THEN Goes(s, "fold") ELSE UNCHANGED st
              /\ UNCHANGED call
          ELSE IF ~ForTheCall(s, m) THEN UNCHANGED <<st, call>>
          ELSE IF m.kind = "state" THEN VoiceState(s, m)
          ELSE VoiceServer(s)
    /\ inbox' = [inbox EXCEPT ![s] = Tail(@)]
    /\ UNCHANGED <<conn, g_active, store, login, life, op, moved, dcall, given, bounds>>

\* What the store then holds data of
Folded(s) == data \union {conn[s].user}

\* handle_ready, from the store guard on
Fold(s) ==
    /\ At(s, "fold")
    /\ self' = conn[s].user /\ data' = Folded(s)
    /\ Goes(s, "recv")
    /\ UNCHANGED <<conn, g_active, login, call, life, op, moved, discord, bounds>>

\* the end of on_gateway_voice_state for a state without a channel
Cleared(s) ==
    /\ At(s, "cleared")
    /\ call' = [call EXCEPT !.chan = 0, !.kind = "idle"]
    /\ Goes(s, "recv")
    /\ UNCHANGED <<conn, g_active, store, login, life, op, moved, discord, bounds>>

GatewayEnd(s) ==
    /\ At(s, "recv") /\ ~conn[s].running
    /\ Goes(s, "none")
    /\ UNCHANGED <<conn, g_active, store, login, call, life, op, moved, discord, bounds>>

GatewayStep(s) == Receive(s) \/ Fold(s) \/ Cleared(s) \/ GatewayEnd(s) \/ StartVoice(s)

--------------------------------------------------------------------------------
(* The voice websocket's thread *)

WsUp ==
    /\ At("ws", "conn") /\ call.running
    /\ call' = [call EXCEPT !.ready = TRUE, !.kind = "connected"]
    /\ Goes("ws", "up")
    /\ UNCHANGED <<conn, g_active, store, login, life, op, moved, discord, bounds>>

WsRefused ==
    /\ At("ws", "conn") /\ call.running /\ upsets < MaxUpsets
    /\ call' = [call EXCEPT !.kind = "failed"]
    /\ Through("ws", "release", "quiet", "a")
    /\ upsets' = upsets + 1
    /\ UNCHANGED <<conn, g_active, store, login, life, op, moved, discord, ops, rejoins>>

\* The voice session the socket was opened with is over.  4014 brings the call
\* back; 4006 says goodbye to the gateway, so that the next join is a change.
Over == \A u \in Accounts : dcall[u].n # call.sess

WsDies(code) ==
    /\ At("ws", "up") /\ call.running /\ Over
    /\ LET back == code = 4014 /\ call.chan # 0 /\ rejoins < MaxRejoins
       IN /\ Through("ws", "release", IF back THEN "rejoin" ELSE "quiet", "a")
          /\ rejoins' = IF back THEN rejoins + 1 ELSE rejoins
    /\ call' = [call EXCEPT !.ready = FALSE, !.sess = IF code = 4006 THEN 0 ELSE @]
    /\ IF code = 4006 THEN Op4(VoiceConn, 0) ELSE UNCHANGED discord
    /\ UNCHANGED <<conn, g_active, store, login, life, op, moved, ops, upsets>>

WsStopped ==
    /\ At("ws", "conn") \/ At("ws", "up")
    /\ ~call.running
    /\ call' = [call EXCEPT !.ready = FALSE]
    /\ Through("ws", "release", "quiet", "a")
    /\ UNCHANGED <<conn, g_active, store, login, life, op, moved, discord, bounds>>

\* gateway::release_hold, unless the held connection is to carry the call back
WsRelease ==
    /\ At("ws", "release")
    /\ IF st["ws"].next = "quiet" /\ Holding
       THEN Close(Spare) /\ Through("ws", "drain", "quiet", Spare)
       ELSE Goes("ws", "end") /\ UNCHANGED <<conn, discord>>
    /\ UNCHANGED <<g_active, store, login, call, life, op, moved, bounds>>

WsDrained ==
    /\ At("ws", "drain") /\ Gone(st["ws"].slot)
    /\ Goes("ws", "end")
    /\ UNCHANGED <<conn, g_active, store, login, call, life, op, moved, discord, bounds>>

WsEnd ==
    /\ At("ws", "end")
    /\ IF st["ws"].next = "rejoin"
       THEN /\ call' = [call EXCEPT !.kind = "connecting"]
            /\ IF Gone("rj") THEN /\ Both("ws", "none", "rj", "ask")
                                  /\ moved' = 0
               ELSE Goes("ws", "none") /\ UNCHANGED moved
       ELSE /\ call' = [call EXCEPT !.kind =
                  IF call.running /\ @ # "failed" THEN "idle" ELSE @]
            /\ Goes("ws", "none") /\ UNCHANGED moved
    /\ UNCHANGED <<conn, g_active, store, login, life, op, discord, bounds>>

WsStep == WsUp \/ WsDies(4014) \/ WsDies(4006) \/ WsStopped \/ WsRelease \/ WsDrained \/ WsEnd

--------------------------------------------------------------------------------
(* The rejoin thread *)

StillWanted == call.running /\ call.chan = 1 /\ moved = 0

RjAsk ==
    /\ At("rj", "ask")
    /\ IF StillWanted
       THEN /\ call' = [call EXCEPT !.server = FALSE, !.state = FALSE]
            /\ Op4(VoiceConn, 1) /\ Goes("rj", "pair")
       ELSE Goes("rj", "none") /\ UNCHANGED <<call, discord>>
    /\ UNCHANGED <<conn, g_active, store, login, life, op, moved, bounds>>

\* rehandshake_voice: a new websocket thread below the running call.  It does not
\* take g_life_lock; what a stop just after the test does is in VoiceLifecycle.
RjPair ==
    /\ At("rj", "pair") /\ StillWanted /\ call.server /\ call.state
    /\ Both("rj", "up", "ws", "conn")
    /\ UNCHANGED <<conn, g_active, store, login, call, life, op, moved, discord, bounds>>

\* Ten seconds without the pair, or thirty without the session
NoAnswer ==
    /\ \A s \in Slots : inbox[s] = <<>> /\ st[s].pc \in {"recv", "none"}
    /\ At("rj", "pair") => ~(call.server /\ call.state)
    /\ At("rj", "up") => Gone("ws")

RjHeavy ==
    /\ At("rj", "pair") \/ At("rj", "up")
    /\ StillWanted /\ ~call.ready /\ NoAnswer
    /\ Through("rj", "stop", "out", "a")
    /\ UNCHANGED <<conn, g_active, store, login, call, life, op, moved, discord, bounds>>

RjDone ==
    /\ At("rj", "pair") \/ At("rj", "up")
    /\ ~StillWanted \/ (At("rj", "up") /\ call.ready)
    /\ Goes("rj", "none")
    /\ UNCHANGED <<conn, g_active, store, login, call, life, op, moved, discord, bounds>>

\* Goodbye, so that the join is a change
RjOut ==
    /\ At("rj", "out")
    /\ call' = [call EXCEPT !.sess = 0]
    /\ Op4(VoiceConn, 0) /\ Goes("rj", "pause")
    /\ UNCHANGED <<conn, g_active, store, login, life, op, moved, bounds>>

\* voice::join: whose call this is, then a stop, then the question
RjJoin ==
    /\ At("rj", "pause")
    /\ IF moved # 1 \/ call.chan # 1 THEN Goes("rj", "none") /\ UNCHANGED call
       ELSE /\ call' = [call EXCEPT !.self = self]
            /\ IF call.running THEN Goes("rj", "none") ELSE Through("rj", "stop", "join", "a")
    /\ UNCHANGED <<conn, g_active, store, login, life, op, moved, discord, bounds>>

\* The end of voice::join, on the interface's thread or the rejoin's
JoinAsk(t) ==
    /\ At(t, "join")
    /\ call' = [call EXCEPT !.chan = 1, !.kind = "connecting"]
    /\ Op4(VoiceConn, 1)
    /\ Goes(t, IF t = "ui" THEN "idle" ELSE "none")
    /\ UNCHANGED <<conn, g_active, store, login, life, op, moved, bounds>>

RjStep == RjAsk \/ RjPair \/ RjHeavy \/ RjDone \/ RjOut \/ RjJoin

--------------------------------------------------------------------------------
(* The interface *)

SignedIn == conn[g_active].running /\ login = NoOne

Does(what) ==
    /\ At("ui", "idle") /\ SignedIn /\ ops < MaxOps
    /\ ops' = ops + 1 /\ op' = what
    /\ UNCHANGED <<conn, g_active, store, login, life, moved, discord, upsets, rejoins>>

NoOp == [name |-> "none", user |-> NoOne, up |-> FALSE]

Join ==
    /\ Does([NoOp EXCEPT !.name = "join"])
    /\ call' = [call EXCEPT !.self = self]
    /\ IF call.chan = 1 /\ call.running THEN UNCHANGED st
       ELSE Through("ui", "stop", "join", "a")

\* a proxy that carries no voice
JoinBlocked ==
    /\ Does([NoOp EXCEPT !.name = "join"])
    /\ call' = [call EXCEPT !.self = self, !.kind = "failed"]
    /\ UNCHANGED st

Leave ==
    /\ Does([NoOp EXCEPT !.name = "leave"])
    /\ Through("ui", "stop", "release", "a")
    /\ UNCHANGED call

\* switch_account: is there a call to keep
Switch(u) ==
    /\ Does([name |-> "switch", user |-> u, up |-> call.kind # "idle"])
    /\ Goes("ui", "aside") /\ UNCHANGED call

Logout ==
    /\ Does([NoOp EXCEPT !.name = "logout"])
    /\ Goes("ui", "aside") /\ UNCHANGED call

StepsAsideNever == FALSE     \* Not the code: the old connection closes, call or not
StepsAsideAgain == op.up     \* Not the code: also with one held already
StepsAside == op.up /\ ~Holding

\* detach_for_voice with a call up, gateway::stop without one.  One connection
\* is held at most, so with one held already the one in front is closed.
Aside ==
    /\ At("ui", "aside")
    /\ LET then == IF op.name = "logout" THEN "end" ELSE "reset"
       IN IF ~conn[g_active].running THEN Goes("ui", then) /\ UNCHANGED <<conn, g_active, discord>>
          ELSE IF StepsAside THEN
              /\ conn' = [conn EXCEPT ![g_active].dispatching = FALSE]
              /\ g_active' = Spare
              /\ Goes("ui", then) /\ UNCHANGED discord
          ELSE /\ Close(g_active) /\ UNCHANGED g_active
               /\ Through("ui", "drain", then, g_active)
    /\ UNCHANGED <<store, login, call, life, op, moved, bounds>>

\* logout goes on to voice::shutdown, which stops the call and lets go
EndCall ==
    /\ At("ui", "end")
    /\ Through("ui", "stop", "release", "a")
    /\ UNCHANGED <<conn, g_active, store, login, call, life, op, moved, discord, bounds>>

UiDrained ==
    /\ At("ui", "drain") /\ Gone(st["ui"].slot)
    /\ Goes("ui", st["ui"].next)
    /\ UNCHANGED <<conn, g_active, store, login, call, life, op, moved, discord, bounds>>

UiRelease ==
    /\ At("ui", "release")
    /\ LET then == IF op.name = "leave" THEN "left" ELSE "reset"
       IN IF Holding THEN Close(Spare) /\ Through("ui", "drain", then, Spare)
          ELSE Goes("ui", then) /\ UNCHANGED <<conn, discord>>
    /\ UNCHANGED <<g_active, store, login, call, life, op, moved, bounds>>

Left ==
    /\ At("ui", "left")
    /\ call' = [call EXCEPT !.chan = 0, !.kind = "idle"]
    /\ Op4(VoiceConn, 0) /\ Goes("ui", "idle")
    /\ UNCHANGED <<conn, g_active, store, login, life, op, moved, bounds>>

\* store::reset, and the sign-in of the account switched to; voice::init after
\* a logout
Reset ==
    /\ At("ui", "reset")
    /\ self' = NoOne /\ data' = {}
    /\ IF op.name = "switch"
       THEN login' = op.user /\ Both("ui", "idle", "job", "check")
            /\ UNCHANGED call
       ELSE /\ Goes("ui", "idle") /\ call' = [call EXCEPT !.kind = "idle"]
            /\ UNCHANGED login
    /\ UNCHANGED <<conn, g_active, life, op, moved, discord, bounds>>

SignIn(u) ==
    /\ At("ui", "idle") /\ ~conn[g_active].running /\ login = NoOne /\ ops < MaxOps
    /\ ops' = ops + 1 /\ login' = u /\ Goes("job", "check")
    /\ UNCHANGED <<conn, g_active, store, call, life, op, moved, discord, upsets, rejoins>>

\* The last life of the slot is over: its thread, and the stop_conn that waits
\* for it and then destroys the socket
Vacant(s) == Gone(s) /\ ~(At("ws", "drain") /\ st["ws"].slot = s)

\* job_login: verify_token, then gateway::start
TokenTaken ==
    /\ At("job", "check")
    /\ self' = login /\ data' = data \union {login}
    /\ Goes("job", "start")
    /\ UNCHANGED <<conn, g_active, login, call, life, op, moved, discord, bounds>>

TokenRefused ==
    /\ At("job", "check") /\ upsets < MaxUpsets
    /\ login' = NoOne /\ Goes("job", "none")
    /\ upsets' = upsets + 1
    /\ UNCHANGED <<conn, g_active, store, call, life, op, moved, discord, ops, rejoins>>

JobStart ==
    /\ At("job", "start") /\ (Hasty \/ conn[g_active].running \/ Vacant(g_active))
    /\ Start(login) /\ login' = NoOne
    /\ UNCHANGED <<g_active, store, call, life, op, moved, dcall, given, bounds>>

UiStep == Aside \/ EndCall \/ UiDrained \/ UiRelease \/ Left \/ Reset

--------------------------------------------------------------------------------
(* Discord *)

\* Out of the channel, by a moderator or because the voice server was changed
Kick(u) ==
    /\ dcall[u].by # 0 /\ upsets < MaxUpsets
    /\ upsets' = upsets + 1
    /\ dcall' = [dcall EXCEPT ![u] = NoCall]
    /\ inbox' \in {inbox, Tell(inbox, u, 0, 0, conn)}
    /\ UNCHANGED <<conn, g_active, store, login, call, life, st, op, moved, given, ops, rejoins>>

--------------------------------------------------------------------------------
Init ==
    /\ conn = [s \in Slots |-> [running |-> s = "a", dispatching |-> s = "a",
                                user |-> First, sess |-> IF s = "a" THEN 1 ELSE 0]]
    /\ inbox = [s \in Slots |-> IF s = "a" THEN <<Msg("ready", First, 0, 0)>> ELSE <<>>]
    /\ g_active = "a"
    /\ self = First /\ data = {First} /\ login = NoOne
    /\ call = [running |-> FALSE, ready |-> FALSE, server |-> FALSE, state |-> FALSE,
               chan |-> 0, sess |-> 0, self |-> NoOne, kind |-> "idle"]
    /\ life = "free"
    /\ st = [t \in Threads |->
                [pc |-> IF t = "a" THEN "recv" ELSE IF t = "ui" THEN "idle" ELSE "none",
                 next |-> "none", slot |-> "a"]]
    /\ op = NoOp /\ moved = 0
    /\ dcall = [u \in Accounts |-> NoCall] /\ given = 0
    /\ ops = 0 /\ upsets = 0 /\ rejoins = 0

PersonActs == Join \/ JoinBlocked \/ Leave \/ Logout
              \/ \E u \in Accounts : Switch(u) \/ SignIn(u)
Stops == \E t \in Slots \union {"ui", "rj"} : StopBegin(t) \/ StopEnd(t)
Asks  == \E t \in {"ui", "rj"} : JoinAsk(t)
Jobs  == TokenTaken \/ TokenRefused \/ JobStart

Next ==
    \/ PersonActs \/ UiStep \/ Stops \/ Asks \/ Jobs
    \/ \E s \in Slots : GatewayStep(s)
    \/ WsStep \/ WsRefused \/ RjStep
    \/ \E u \in Accounts : Kick(u)

Spec == Init /\ [][Next]_vars

Ui  == UiStep \/ StopBegin("ui") \/ StopEnd("ui") \/ JoinAsk("ui")
Rj  == RjStep \/ StopBegin("rj") \/ StopEnd("rj") \/ JoinAsk("rj")
Ws  == WsUp \/ WsRefused \/ WsStopped \/ WsRelease \/ WsDrained \/ WsEnd
Gw(s) == GatewayStep(s) \/ StopBegin(s) \/ StopEnd(s)

\* Threads run, and every wait and every request has a time limit.  Nothing is
\* assumed of the person, or of Discord ending a call.
Fairness ==
    /\ WF_vars(Ui) /\ WF_vars(Rj) /\ WF_vars(Ws) /\ WF_vars(Jobs)
    /\ \A s \in Slots : WF_vars(Gw(s))

FairSpec == Spec /\ Fairness

--------------------------------------------------------------------------------
(* Type invariant *)

Pcs == {"none", "idle", "recv", "fold", "start", "stop", "wait", "cleared", "conn", "up",
        "release", "drain", "end", "quiet", "rejoin", "ask", "pair", "out", "pause", "join",
        "aside", "reset", "left", "check"}

Someone == Accounts \union {NoOne}
ConnType == [running : BOOLEAN, dispatching : BOOLEAN, user : Accounts, sess : Nat]
CallType == [running : BOOLEAN, ready : BOOLEAN, server : BOOLEAN, state : BOOLEAN,
             chan : {0, 1}, sess : Nat, self : Someone,
             kind : {"idle", "connecting", "connected", "failed"}]
StType == [Threads -> [pc : Pcs, next : Pcs, slot : Slots]]
Message == [kind : {"ready", "state", "server"}, user : Accounts, chan : {0, 1}, sess : Nat]

\* What the two slots, the store, the call, the threads and Discord can hold
TypeOK ==
    /\ conn \in [Slots -> ConnType] /\ inbox \in [Slots -> Seq(Message)]
    /\ g_active \in Slots
    /\ self \in Someone /\ data \subseteq Accounts
    /\ login \in Someone
    /\ call \in CallType
    /\ life \in Threads \union {"free"}
    /\ st \in StType
    /\ op \in [name : {"none", "join", "leave", "switch", "logout"}, user : Someone,
               up : BOOLEAN]
    /\ moved \in 0..2
    /\ dcall \in [Accounts -> [by : Nat, n : Nat]] /\ given \in Nat

--------------------------------------------------------------------------------
(* What the code keeps *)

\* voice_conn() is the connection whose session Discord knows the call by,
\* whoever is signed in and however often the accounts were changed: leave,
\* rejoin and Go Live speak on that session.
HeldIsTheCalls ==
    \A u \in Accounts : dcall[u].by # 0 =>
        /\ conn[VoiceConn].running /\ conn[VoiceConn].user = u
        /\ conn[VoiceConn].sess = dcall[u].by

\* Changing accounts with a call up never closes the session that has the call,
\* the account of a held call switched back to included (detach_for_voice).
SwitchSparesCall == [][At("ui", "aside") /\ op.up /\ Aside => UNCHANGED dcall]_vars

\* The running call is one that Discord still has
Live(u) == dcall[u].by # 0 /\ dcall[u].n = call.sess /\ call.running

\* A gateway thread takes it that the call has ended only when Discord says that
\* call is over: what another account's connection says of it, or a second
\* connection of the call's own account, never ends it.
LiveCallIsKept ==
    [][\A s \in Slots : At(s, "recv") /\ (At(s, "stop"))' =>
        \A u \in Accounts : ~Live(u)]_vars

\* While one thread takes a call's connection apart no other thread has started
\* one (g_life_lock).
StopsAlone == life # "free" => ~call.running

\* The interface gets through whatever the person asks for, though its stop may
\* be waiting for a thread that waits for the stop; and a rejoin ends, so that
\* g_rejoining never keeps a later one out.
WaitsEnd ==
    /\ ~At("ui", "idle") ~> At("ui", "idle")
    /\ ~Gone("rj") ~> Gone("rj")

--------------------------------------------------------------------------------
(* What the comments say and the code does not keep *)

\* voice.cpp:221, of g_life_lock: the threads a stop waits for never take it,
\* so waiting while holding it cannot deadlock.
NoCircleOfWaits == ~Circle

\* Nobody is in the middle of anything
Quiet == \A t \in Threads : st[t].pc \in {"none", "idle", "recv", "up"}

\* voice.cpp:3572: a connection kept alive purely to hold a call does not
\* outlive it; here, when there is no call or a failed one.
HoldEnds == (Quiet /\ call.kind \in {"idle", "failed"}) => ~Holding

\* voice.cpp:264, of g_self_id: whose connection this is is read once, when it is
\* set up; a stream that changed identity halfway would stop decrypting.  Looked
\* at when nobody is in the middle of anything.
KeysAsCaller == \A u \in Accounts : (Quiet /\ Live(u)) => call.self = u

\* gateway.cpp:1587: a slot is reused, and everything about the previous life of
\* it goes; here, its thread and who waits for that, too.
StartAlone == [][JobStart /\ ~conn[g_active].running => Vacant(g_active)]_vars

\* gateway.cpp:721: a held connection is allowed to deliver the answers about
\* its call; here, a new voice session of the account in the call reaches it.
AnswersArrive ==
    [][\A s \in Slots : Receive(s) =>
        LET m == Head(inbox[s])
        IN (/\ s = VoiceConn /\ m.kind = "state" /\ m.chan = 1
            /\ m.user = call.self /\ m.sess # call.sess) => call'.sess = m.sess]_vars

\* gateway.cpp:96: only the client's current connection folds anything into the
\* store; here, the store never holds the data of two accounts.
OneAccountsStore == \A u, w \in data : u = w
===============================================================================
