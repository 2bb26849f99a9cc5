------------------------- MODULE VoiceLifecycle_proofs ------------------------
(***************************************************************************)
(* One thread at a time has the voice socket, however often the call is    *)
(* joined, left, moved, lost and rebuilt; and after the first join, a call *)
(* that would ignore a second one is up where Discord has it, whatever     *)
(* moderators did in between.                                              *)
(***************************************************************************)
EXTENDS VoiceLifecycle, TLAPS

-----------------------------------------------------------------------------
(* Type correctness: what the operators of the actions leave behind.         *)

LEMMA Op4Type ==
    ASSUME DiscordOK, NEW c \in Nat, Op4(c) PROVE DiscordOK'
  <1>1. /\ State(0, 0) \in Messages /\ State(c, dsess + 1) \in Messages
        /\ Server(dend + 1) \in Messages
    BY DEF State, Server, Messages, DiscordOK
  <1>2. /\ Append(inbox, State(0, 0)) \in Seq(Messages)
        /\ inbox \o <<State(c, dsess + 1), Server(dend + 1)>> \in Seq(Messages)
    BY <1>1 DEF DiscordOK
  <1>3. CASE gwup # "up" \/ c = dchan
    BY <1>3 DEF Op4, DiscordOK, discordVars
  <1>4. CASE ~(gwup # "up" \/ c = dchan) /\ c = 0
    BY <1>2, <1>4 DEF Op4, DiscordOK
  <1>5. CASE ~(gwup # "up" \/ c = dchan) /\ c # 0
    BY <1>2, <1>5 DEF Op4, DiscordOK
  <1> QED BY <1>3, <1>4, <1>5

\* Where a caller of its kind may be.
Place(t) == IF t = "ui" THEN UiStates
            ELSE IF t = "gw" THEN UiStates \union {"start"} ELSE RejoinStates

LEMMA GotoType ==
    ASSUME CallersOK, NEW t \in Callers, NEW s \in Place(t), Goto(t, s),
           job' \in [Callers -> Jobs], life' \in Callers \union {"free"}
    PROVE  CallersOK'
  BY DEF CallersOK, Goto, Place, Callers, Rejoiners, RejoinStates

LEMMA CallType ==
    ASSUME CallersOK, NEW t \in Callers, NEW op \in Ops, NEW c \in Nat, Call(t, op, c),
           UNCHANGED life
    PROVE  CallersOK'
  <1>1. job' \in [Callers -> Jobs]
    BY DEF CallersOK, Call, Jobs
  <1>2. "call" \in Place(t)
    BY DEF Place, UiStates, RejoinStates
  <1> QED BY <1>1, <1>2, GotoType DEF Call, CallersOK

LEMMA FinishType ==
    ASSUME CallersOK, NEW t \in Callers, Finish(t), UNCHANGED life
    PROVE  CallersOK'
  <1>1. job' \in [Callers -> Jobs]
    BY DEF CallersOK, Finish, Jobs, NoJob, Ops
  <1>2. "idle" \in Place(t)
    BY DEF Place, UiStates, RejoinStates
  <1> QED BY <1>1, <1>2, GotoType DEF Finish, CallersOK

Codes == {0, 1006, 4006, 4014}

\* What a thread writes into its record.
LEMMA WsField ==
    ASSUME NEW w \in WsThreads
    PROVE  /\ \A p \in WsPcs : [w EXCEPT !.pc = p] \in WsThreads
           /\ \A n \in Nat : [w EXCEPT !.url = n] \in WsThreads
           /\ \A n \in Nat : [w EXCEPT !.sess = n] \in WsThreads
           /\ \A n \in Nat : [w EXCEPT !.attempt = n] \in WsThreads
           /\ \A b \in BOOLEAN : [w EXCEPT !.ever = b] \in WsThreads
           /\ \A b \in BOOLEAN : [w EXCEPT !.opened = b] \in WsThreads
           /\ \A c \in Codes : [w EXCEPT !.code = c] \in WsThreads
  BY DEF WsThreads, Codes

LEMMA WsEnding ==
    ASSUME NEW w \in WsThreads, NEW p \in WsPcs, NEW c \in Codes
    PROVE  [w EXCEPT !.pc = p, !.code = c] \in WsThreads
  <1>1. [w EXCEPT !.pc = p, !.code = c] = [[w EXCEPT !.pc = p] EXCEPT !.code = c]
    OBVIOUS
  <1> QED BY <1>1, WsField

LEMMA WsAnswered ==
    ASSUME NEW w \in WsThreads, NEW p \in WsPcs, NEW s \in Nat, NEW o \in BOOLEAN,
           NEW c \in Codes
    PROVE  [w EXCEPT !.pc = p, !.sess = s, !.opened = o, !.code = c] \in WsThreads
  <1>1. [w EXCEPT !.pc = p, !.sess = s, !.opened = o, !.code = c]
          = [[[[w EXCEPT !.pc = p] EXCEPT !.sess = s] EXCEPT !.opened = o] EXCEPT !.code = c]
    OBVIOUS
  <1> QED BY <1>1, WsField

LEMMA WsRefused ==
    ASSUME NEW w \in WsThreads, NEW p \in WsPcs, NEW o \in BOOLEAN, NEW c \in Codes
    PROVE  [w EXCEPT !.pc = p, !.opened = o, !.code = c] \in WsThreads
  <1>1. [w EXCEPT !.pc = p, !.opened = o, !.code = c]
          = [[[w EXCEPT !.pc = p] EXCEPT !.opened = o] EXCEPT !.code = c]
    OBVIOUS
  <1> QED BY <1>1, WsField

LEMMA WsUnopened ==
    ASSUME NEW w \in WsThreads, NEW p \in WsPcs, NEW o \in BOOLEAN
    PROVE  [w EXCEPT !.pc = p, !.opened = o] \in WsThreads
  <1>1. [w EXCEPT !.pc = p, !.opened = o] = [[w EXCEPT !.pc = p] EXCEPT !.opened = o]
    OBVIOUS
  <1> QED BY <1>1, WsField

LEMMA WsConnects ==
    ASSUME NEW w \in WsThreads, NEW p \in WsPcs, NEW u \in Nat
    PROVE  [w EXCEPT !.pc = p, !.url = u] \in WsThreads
  <1>1. [w EXCEPT !.pc = p, !.url = u] = [[w EXCEPT !.pc = p] EXCEPT !.url = u]
    OBVIOUS
  <1> QED BY <1>1, WsField

LEMMA WsTries ==
    ASSUME NEW w \in WsThreads, NEW p \in WsPcs, NEW e \in BOOLEAN, NEW n \in Nat
    PROVE  [w EXCEPT !.ever = e, !.attempt = n, !.pc = p] \in WsThreads
  <1>1. [w EXCEPT !.ever = e, !.attempt = n, !.pc = p]
          = [[[w EXCEPT !.ever = e] EXCEPT !.attempt = n] EXCEPT !.pc = p]
    OBVIOUS
  <1> QED BY <1>1, WsField

\* Setting a thread's record leaves the sockets what they are.
LEMMA SetWsType ==
    ASSUME SocketsOK, NEW i \in Slots, \E r \in WsThreads : SetWs(i, r),
           UNCHANGED g_ws_thread
    PROVE  SocketsOK'
  BY DEF SocketsOK, SetWs

LEMMA NoWsType == NoWs \in WsThreads /\ [NoWs EXCEPT !.pc = "new"] \in WsThreads
  <1>1. NoWs \in WsThreads
    BY DEF NoWs, WsThreads, WsPcs
  <1> QED BY <1>1, WsField DEF WsPcs

LEMMA InitType == ASSUME Init PROVE TypeOK
  <1>1. CallOK
    BY DEF Init, CallOK
  <1>2. DiscordOK
    BY DEF Init, DiscordOK
  <1>3. CallersOK
    BY DEF Init, CallersOK, Callers, Rejoiners, RejoinStates, UiStates, NoJob, Jobs, Ops
  <1>4. SocketsOK
    BY NoWsType DEF Init, SocketsOK
  <1> QED BY <1>1, <1>2, <1>3, <1>4 DEF Init, TypeOK

-----------------------------------------------------------------------------
(* The steps that several callers make. *)

LEMMA StopEnterType == ASSUME TypeOK, NEW t \in Callers, StopEnter(t) PROVE TypeOK'
  <1>1. SocketsOK'
    <2>1. ASSUME NEW i \in Slots PROVE Closed(ws[i]) \in WsThreads
      <3>1. ws[i] \in WsThreads /\ "dying" \in WsPcs /\ 0 \in Codes
        BY DEF TypeOK, SocketsOK, WsPcs, Codes
      <3> QED BY <3>1, WsEnding DEF Closed
    <2> QED BY <2>1 DEF StopEnter, TypeOK, SocketsOK
  <1>2. CallersOK'
    <2>1. "reap" \in Place(t) /\ "after" \in Place(t)
      BY DEF Place, UiStates, RejoinStates
    <2> QED BY <2>1, GotoType DEF StopEnter, TypeOK, CallersOK
  <1>3. CallOK'
    <2>1. g_generation' \in Nat
      BY DEF TypeOK, CallOK, StopEnter
    <2>2. g_running' \in BOOLEAN /\ g_session_ready' \in BOOLEAN /\ g_stop_event' \in BOOLEAN
      BY DEF TypeOK, CallOK, StopEnter
    <2> QED BY <2>1, <2>2 DEF TypeOK, CallOK, StopEnter, rejoinVars
  <1>4. DiscordOK'
    BY DEF TypeOK, DiscordOK, StopEnter, discordVars
  <1> QED BY <1>1, <1>2, <1>3, <1>4 DEF TypeOK, StopEnter, Overtakes, boundVars, pastVars

LEMMA StopReapType == ASSUME TypeOK, NEW t \in Callers, StopReap(t) PROVE TypeOK'
  <1>1. SocketsOK'
    BY NoWsType DEF StopReap, TypeOK, SocketsOK, HandleAfterStop
  <1>2. CallersOK'
    <2>1. "after" \in Place(t)
      BY DEF Place, UiStates, RejoinStates
    <2> QED BY <2>1, GotoType DEF StopReap, TypeOK, CallersOK
  <1>3. CallOK'
    <2>1. g_have_server' \in BOOLEAN
      BY DEF TypeOK, CallOK, StopReap
    <2>2. g_endpoint' \in Nat
      BY DEF TypeOK, CallOK, StopReap
    <2> QED BY <2>1, <2>2 DEF TypeOK, CallOK, StopReap, rejoinVars
  <1>4. DiscordOK'
    BY DEF TypeOK, DiscordOK, StopReap, discordVars
  <1> QED BY <1>1, <1>2, <1>3, <1>4 DEF TypeOK, StopReap, Waited, boundVars, pastVars

LEMMA JoinAfterType == ASSUME TypeOK, NEW t \in Callers, JoinAfter(t) PROVE TypeOK'
  <1>1. job[t].chan \in Nat
    BY DEF TypeOK, CallersOK, Jobs
  <1>2. DiscordOK'
    BY <1>1, Op4Type DEF JoinAfter, TypeOK
  <1>3. CallersOK'
    BY FinishType DEF JoinAfter, TypeOK
  <1>4. CallOK'
    BY <1>1 DEF TypeOK, CallOK, JoinAfter
  <1>5. SocketsOK'
    BY DEF TypeOK, SocketsOK, JoinAfter
  <1> QED BY <1>1, <1>2, <1>3, <1>4, <1>5 DEF TypeOK, JoinAfter, boundVars, pastVars

-----------------------------------------------------------------------------
(* The interface and the gateway's thread. *)

LEMMA UiType == ASSUME TypeOK, Ui PROVE TypeOK'
  <1>0. "ui" \in Callers
    BY DEF Callers
  <1>1. ASSUME NEW c \in Channels, UiJoin(c) PROVE TypeOK'
    <2>1. CallersOK'
      <3>1. c \in Nat /\ "join" \in Ops
        BY ChannelsAssumption DEF Ops
      <3>2. CASE Joins(c)
        BY <1>0, <1>1, <3>1, <3>2, CallType DEF UiJoin, TypeOK
      <3>3. CASE ~Joins(c)
        BY <1>1, <3>3 DEF UiJoin, TypeOK, CallersOK, callerVars
      <3> QED BY <3>2, <3>3
    <2>2. CallOK' /\ SocketsOK'
      BY <1>1 DEF UiJoin, TypeOK, CallOK, SocketsOK, callVars, rejoinVars
    <2>3. DiscordOK'
      BY <1>1 DEF UiJoin, TypeOK, DiscordOK, discordVars
    <2> QED BY <1>1, <2>1, <2>2, <2>3 DEF UiJoin, TypeOK, pastVars
  <1>2. CASE UiLeave
    <2>1. CallersOK'
      BY <1>0, <1>2, CallType DEF UiLeave, TypeOK, Ops
    <2>2. CallOK' /\ SocketsOK'
      BY <1>2 DEF UiLeave, TypeOK, CallOK, SocketsOK, callVars, rejoinVars
    <2>3. DiscordOK'
      BY <1>2 DEF UiLeave, TypeOK, DiscordOK, discordVars
    <2> QED BY <1>2, <2>1, <2>2, <2>3 DEF UiLeave, TypeOK, pastVars
  <1>3. CASE LeaveAfter
    <2>1. CallersOK'
      BY <1>0, <1>3, FinishType DEF LeaveAfter, TypeOK
    <2>2. CallOK' /\ SocketsOK'
      BY <1>3 DEF LeaveAfter, TypeOK, CallOK, SocketsOK, rejoinVars
    <2>3. DiscordOK'
      BY <1>3, Op4Type DEF LeaveAfter, TypeOK
    <2> QED BY <1>3, <2>1, <2>2, <2>3 DEF LeaveAfter, TypeOK, boundVars, pastVars
  <1> QED BY <1>0, <1>1, <1>2, <1>3, StopEnterType, StopReapType, JoinAfterType DEF Ui

LEMMA GatewayType == ASSUME TypeOK, Gateway PROVE TypeOK'
  <1>0. /\ "gw" \in Callers
        /\ "start" \in Place("gw")
    BY DEF Callers, Place
  <1>1. CASE GwState
    <2> DEFINE m == Head(inbox)
    <2>1. m \in Messages /\ Tail(inbox) \in Seq(Messages)
      BY <1>1 DEF GwState, TypeOK, DiscordOK
    <2>2. m.chan \in Nat /\ m.val \in Nat
      BY <2>1 DEF Messages
    <2>3. CallersOK'
      <3>1. CASE \E op \in Ops : Call("gw", op, m.chan)
        BY <1>0, <1>1, <2>2, <3>1, CallType DEF GwState, TypeOK
      <3>2. CASE Goto("gw", "start") /\ UNCHANGED job
        BY <1>0, <1>1, <3>2, GotoType DEF GwState, TypeOK, CallersOK
      <3>3. CASE UNCHANGED callerVars
        BY <1>1, <3>3 DEF GwState, TypeOK, CallersOK, callerVars
      <3> QED BY <1>1, <3>1, <3>2, <3>3 DEF GwState, Ops
    <2>4. g_channel_id' \in Nat /\ g_voice_session' \in Nat
      BY <1>1, <2>2 DEF GwState, TypeOK, CallOK
    <2>5. g_have_state' \in BOOLEAN
      BY <1>1 DEF GwState, TypeOK, CallOK
    <2>6. CallOK'
      BY <1>1, <2>4, <2>5 DEF GwState, TypeOK, CallOK, rejoinVars
    <2>7. DiscordOK'
      BY <1>1, <2>1 DEF GwState, TypeOK, DiscordOK
    <2>8. SocketsOK'
      BY <1>1 DEF GwState, TypeOK, SocketsOK
    <2> QED BY <1>1, <2>3, <2>6, <2>7, <2>8 DEF GwState, TypeOK, boundVars, pastVars
  <1>2. CASE GwServer
    <2> DEFINE m == Head(inbox)
    <2>1. m \in Messages /\ Tail(inbox) \in Seq(Messages)
      BY <1>2 DEF GwServer, TypeOK, DiscordOK
    <2>2. m.val \in Nat
      BY <2>1 DEF Messages
    <2>3. CallersOK'
      BY <1>0, <1>2, GotoType DEF GwServer, TypeOK, CallersOK
    <2>4. CallOK'
      BY <1>2, <2>2 DEF GwServer, TypeOK, CallOK, rejoinVars
    <2>5. DiscordOK'
      BY <1>2, <2>1 DEF GwServer, TypeOK, DiscordOK
    <2>6. SocketsOK'
      BY <1>2 DEF GwServer, TypeOK, SocketsOK
    <2> QED BY <1>2, <2>3, <2>4, <2>5, <2>6 DEF GwServer, TypeOK, boundVars, pastVars
  <1>3. CASE StartVoice
    <2>1. CallersOK'
      BY <1>0, <1>3, FinishType DEF StartVoice, TypeOK
    <2>2. SocketsOK'
      <3>1. CASE Starts
        BY <1>3, <3>1, NoWsType DEF StartVoice, NewWs, TypeOK, SocketsOK
      <3>2. CASE ~Starts
        BY <1>3, <3>2 DEF StartVoice, TypeOK, SocketsOK
      <3> QED BY <3>1, <3>2
    <2>3. g_running' \in BOOLEAN /\ g_stop_event' \in BOOLEAN
      BY <1>3 DEF StartVoice, TypeOK, CallOK
    <2>4. g_generation' \in Nat
      BY <1>3 DEF StartVoice, TypeOK, CallOK
    <2>5. CallOK'
      BY <1>3, <2>3, <2>4 DEF StartVoice, TypeOK, CallOK, rejoinVars
    <2>6. DiscordOK'
      BY <1>3 DEF StartVoice, TypeOK, DiscordOK, discordVars
    <2> QED BY <1>3, <2>1, <2>2, <2>5, <2>6 DEF StartVoice, Overtakes, TypeOK, boundVars, pastVars
  <1>4. CASE KickedAfter
    <2>1. CallersOK'
      BY <1>0, <1>4, FinishType DEF KickedAfter, TypeOK
    <2>2. CallOK' /\ SocketsOK'
      BY <1>4 DEF KickedAfter, TypeOK, CallOK, SocketsOK, rejoinVars
    <2>3. DiscordOK'
      BY <1>4 DEF KickedAfter, TypeOK, DiscordOK, discordVars
    <2> QED BY <1>4, <2>1, <2>2, <2>3 DEF KickedAfter, TypeOK, boundVars, pastVars
  <1>5. CASE MovedAfter
    <2>1. CallersOK'
      BY <1>0, <1>5, GotoType DEF MovedAfter, TypeOK, CallersOK
    <2>2. CallOK' /\ SocketsOK'
      BY <1>5 DEF MovedAfter, TypeOK, CallOK, SocketsOK, rejoinVars
    <2>3. DiscordOK'
      BY <1>5 DEF MovedAfter, TypeOK, DiscordOK, discordVars
    <2> QED BY <1>5, <2>1, <2>2, <2>3 DEF MovedAfter, TypeOK, boundVars, pastVars
  <1>6. CASE GwLost
    <2>1. CallersOK'
      <3>1. CASE Call("gw", "lost", 0)
        BY <1>0, <1>6, <3>1, CallType DEF GwLost, TypeOK, Ops
      <3>2. CASE UNCHANGED callerVars
        BY <1>6, <3>2 DEF GwLost, TypeOK, CallersOK, callerVars
      <3> QED BY <1>6, <3>1, <3>2 DEF GwLost
    <2>2. CallOK' /\ SocketsOK'
      BY <1>6 DEF GwLost, TypeOK, CallOK, SocketsOK, callVars, rejoinVars
    <2>3. DiscordOK'
      BY <1>6 DEF GwLost, NextUp, TypeOK, DiscordOK
    <2> QED BY <1>6, <2>1, <2>2, <2>3 DEF GwLost, TypeOK, boundVars, pastVars
  <1>7. CASE LostAfter
    <2>1. CallersOK'
      BY <1>0, <1>7, FinishType DEF LostAfter, TypeOK
    <2>2. CallOK' /\ SocketsOK'
      BY <1>7 DEF LostAfter, TypeOK, CallOK, SocketsOK, callVars, rejoinVars
    <2>3. DiscordOK'
      BY <1>7 DEF LostAfter, NextUp, TypeOK, DiscordOK
    <2> QED BY <1>7, <2>1, <2>2, <2>3 DEF LostAfter, TypeOK, boundVars, pastVars
  <1> QED BY <1>0, <1>1, <1>2, <1>3, <1>4, <1>5, <1>6, <1>7, StopEnterType, StopReapType
      DEF Gateway

-----------------------------------------------------------------------------
(* The websocket threads and the rejoins. *)

\* What the steps of a websocket thread leave alone but for its own record.
LEMMA WsThreadType == ASSUME TypeOK, NEW i \in Slots, WsThread(i) PROVE TypeOK'
  <1>a. ws[i] \in WsThreads
    BY DEF TypeOK, SocketsOK
  <1>b. g_endpoint \in Nat /\ dsess \in Nat
    BY DEF TypeOK, CallOK, DiscordOK
  <1>0. /\ ws[i] \in WsThreads /\ ws[i].url \in Nat /\ ws[i].attempt \in Nat /\ ws[i].ever \in BOOLEAN
        /\ g_endpoint \in Nat /\ dsess \in Nat /\ 0 \in Nat
        /\ "connect" \in WsPcs /\ "ready" \in WsPcs /\ "dying" \in WsPcs /\ "wait" \in WsPcs
        /\ "end" \in WsPcs /\ "spawn" \in WsPcs /\ "exited" \in WsPcs
        /\ 0 \in Codes /\ 1006 \in Codes /\ 4006 \in Codes /\ 4014 \in Codes
    BY DEF TypeOK, SocketsOK, CallOK, DiscordOK, WsThreads, WsPcs, Codes
  <1>1. CASE WsBegin(i)
    <2>2. [ws[i] EXCEPT !.pc = "connect", !.url = g_endpoint] \in WsThreads
      <3> DEFINE p == "connect"
      <3>1. p \in WsPcs
        BY DEF WsPcs, Codes
      <3> HIDE DEF p
      <3>2. [ws[i] EXCEPT !.pc = p, !.url = g_endpoint] \in WsThreads
        BY <1>a, <1>b, <3>1, WsConnects
      <3> QED BY <3>2 DEF p
    <2>3. \E r \in WsThreads : SetWs(i, r)
      BY <1>1, <2>2 DEF WsBegin
    <2>4. SocketsOK'
      BY <1>1, <2>3, SetWsType DEF WsBegin, TypeOK, callVars
    <2>5. CallOK' /\ CallersOK'
      BY <1>1 DEF WsBegin, TypeOK, CallOK, CallersOK, callVars, rejoinVars, callerVars
    <2>6. DiscordOK'
      BY <1>1 DEF WsBegin, TypeOK, DiscordOK, discordVars
    <2> QED BY <1>1, <2>4, <2>5, <2>6 DEF WsBegin, TypeOK, boundVars, pastVars
  <1>2. CASE WsOpen(i)
    <2>1. SocketsOK'
      <3>1. \E r \in WsThreads : SetWs(i, r)
        <4>1. [ws[i] EXCEPT !.pc = "ready", !.sess = dsess, !.opened = TRUE, !.code = 0]
                 \in WsThreads
          <5> DEFINE p == "ready"
                     o == TRUE
                     c == 0
          <5>1. p \in WsPcs /\ o \in BOOLEAN /\ c \in Codes
            BY DEF WsPcs, Codes
          <5> HIDE DEF p, o, c
          <5>2. [ws[i] EXCEPT !.pc = p, !.sess = dsess, !.opened = o, !.code = c] \in WsThreads
            BY <1>a, <1>b, <5>1, WsAnswered
          <5> QED BY <5>2 DEF p, o, c
        <4>2. [ws[i] EXCEPT !.pc = "dying", !.opened = TRUE, !.code = 4006] \in WsThreads
          <5> DEFINE p == "dying"
                     o == TRUE
                     c == 4006
          <5>1. p \in WsPcs /\ o \in BOOLEAN /\ c \in Codes
            BY DEF WsPcs, Codes
          <5> HIDE DEF p, o, c
          <5>2. [ws[i] EXCEPT !.pc = p, !.opened = o, !.code = c] \in WsThreads
            BY <1>a, <1>b, <5>1, WsRefused
          <5> QED BY <5>2 DEF p, o, c
        <4> QED BY <1>2, <4>1, <4>2 DEF WsOpen
      <3> QED BY <1>2, <3>1, SetWsType DEF WsOpen, TypeOK
    <2>2. g_session_ready' \in BOOLEAN
      <3>1. g_session_ready' = TRUE \/ UNCHANGED g_session_ready
        BY <1>2 DEF WsOpen
      <3> QED BY <3>1 DEF TypeOK, CallOK
    <2>3. CallOK'
      BY <1>2, <2>2 DEF WsOpen, TypeOK, CallOK, rejoinVars
    <2>4. CallersOK'
      BY <1>2 DEF WsOpen, TypeOK, CallersOK, callerVars
    <2>5. DiscordOK'
      BY <1>2 DEF WsOpen, TypeOK, DiscordOK, discordVars
    <2> QED BY <1>2, <2>1, <2>3, <2>4, <2>5 DEF WsOpen, TypeOK, boundVars, pastVars
  <1>3. CASE WsFail(i)
    <2>1. SocketsOK'
      <3>1. [ws[i] EXCEPT !.pc = "dying", !.opened = FALSE] \in WsThreads
        <4> DEFINE p == "dying"
                   o == FALSE
        <4>1. p \in WsPcs /\ o \in BOOLEAN
          BY DEF WsPcs, Codes
        <4> HIDE DEF p, o
        <4>2. [ws[i] EXCEPT !.pc = p, !.opened = o] \in WsThreads
          BY <1>a, <1>b, <4>1, WsUnopened
        <4> QED BY <4>2 DEF p, o
      <3>2. \E r \in WsThreads : SetWs(i, r)
        BY <1>3, <3>1 DEF WsFail
      <3> QED BY <1>3, <3>2, SetWsType DEF WsFail, TypeOK, callVars
    <2>2. CallOK' /\ CallersOK'
      BY <1>3 DEF WsFail, TypeOK, CallOK, CallersOK, callVars, rejoinVars, callerVars
    <2>3. DiscordOK'
      BY <1>3 DEF WsFail, TypeOK, DiscordOK, discordVars
    <2> QED BY <1>3, <2>1, <2>2, <2>3 DEF WsFail, TypeOK, boundVars, pastVars
  <1>4. CASE WsDrop(i)
    <2>1. SocketsOK'
      <3>1. [ws[i] EXCEPT !.pc = "dying", !.code = 1006] \in WsThreads
        <4> DEFINE p == "dying"
                   c == 1006
        <4>1. p \in WsPcs /\ c \in Codes
          BY DEF WsPcs, Codes
        <4> HIDE DEF p, c
        <4>2. [ws[i] EXCEPT !.pc = p, !.code = c] \in WsThreads
          BY <1>a, <1>b, <4>1, WsEnding
        <4> QED BY <4>2 DEF p, c
      <3>2. \E r \in WsThreads : SetWs(i, r)
        BY <1>4, <3>1 DEF WsDrop
      <3> QED BY <1>4, <3>2, SetWsType DEF WsDrop, TypeOK, callVars
    <2>2. CallOK' /\ CallersOK'
      BY <1>4 DEF WsDrop, TypeOK, CallOK, CallersOK, callVars, rejoinVars, callerVars
    <2>3. DiscordOK'
      BY <1>4 DEF WsDrop, TypeOK, DiscordOK, discordVars
    <2> QED BY <1>4, <2>1, <2>2, <2>3 DEF WsDrop, TypeOK, pastVars
  <1>5. CASE WsEnded(i)
    <2>1. SocketsOK'
      <3>1. [ws[i] EXCEPT !.pc = "dying", !.code = 4014] \in WsThreads
        <4> DEFINE p == "dying"
                   c == 4014
        <4>1. p \in WsPcs /\ c \in Codes
          BY DEF WsPcs, Codes
        <4> HIDE DEF p, c
        <4>2. [ws[i] EXCEPT !.pc = p, !.code = c] \in WsThreads
          BY <1>a, <1>b, <4>1, WsEnding
        <4> QED BY <4>2 DEF p, c
      <3>2. \E r \in WsThreads : SetWs(i, r)
        BY <1>5, <3>1 DEF WsEnded
      <3> QED BY <1>5, <3>2, SetWsType DEF WsEnded, TypeOK, callVars
    <2>2. CallOK' /\ CallersOK'
      BY <1>5 DEF WsEnded, TypeOK, CallOK, CallersOK, callVars, rejoinVars, callerVars
    <2>3. DiscordOK'
      BY <1>5 DEF WsEnded, TypeOK, DiscordOK, discordVars
    <2> QED BY <1>5, <2>1, <2>2, <2>3 DEF WsEnded, TypeOK, boundVars, pastVars
  <1>6. CASE WsDying(i)
    <2>1. SocketsOK'
      <3>1. \E e \in BOOLEAN, n \in Nat :
               \E p \in WsPcs :
                  SetWs(i, [ws[i] EXCEPT !.ever = e, !.attempt = n, !.pc = p])
        <4> DEFINE e == ws[i].ever \/ g_session_ready
                   more == Spent(i) + 1
                   p1 == "wait"
                   p2 == "end"
        <4>1. /\ e \in BOOLEAN /\ Spent(i) \in Nat /\ more \in Nat
              /\ p1 \in WsPcs /\ p2 \in WsPcs
          BY <1>0 DEF Spent
        <4>2. \/ SetWs(i, [ws[i] EXCEPT !.ever = e, !.attempt = more, !.pc = p1])
              \/ SetWs(i, [ws[i] EXCEPT !.ever = e, !.attempt = Spent(i), !.pc = p2])
          BY <1>6 DEF WsDying
        <4> HIDE DEF e, more, p1, p2
        <4> QED BY <4>1, <4>2
      <3>2. \E r \in WsThreads : SetWs(i, r)
        BY <1>a, <3>1, WsTries
      <3> QED BY <1>6, <3>2, SetWsType DEF WsDying, TypeOK
    <2>2. CallOK'
      BY <1>6 DEF WsDying, TypeOK, CallOK, rejoinVars
    <2>3. CallersOK'
      BY <1>6 DEF WsDying, TypeOK, CallersOK, callerVars
    <2>4. DiscordOK'
      BY <1>6 DEF WsDying, TypeOK, DiscordOK, discordVars
    <2> QED BY <1>6, <2>1, <2>2, <2>3, <2>4 DEF WsDying, TypeOK, boundVars, pastVars
  <1>7. CASE WsWait(i)
    <2>1. SocketsOK'
      <3>1. \A b \in BOOLEAN : [ws[i] EXCEPT !.pc = IF b THEN "end" ELSE "connect"] \in WsThreads
        BY <1>0, WsField
      <3>2. \E r \in WsThreads : SetWs(i, r)
        BY <1>7, <3>1 DEF WsWait, TypeOK, CallOK
      <3> QED BY <1>7, <3>2, SetWsType DEF WsWait, TypeOK, callVars
    <2>2. CallOK' /\ CallersOK'
      BY <1>7 DEF WsWait, TypeOK, CallOK, CallersOK, callVars, rejoinVars, callerVars
    <2>3. DiscordOK'
      BY <1>7 DEF WsWait, TypeOK, DiscordOK, discordVars
    <2> QED BY <1>7, <2>1, <2>2, <2>3 DEF WsWait, TypeOK, boundVars, pastVars
  <1>8. CASE WsEnd(i)
    <2>1. SocketsOK'
      <3>1. \E p \in WsPcs : SetWs(i, [ws[i] EXCEPT !.pc = p])
        BY <1>0, <1>8 DEF WsEnd
      <3>2. \E r \in WsThreads : SetWs(i, r)
        BY <1>0, <3>1, WsField
      <3> QED BY <1>8, <3>2, SetWsType DEF WsEnd, TypeOK
    <2>2. DiscordOK'
      <3>1. CASE Goodbye(i)
        BY <1>0, <1>8, <3>1, Op4Type DEF WsEnd, TypeOK
      <3>2. CASE ~Goodbye(i)
        BY <1>8, <3>2 DEF WsEnd, TypeOK, DiscordOK, discordVars
      <3> QED BY <3>1, <3>2
    <2>3. g_voice_session' \in Nat
      BY <1>8 DEF WsEnd, TypeOK, CallOK
    <2>4. g_rejoins' \in Nat /\ upsets' \in Nat
      BY <1>8 DEF WsEnd, TypeOK, CallOK
    <2>5. CallOK'
      BY <1>8, <2>3, <2>4 DEF WsEnd, TypeOK, CallOK
    <2>6. CallersOK'
      BY <1>8 DEF WsEnd, TypeOK, CallersOK, callerVars
    <2> QED BY <1>8, <2>1, <2>2, <2>4, <2>5, <2>6 DEF WsEnd, TypeOK, pastVars
  <1>9. CASE WsSpawn(i)
    <2>1. SocketsOK'
      <3>1. [ws[i] EXCEPT !.pc = "exited"] \in WsThreads
        BY <1>0, WsField
      <3>2. \E r \in WsThreads : SetWs(i, r)
        BY <1>9, <3>1 DEF WsSpawn
      <3> QED BY <1>9, <3>2, SetWsType DEF WsSpawn, TypeOK, callVars
    <2>2. CallersOK'
      <3>1. PICK j \in Rejoiners :
              Goto(j, "new") /\ job' = [job EXCEPT ![j].chan = g_channel_id]
        BY <1>9 DEF WsSpawn
      <3>2. j \in Callers /\ "new" \in Place(j) /\ g_channel_id \in Nat
        BY DEF Callers, Rejoiners, Place, RejoinStates, TypeOK, CallOK
      <3>3. job' \in [Callers -> Jobs]
        BY <3>1, <3>2 DEF TypeOK, CallersOK, Jobs
      <3> QED BY <1>9, <3>1, <3>2, <3>3, GotoType DEF WsSpawn, TypeOK, CallersOK
    <2>3. CallOK'
      BY <1>9 DEF WsSpawn, TypeOK, CallOK, callVars, rejoinVars
    <2>4. DiscordOK'
      BY <1>9 DEF WsSpawn, TypeOK, DiscordOK, discordVars
    <2> QED BY <1>9, <2>1, <2>2, <2>3, <2>4 DEF WsSpawn, TypeOK, boundVars, pastVars
  <1> QED BY <1>1, <1>2, <1>3, <1>4, <1>5, <1>6, <1>7, <1>8, <1>9 DEF WsThread

LEMMA RejoinType == ASSUME TypeOK, NEW j \in Rejoiners, Rejoin(j) PROVE TypeOK'
  <1>0. /\ j \in Callers /\ Place(j) = RejoinStates
        /\ job[j].chan \in Nat /\ job[j].era \in Nat
        /\ g_generation \in Nat
    <2>1. j \in Callers /\ Place(j) = RejoinStates
      BY DEF Callers, Rejoiners, Place
    <2> QED BY <2>1 DEF TypeOK, CallersOK, CallOK, Jobs
  <1>1. CASE RjEnter(j)
    <2>1. CallersOK'
      <3>1. CASE g_rejoining
        BY <1>0, <1>1, <3>1, FinishType DEF RjEnter, TypeOK
      <3>2. CASE ~g_rejoining
        <4>1. job' \in [Callers -> Jobs]
          BY <1>0, <1>1, <3>2 DEF RjEnter, TypeOK, CallersOK, Jobs
        <4>2. "ready" \in RejoinStates
          BY DEF RejoinStates
        <4> QED BY <1>0, <1>1, <3>2, <4>1, <4>2, GotoType DEF RjEnter, TypeOK, CallersOK
      <3> QED BY <3>1, <3>2
    <2>2. CallOK' /\ SocketsOK'
      BY <1>1 DEF RjEnter, TypeOK, CallOK, SocketsOK, callVars
    <2>3. DiscordOK'
      BY <1>1 DEF RjEnter, TypeOK, DiscordOK, discordVars
    <2> QED BY <1>1, <2>1, <2>2, <2>3 DEF RjEnter, TypeOK, boundVars, pastVars
  <1>2. CASE RjAnnounce(j)
    <2>1. CallersOK'
      <3>1. CASE Goto(j, "pair") /\ UNCHANGED job
        BY <1>0, <1>2, <3>1, GotoType DEF RjAnnounce, TypeOK, CallersOK, RejoinStates
      <3>2. CASE Cancel(j)
        BY <1>0, <1>2, <3>2, FinishType DEF RjAnnounce, Cancel, TypeOK
      <3> QED BY <1>2, <3>1, <3>2 DEF RjAnnounce
    <2>2. DiscordOK'
      <3>1. CASE StillOurs(j)
        BY <1>0, <1>2, <3>1, Op4Type DEF RjAnnounce, TypeOK
      <3>2. CASE ~StillOurs(j)
        BY <1>2, <3>2 DEF RjAnnounce, TypeOK, DiscordOK, discordVars
      <3> QED BY <3>1, <3>2
    <2>3. CallOK' /\ SocketsOK'
      BY <1>2 DEF RjAnnounce, Cancel, TypeOK, CallOK, SocketsOK
    <2> QED BY <1>2, <2>1, <2>2, <2>3 DEF RjAnnounce, Waited, TypeOK, boundVars, pastVars
  <1>3. CASE RjPair(j)
    <2>1. CallersOK'
      <3>1. CASE Cancel(j)
        BY <1>0, <1>3, <3>1, FinishType DEF RjPair, Cancel, TypeOK
      <3>2. CASE \E s \in {"rehand", "check"} : Goto(j, s) /\ UNCHANGED job
        BY <1>0, <1>3, <3>2, GotoType DEF RjPair, TypeOK, CallersOK, RejoinStates
      <3> QED BY <1>3, <3>1, <3>2 DEF RjPair
    <2>2. CallOK' /\ SocketsOK'
      BY <1>3 DEF RjPair, Cancel, TypeOK, CallOK, SocketsOK, callVars
    <2>3. DiscordOK'
      BY <1>3 DEF RjPair, TypeOK, DiscordOK, discordVars
    <2> QED BY <1>3, <2>1, <2>2, <2>3 DEF RjPair, Waited, TypeOK, boundVars, pastVars
  <1>4. CASE Rehandshake(j)
    <2>1. CallersOK'
      BY <1>0, <1>4, GotoType DEF Rehandshake, TypeOK, CallersOK, RejoinStates
    <2>2. SocketsOK'
      BY <1>4, NoWsType DEF Rehandshake, TypeOK, SocketsOK
    <2>3. CallOK'
      BY <1>4 DEF Rehandshake, TypeOK, CallOK, rejoinVars
    <2>4. DiscordOK'
      BY <1>4 DEF Rehandshake, TypeOK, DiscordOK, discordVars
    <2> QED BY <1>4, <2>1, <2>2, <2>3, <2>4 DEF Rehandshake, Waited, TypeOK, boundVars, pastVars
  <1>5. CASE RjUp(j)
    <2>1. CallersOK'
      <3>1. CASE Finish(j)
        BY <1>0, <1>5, <3>1, FinishType DEF RjUp, TypeOK
      <3>2. CASE Goto(j, "check") /\ UNCHANGED job
        BY <1>0, <1>5, <3>2, GotoType DEF RjUp, TypeOK, CallersOK, RejoinStates
      <3> QED BY <1>5, <3>1, <3>2 DEF RjUp
    <2>2. CallOK' /\ SocketsOK'
      BY <1>5 DEF RjUp, TypeOK, CallOK, SocketsOK, callVars
    <2>3. DiscordOK'
      BY <1>5 DEF RjUp, TypeOK, DiscordOK, discordVars
    <2> QED BY <1>5, <2>1, <2>2, <2>3 DEF RjUp, Waited, TypeOK, boundVars, pastVars
  <1>6. CASE RjCheck(j)
    <2>1. CallersOK'
      <3>1. CASE StillOurs(j)
        BY <1>0, <1>6, <3>1, CallType DEF RjCheck, TypeOK, Ops
      <3>2. CASE ~StillOurs(j)
        BY <1>0, <1>6, <3>2, FinishType DEF RjCheck, Cancel, TypeOK
      <3> QED BY <3>1, <3>2
    <2>2. CallOK' /\ SocketsOK'
      BY <1>6 DEF RjCheck, Cancel, TypeOK, CallOK, SocketsOK, callVars
    <2>3. DiscordOK'
      BY <1>6 DEF RjCheck, TypeOK, DiscordOK, discordVars
    <2> QED BY <1>6, <2>1, <2>2, <2>3 DEF RjCheck, TypeOK, boundVars, pastVars
  <1>7. CASE HeavyAfter(j)
    <2>1. CallersOK'
      BY <1>0, <1>7, GotoType DEF HeavyAfter, TypeOK, CallersOK, RejoinStates
    <2>2. CallOK' /\ SocketsOK'
      BY <1>7 DEF HeavyAfter, TypeOK, CallOK, SocketsOK, rejoinVars
    <2>3. DiscordOK'
      BY <1>7, Op4Type DEF HeavyAfter, TypeOK
    <2> QED BY <1>7, <2>1, <2>2, <2>3 DEF HeavyAfter, TypeOK, boundVars, pastVars
  <1>8. CASE RjReturn(j)
    <2>1. CallersOK'
      <3>1. CASE Call(j, "join", job[j].chan)
        BY <1>0, <1>8, <3>1, CallType DEF RjReturn, TypeOK, Ops
      <3>2. CASE Cancel(j)
        BY <1>0, <1>8, <3>2, FinishType DEF RjReturn, Cancel, TypeOK
      <3> QED BY <1>8, <3>1, <3>2 DEF RjReturn
    <2>2. CallOK' /\ SocketsOK'
      BY <1>8 DEF RjReturn, Cancel, TypeOK, CallOK, SocketsOK, callVars
    <2>3. DiscordOK'
      BY <1>8 DEF RjReturn, TypeOK, DiscordOK, discordVars
    <2> QED BY <1>8, <2>1, <2>2, <2>3 DEF RjReturn, TypeOK, boundVars, pastVars
  <1> QED BY <1>0, <1>1, <1>2, <1>3, <1>4, <1>5, <1>6, <1>7, <1>8, StopEnterType,
          StopReapType, JoinAfterType DEF Rejoin

\* What Discord and others do only reaches the inbox.
LEMMA OthersType == ASSUME TypeOK, Others PROVE TypeOK'
  <1>1. CallOK' /\ CallersOK' /\ SocketsOK'
    BY ZenonT(40) DEF Others, Kick, GatewaySessionLost, Move, TypeOK, CallOK, CallersOK, SocketsOK,
           callVars, rejoinVars, callerVars
  <1>2. DiscordOK'
    <2>1. CASE Kick
      <3>1. Append(inbox, State(0, 0)) \in Seq(Messages)
        BY DEF TypeOK, DiscordOK, State, Messages
      <3> QED BY <2>1, <3>1 DEF Kick, TypeOK, DiscordOK
    <2>2. CASE GatewaySessionLost
      BY <2>2 DEF GatewaySessionLost, TypeOK, DiscordOK
    <2>3. ASSUME NEW c \in Channels, NEW across \in BOOLEAN, Move(c, across)
          PROVE  DiscordOK'
      <3>1. c \in Nat /\ State(c, dsess + 1) \in Messages /\ Server(dend + 1) \in Messages
        BY ChannelsAssumption DEF TypeOK, DiscordOK, State, Server, Messages
      <3>2. /\ Append(inbox, State(c, dsess + 1)) \in Seq(Messages)
            /\ inbox \o <<State(c, dsess + 1), Server(dend + 1)>> \in Seq(Messages)
        BY <3>1 DEF TypeOK, DiscordOK
      <3>3. inbox' \in Seq(Messages)
        BY <2>3, <3>2 DEF Move
      <3>4. dend' \in Nat
        BY <2>3 DEF Move, TypeOK, DiscordOK
      <3> QED BY <2>3, <3>1, <3>3, <3>4 DEF Move, TypeOK, DiscordOK
    <2> QED BY <2>1, <2>2, <2>3 DEF Others
  <1>3. want' \in Nat /\ ops' \in Nat /\ moves' \in Nat /\ upsets' \in Nat
    <2>1. CASE Kick \/ GatewaySessionLost
      BY <2>1 DEF Kick, GatewaySessionLost, TypeOK
    <2>2. ASSUME NEW c \in Channels, NEW across \in BOOLEAN, Move(c, across)
          PROVE  want' \in Nat /\ ops' \in Nat /\ moves' \in Nat /\ upsets' \in Nat
      BY <2>2, ChannelsAssumption DEF Move, TypeOK
    <2> QED BY <2>1, <2>2 DEF Others
  <1>4. UNCHANGED pastVars
    BY DEF Others, Kick, GatewaySessionLost, Move
  <1> QED BY <1>1, <1>2, <1>3, <1>4 DEF TypeOK, pastVars

LEMMA StepType == ASSUME TypeOK, [Next]_vars PROVE TypeOK'
  <1>1. CASE UNCHANGED vars
    <2>1. CallOK' /\ CallersOK' /\ SocketsOK'
      BY <1>1 DEF vars, TypeOK, CallOK, CallersOK, SocketsOK, callVars, rejoinVars,
                  callerVars
    <2>2. DiscordOK'
      BY <1>1 DEF vars, TypeOK, DiscordOK, discordVars
    <2> QED BY <1>1, <2>1, <2>2 DEF vars, TypeOK, boundVars, pastVars
  <1> QED BY <1>1, UiType, GatewayType, WsThreadType, RejoinType, OthersType DEF Next

\* Every variable keeps its type, whatever the threads do.
THEOREM TypeCorrect == Spec => []TypeOK
  <1>1. Init => TypeOK
    BY InitType
  <1>2. TypeOK /\ [Next]_vars => TypeOK'
    BY StepType
  <1> QED BY <1>1, <1>2, PTL DEF Spec

-----------------------------------------------------------------------------
(* One socket: the inductive invariant.                                      *)

\* Every websocket thread there is, living or not yet reaped, is the one the
\* next stop or rebuild waits for.
OneThread == \A i \in Slots : ws[i].pc # "none" => g_ws_thread = i

\* A call has its thread, and what is taken apart leaves none behind.
HandleInv ==
    /\ g_running => g_ws_thread # 0
    /\ ~g_running /\ life = "free" => g_ws_thread = 0

\* Who has the lock takes a stopped call apart.
LockInv ==
    /\ life # "free" => ~g_running
    /\ \A t \in Callers : st[t] = "reap" <=> life = t

\* A rejoin that may still come to rebuild what is below the call.
MayRebuild(j) ==
    \/ st[j] \in {"new", "rehand"}
    \/ st[j] \in {"ready", "pair"} /\ g_running /\ g_generation = job[j].era

\* There is one at most, and none while a websocket thread is at work: the
\* thread that asked for it was the last one of its call.
RebuildInv ==
    /\ \A i \in Slots : ws[i].pc = "spawn" => g_running
    /\ \A j \in Rejoiners :
          MayRebuild(j) => g_running /\ ws[g_ws_thread].pc = "exited"
    /\ \A j, k \in Rejoiners : MayRebuild(j) /\ MayRebuild(k) => j = k
    /\ \A j \in Rejoiners : st[j] \in {"ready", "pair"} => job[j].era <= g_generation

LifeInv == TypeOK /\ OneThread /\ HandleInv /\ LockInv /\ RebuildInv

LEMMA InitLife == ASSUME Init PROVE LifeInv
  <1>1. TypeOK
    BY InitType
  <1>2. /\ \A i \in Slots : ws[i].pc = "none"
        /\ \A t \in Callers : st[t] = "idle"
        /\ ~g_running /\ g_ws_thread = 0 /\ life = "free"
    BY DEF Init, NoWs
  <1>3. \A j \in Rejoiners : st[j] = "idle"
    BY <1>2 DEF Callers
  <1>4. "free" \notin Callers
    BY DEF Callers, Rejoiners
  <1> QED BY <1>1, <1>2, <1>3, <1>4 DEF LifeInv, OneThread, HandleInv, LockInv, RebuildInv,
          MayRebuild

\* Steps that leave the threads, the lock and the call's generation alone, and
\* give nobody the right to rebuild.
LEMMA AsideKeeps ==
    ASSUME LifeInv, TypeOK',
           UNCHANGED <<ws, g_ws_thread, g_running, g_generation, life>>,
           \A t \in Callers : st'[t] = "reap" <=> st[t] = "reap",
           \A j \in Rejoiners : MayRebuild(j)' => MayRebuild(j),
           \A j \in Rejoiners : st'[j] \in {"ready", "pair"} => job'[j].era <= g_generation
    PROVE  LifeInv'
  BY DEF LifeInv, OneThread, HandleInv, LockInv, RebuildInv

\* The usual case of it: one caller goes from one place to another, neither of
\* them on the way to a rebuild or inside a stop, and keeps its generation.
Elsewhere == {"idle", "call", "after", "slept", "start", "up", "check"}

LEMMA AloofKeeps ==
    ASSUME LifeInv, TypeOK',
           UNCHANGED <<ws, g_ws_thread, g_running, g_generation, life>>,
           NEW t \in Callers, st[t] # "reap",
           \A k \in Callers \ {t} : st'[k] = st[k] /\ job'[k] = job[k],
           \/ st'[t] \in Elsewhere
           \/ st'[t] = st[t] /\ job'[t] = job[t]
    PROVE  LifeInv'
  <1>1. \A k \in Callers : st'[k] = "reap" <=> st[k] = "reap"
    BY DEF Elsewhere
  <1>2. ASSUME NEW j \in Rejoiners
        PROVE  /\ MayRebuild(j)' => MayRebuild(j)
               /\ st'[j] \in {"ready", "pair"} => job'[j].era <= g_generation
    <2>1. j \in Callers
      BY DEF Callers
    <2>2. CASE j = t /\ st'[t] \in Elsewhere
      BY <2>2 DEF MayRebuild, Elsewhere
    <2>3. CASE st'[j] = st[j] /\ job'[j] = job[j]
      BY <2>3 DEF MayRebuild, LifeInv, RebuildInv
    <2> QED BY <2>1, <2>2, <2>3
  <1> QED BY <1>1, <1>2, AsideKeeps

\* A websocket thread that goes on, or ends, inside its own loop.
LEMMA WsOwnKeeps ==
    ASSUME LifeInv, TypeOK', NEW i \in Slots,
           ws[i].pc \notin {"none", "spawn", "exited"},
           ws'[i].pc # "none", ws'[i].pc = "spawn" => g_running,
           \A k \in Slots \ {i} : ws'[k] = ws[k],
           UNCHANGED <<g_ws_thread, g_running, g_generation, life, st, job>>
    PROVE  LifeInv'
  <1>1. g_ws_thread = i
    BY DEF LifeInv, OneThread
  <1>2. \A j \in Rejoiners : ~MayRebuild(j)
    BY <1>1 DEF LifeInv, RebuildInv
  <1>3. \A j \in Rejoiners : ~MayRebuild(j)'
    BY <1>2 DEF MayRebuild
  <1>4. OneThread'
    BY <1>1 DEF LifeInv, OneThread
  <1>5. HandleInv' /\ LockInv'
    BY DEF LifeInv, HandleInv, LockInv
  <1>6. RebuildInv'
    BY <1>3 DEF LifeInv, RebuildInv
  <1> QED BY <1>4, <1>5, <1>6 DEF LifeInv

\* A stop begins: no rejoin may still rebuild, for the call has a new generation.
LEMMA StopEnterKeeps ==
    ASSUME LifeInv, TypeOK', ~overtook', NEW t \in Callers, StopEnter(t)
    PROVE  LifeInv'
  <1>1. /\ st \in [Callers -> RejoinStates \union {"start"}] /\ DOMAIN ws = Slots
        /\ st[t] = "call" /\ life = "free" /\ "free" \notin Callers
        /\ g_generation \in Nat
    BY DEF LifeInv, TypeOK, CallersOK, SocketsOK, CallOK, StopEnter, LockFree, Callers,
           Rejoiners
  <1>2. CASE ~g_running
    <2>1. /\ st'[t] = "after" /\ \A k \in Callers \ {t} : st'[k] = st[k]
          /\ UNCHANGED <<ws, g_ws_thread, g_running, g_generation, life, job>>
      BY <1>1, <1>2 DEF StopEnter, Goto
    <2> QED BY <1>1, <2>1, AloofKeeps DEF Elsewhere
  <1>3. CASE g_running
    <2>1. /\ st'[t] = "reap" /\ \A k \in Callers \ {t} : st'[k] = st[k]
          /\ life' = t /\ ~g_running' /\ g_generation' = g_generation + 1
          /\ ws' = [i \in Slots |-> Closed(ws[i])]
          /\ UNCHANGED <<g_ws_thread, job>>
      BY <1>1, <1>3 DEF StopEnter, Goto
    <2>2. /\ \A j \in Rejoiners : st[j] \notin {"new", "rehand"}
          /\ \A i \in Slots : ws[i].pc # "spawn"
      BY <1>3 DEF StopEnter, Overtakes, AboutToAct
    <2>3. ASSUME NEW i \in Slots
          PROVE  /\ ws'[i].pc # "none" => ws[i].pc # "none"
                 /\ ws'[i].pc # "spawn"
      <3>1. ws[i] \in WsThreads
        BY DEF LifeInv, TypeOK, SocketsOK
      <3>2. Closed(ws[i]).pc \in {ws[i].pc, "dying"} /\ (ws[i].pc = "none" => Closed(ws[i]) = ws[i])
        BY <3>1 DEF Closed, WsThreads
      <3> QED BY <2>1, <2>2, <3>2
    <2>4. OneThread'
      BY <2>1, <2>3 DEF LifeInv, OneThread
    <2>5. HandleInv'
      BY <1>1, <2>1 DEF HandleInv
    <2>6. LockInv'
      BY <1>1, <2>1 DEF LifeInv, LockInv
    <2>7. RebuildInv'
      <3>1. \A j \in Rejoiners : j \in Callers
        BY DEF Callers
      <3>2. ASSUME NEW j \in Rejoiners
            PROVE  /\ ~MayRebuild(j)'
                   /\ st'[j] \in {"ready", "pair"} => job'[j].era <= g_generation'
        <4>1. st'[j] \in {"ready", "pair"} => job[j].era <= g_generation /\ job[j].era \in Nat
          <5>1. st'[j] \in {"ready", "pair"} => st[j] \in {"ready", "pair"}
            BY <2>1, <3>1
          <5> QED BY <3>1, <5>1 DEF LifeInv, RebuildInv, TypeOK, CallersOK, Jobs
        <4>2. st'[j] \notin {"new", "rehand"}
          BY <2>1, <2>2, <3>1
        <4> QED BY <1>1, <2>1, <4>1, <4>2 DEF MayRebuild
      <3> QED BY <2>3, <3>2 DEF RebuildInv
    <2> QED BY <2>4, <2>5, <2>6, <2>7 DEF LifeInv
  <1> QED BY <1>2, <1>3

\* A stop ends with the thread it waited for reaped, and no other.
LEMMA StopReapKeeps ==
    ASSUME LifeInv, TypeOK', ~leftBehind', NEW t \in Callers, StopReap(t)
    PROVE  LifeInv'
  <1>1. /\ st \in [Callers -> RejoinStates \union {"start"}]
        /\ st[t] = "reap" /\ life = t /\ "free" \notin Callers /\ ~g_running
    BY DEF LifeInv, LockInv, TypeOK, CallersOK, StopReap, Callers, Rejoiners
  <1>2. /\ st'[t] = "after" /\ \A k \in Callers \ {t} : st'[k] = st[k]
        /\ life' = "free" /\ g_ws_thread' = 0
        /\ UNCHANGED <<g_running, g_generation, job>>
    BY <1>1 DEF StopReap, Goto, HandleAfterStop
  <1>3. \A i \in Slots : ws'[i].pc = "none"
    <2>1. ASSUME NEW i \in Slots, i # g_ws_thread PROVE ws'[i].pc = "none"
      BY <2>1 DEF StopReap, LifeInv, OneThread
    <2>2. ASSUME NEW i \in Slots, i = g_ws_thread PROVE ws'[i].pc = "none"
      BY <2>2 DEF StopReap, NoWs
    <2> QED BY <2>1, <2>2
  <1>4. \A j \in Rejoiners : ~MayRebuild(j)
    BY <1>1 DEF LifeInv, RebuildInv
  <1>5. ASSUME NEW j \in Rejoiners
        PROVE  /\ ~MayRebuild(j)'
               /\ st'[j] \in {"ready", "pair"} => job'[j].era <= g_generation'
    <2>1. st'[j] = st[j] \/ st'[j] = "after"
      BY <1>2 DEF Callers
    <2> QED BY <1>2, <1>4, <2>1 DEF MayRebuild, LifeInv, RebuildInv
  <1>6. OneThread' /\ HandleInv' /\ RebuildInv'
    BY <1>1, <1>2, <1>3, <1>5 DEF OneThread, HandleInv, RebuildInv
  <1>7. LockInv'
    BY <1>1, <1>2 DEF LifeInv, LockInv
  <1> QED BY <1>6, <1>7 DEF LifeInv

\* A call starts where nothing is left of another one.
LEMMA StartVoiceKeeps ==
    ASSUME LifeInv, TypeOK', ~overtook', StartVoice
    PROVE  LifeInv'
  <1>1. /\ st \in [Callers -> RejoinStates \union {"start"}] /\ DOMAIN ws = Slots
        /\ job \in [Callers -> Jobs] /\ "gw" \in Callers /\ "gw" \notin Rejoiners
        /\ st["gw"] = "start" /\ life = "free" /\ "free" \notin Callers
        /\ g_generation \in Nat
    BY DEF LifeInv, TypeOK, CallersOK, SocketsOK, CallOK, StartVoice, LockFree, Callers,
           Rejoiners
  <1>2. /\ st'["gw"] = "idle"
        /\ \A k \in Callers \ {"gw"} : st'[k] = st[k] /\ job'[k] = job[k]
        /\ UNCHANGED life
    BY <1>1 DEF StartVoice, Finish, Goto
  <1>3. CASE ~Starts
    BY <1>1, <1>2, <1>3, AloofKeeps DEF StartVoice, Elsewhere
  <1>4. CASE Starts
    <2>1. /\ g_running' /\ g_generation' = g_generation + 1
          /\ ~g_running /\ g_ws_thread = 0
      BY <1>1, <1>4 DEF StartVoice, Starts, LifeInv, HandleInv
    <2>2. PICK i \in Slots : NewWs(i)
      BY <1>4 DEF StartVoice
    <2>3. /\ g_ws_thread' = i /\ ws'[i].pc = "new"
          /\ \A k \in Slots \ {i} : ws'[k].pc = "none"
      <3>1. \A k \in Slots : ws[k].pc = "none"
        BY <2>1 DEF LifeInv, OneThread, Slots
      <3>2. [NoWs EXCEPT !.pc = "new"].pc = "new"
        BY DEF NoWs
      <3> QED BY <1>1, <2>2, <3>1, <3>2 DEF NewWs, Free
    <2>4. \A j \in Rejoiners : ~MayRebuild(j)
      BY <2>1 DEF LifeInv, RebuildInv
    <2>5. ASSUME NEW j \in Rejoiners
          PROVE  /\ ~MayRebuild(j)'
                 /\ st'[j] \in {"ready", "pair"} => job'[j].era <= g_generation'
      <3>1. st'[j] = st[j] /\ job'[j] = job[j] /\ job[j].era \in Nat
        BY <1>1, <1>2 DEF Callers, Jobs
      <3>2. st[j] \notin {"new", "rehand"}
        BY <2>4 DEF MayRebuild
      <3>3. st[j] \in {"ready", "pair"} => job[j].era <= g_generation
        BY DEF LifeInv, RebuildInv
      <3> QED BY <1>1, <2>1, <3>1, <3>2, <3>3 DEF MayRebuild
    <2>6. OneThread' /\ RebuildInv'
      BY <2>1, <2>3, <2>5 DEF OneThread, RebuildInv
    <2>7. HandleInv'
      BY <2>1, <2>3 DEF HandleInv, Slots
    <2>8. LockInv'
      BY <1>1, <1>2 DEF LifeInv, LockInv
    <2> QED BY <2>6, <2>7, <2>8 DEF LifeInv
  <1> QED BY <1>3, <1>4

\* A rebuild finds the thread it replaces at its end, and is the only one.
LEMMA RehandshakeKeeps ==
    ASSUME LifeInv, TypeOK', NEW j \in Rejoiners, Rehandshake(j)
    PROVE  LifeInv'
  <1>1. /\ st \in [Callers -> RejoinStates \union {"start"}] /\ DOMAIN ws = Slots
        /\ j \in Callers /\ st[j] = "rehand"
    BY DEF LifeInv, TypeOK, CallersOK, SocketsOK, Rehandshake, Callers
  <1>2. MayRebuild(j) /\ g_running /\ ws[g_ws_thread].pc = "exited" /\ g_ws_thread # 0
    BY <1>1 DEF MayRebuild, LifeInv, RebuildInv, HandleInv
  <1>3. /\ st'[j] = "up" /\ \A k \in Callers \ {j} : st'[k] = st[k]
        /\ UNCHANGED <<g_running, g_generation, life, job>>
    BY <1>1 DEF Rehandshake, Goto
  <1>4. PICK i \in Slots :
          /\ Free(i)
          /\ ws' = [k \in Slots |->
                     IF k = i THEN [NoWs EXCEPT !.pc = "new"]
                     ELSE IF k = g_ws_thread /\ Reaped THEN NoWs ELSE ws[k]]
          /\ g_ws_thread' = i
    BY DEF Rehandshake
  <1>5. ws'[i].pc = "new" /\ \A k \in Slots \ {i} : ws'[k].pc = "none"
    <2>1. NoWs.pc = "none" /\ [NoWs EXCEPT !.pc = "new"].pc = "new" /\ Reaped
      BY <1>2 DEF NoWs, Reaped
    <2>2. \A k \in Slots : k # g_ws_thread => ws[k].pc = "none"
      BY DEF LifeInv, OneThread
    <2> QED BY <1>4, <2>1, <2>2
  <1>6. ASSUME NEW k \in Rejoiners
        PROVE  /\ ~MayRebuild(k)'
               /\ st'[k] \in {"ready", "pair"} => job'[k].era <= g_generation'
    <2>1. k = j \/ ~MayRebuild(k)
      BY <1>2 DEF LifeInv, RebuildInv
    <2>2. k \in Callers
      BY DEF Callers
    <2> QED BY <1>3, <2>1, <2>2 DEF MayRebuild, LifeInv, RebuildInv
  <1>7. OneThread' /\ HandleInv' /\ RebuildInv'
    BY <1>2, <1>3, <1>4, <1>5, <1>6 DEF OneThread, HandleInv, RebuildInv, Slots
  <1>8. LockInv'
    BY <1>1, <1>3 DEF LifeInv, LockInv
  <1> QED BY <1>7, <1>8 DEF LifeInv

\* The thread that asks for a rejoin is over as the rejoin begins.
LEMMA WsSpawnKeeps ==
    ASSUME LifeInv, TypeOK', NEW i \in Slots, WsSpawn(i)
    PROVE  LifeInv'
  <1>1. /\ st \in [Callers -> RejoinStates \union {"start"}] /\ DOMAIN ws = Slots
        /\ ws[i] \in WsThreads /\ job \in [Callers -> Jobs]
        /\ ws[i].pc = "spawn" /\ g_ws_thread = i /\ g_running
    BY DEF LifeInv, TypeOK, CallersOK, SocketsOK, WsSpawn, OneThread, RebuildInv
  <1>2. \A j \in Rejoiners : ~MayRebuild(j)
    BY <1>1 DEF LifeInv, RebuildInv
  <1>3. PICK j \in Rejoiners : st[j] = "idle" /\ Goto(j, "new")
                               /\ job' = [job EXCEPT ![j].chan = g_channel_id]
    BY DEF WsSpawn
  <1>4. /\ j \in Callers /\ st'[j] = "new" /\ \A k \in Callers \ {j} : st'[k] = st[k]
        /\ \A k \in Callers \ {j} : job'[k] = job[k]
        /\ UNCHANGED <<g_running, g_generation, life, g_ws_thread>>
    BY <1>1, <1>3 DEF Goto, Callers, WsSpawn, callVars
  <1>5. ws'[i].pc = "exited" /\ \A k \in Slots \ {i} : ws'[k] = ws[k]
    <2>1. [ws[i] EXCEPT !.pc = "exited"].pc = "exited"
      BY <1>1 DEF WsThreads
    <2> QED BY <1>1, <2>1 DEF WsSpawn, SetWs
  <1>6. ASSUME NEW k \in Rejoiners, k # j
        PROVE  /\ ~MayRebuild(k)'
               /\ st'[k] \in {"ready", "pair"} => job'[k].era <= g_generation'
    <2>1. k \in Callers
      BY DEF Callers
    <2> QED BY <1>2, <1>4, <1>6, <2>1 DEF MayRebuild, LifeInv, RebuildInv
  <1>7. RebuildInv'
    BY <1>1, <1>4, <1>5, <1>6 DEF RebuildInv, LifeInv
  <1>8. OneThread' /\ HandleInv'
    BY <1>1, <1>4, <1>5 DEF LifeInv, OneThread, HandleInv
  <1>9. LockInv'
    BY <1>3, <1>4 DEF LifeInv, LockInv
  <1> QED BY <1>7, <1>8, <1>9 DEF LifeInv

-----------------------------------------------------------------------------
(* Every step keeps it.                                                      *)

LEMMA JoinAfterKeeps ==
    ASSUME LifeInv, TypeOK', NEW t \in Callers, JoinAfter(t)
    PROVE  LifeInv'
  <1>1. st[t] = "after" /\ st' = [st EXCEPT ![t] = "idle"] /\ job' = [job EXCEPT ![t] = NoJob]
        /\ UNCHANGED <<ws, g_ws_thread, g_running, g_generation, life>>
    BY DEF JoinAfter, Finish, Goto
  <1>2. /\ st'[t] \in Elsewhere
        /\ \A k \in Callers \ {t} : st'[k] = st[k] /\ job'[k] = job[k]
    BY <1>1 DEF LifeInv, TypeOK, CallersOK, Elsewhere
  <1> QED BY <1>1, <1>2, AloofKeeps

LEMMA UiKeeps ==
    ASSUME LifeInv, TypeOK', ~leftBehind', ~overtook', Ui
    PROVE  LifeInv'
  <1>0. "ui" \in Callers /\ DOMAIN st = Callers /\ DOMAIN job = Callers
    BY DEF Callers, LifeInv, TypeOK, CallersOK
  <1>1. CASE (\E c \in Channels : UiJoin(c)) \/ UiLeave \/ LeaveAfter
    <2>1. /\ st["ui"] \in {"idle", "after"}
          /\ UNCHANGED <<ws, g_ws_thread, g_running, g_generation, life>>
      BY <1>1 DEF UiJoin, UiLeave, LeaveAfter, callVars
    <2>2. /\ \A k \in Callers \ {"ui"} : st'[k] = st[k] /\ job'[k] = job[k]
          /\ st'["ui"] \in Elsewhere \/ (st'["ui"] = st["ui"] /\ job'["ui"] = job["ui"])
      BY <1>0, <1>1 DEF UiJoin, UiLeave, LeaveAfter, Call, Finish, Goto, callerVars, Elsewhere
    <2> QED BY <1>0, <2>1, <2>2, AloofKeeps
  <1> QED BY <1>0, <1>1, StopEnterKeeps, StopReapKeeps, JoinAfterKeeps DEF Ui

LEMMA GatewayKeeps ==
    ASSUME LifeInv, TypeOK', ~leftBehind', ~overtook', Gateway
    PROVE  LifeInv'
  <1>0. "gw" \in Callers /\ DOMAIN st = Callers /\ DOMAIN job = Callers
    BY DEF Callers, LifeInv, TypeOK, CallersOK
  <1>1. CASE GwState \/ GwServer \/ KickedAfter \/ MovedAfter \/ GwLost \/ LostAfter
    <2>1. /\ st["gw"] \in {"idle", "after"}
          /\ UNCHANGED <<ws, g_ws_thread, g_running, g_generation, life>>
      BY <1>1 DEF GwState, GwServer, KickedAfter, MovedAfter, GwLost, LostAfter, callVars
    <2>2. \/ UNCHANGED callerVars
          \/ Goto("gw", "start") /\ UNCHANGED job
          \/ Finish("gw")
          \/ \E op, c : Call("gw", op, c)
      BY <1>1 DEF GwState, GwServer, KickedAfter, MovedAfter, GwLost, LostAfter
    <2>3. /\ \A k \in Callers \ {"gw"} : st'[k] = st[k] /\ job'[k] = job[k]
          /\ st'["gw"] \in Elsewhere \/ (st'["gw"] = st["gw"] /\ job'["gw"] = job["gw"])
      BY <1>0, <2>2 DEF Call, Finish, Goto, callerVars, Elsewhere
    <2> QED BY <1>0, <2>1, <2>3, AloofKeeps
  <1> QED BY <1>0, <1>1, StartVoiceKeeps, StopEnterKeeps, StopReapKeeps DEF Gateway

LEMMA WsThreadKeeps ==
    ASSUME LifeInv, TypeOK', NEW i \in Slots, WsThread(i)
    PROVE  LifeInv'
  <1>0. ws[i] \in WsThreads /\ DOMAIN ws = Slots
    BY DEF LifeInv, TypeOK, SocketsOK
  <1>1. CASE WsBegin(i)
    <2>1. ws'[i].pc = "connect" /\ \A k \in Slots \ {i} : ws'[k] = ws[k]
      BY <1>0, <1>1 DEF WsBegin, SetWs, WsThreads
    <2> QED BY <1>1, <2>1, WsOwnKeeps DEF WsBegin, callVars, callerVars
  <1>2. CASE WsOpen(i)
    <2>0. PICK rec : ws' = [ws EXCEPT ![i] = rec] /\ rec.pc \in {"ready", "dying"}
      <3>1. CASE Accepted(i)
        <4> DEFINE rec == [ws[i] EXCEPT !.pc = "ready", !.sess = dsess,
                                        !.opened = TRUE, !.code = 0]
        <4>1. ws' = [ws EXCEPT ![i] = rec]
          BY <1>2, <3>1 DEF WsOpen, SetWs
        <4>2. rec.pc = "ready"
          BY <1>0 DEF WsThreads
        <4> HIDE DEF rec
        <4> QED BY <4>1, <4>2
      <3>2. CASE ~Accepted(i)
        <4> DEFINE rec == [ws[i] EXCEPT !.pc = "dying", !.opened = TRUE, !.code = 4006]
        <4>1. ws' = [ws EXCEPT ![i] = rec]
          BY <1>2, <3>2 DEF WsOpen, SetWs
        <4>2. rec.pc = "dying"
          BY <1>0 DEF WsThreads
        <4> HIDE DEF rec
        <4> QED BY <4>1, <4>2
      <3> QED BY <3>1, <3>2
    <2>1. ws'[i].pc \in {"ready", "dying"} /\ \A k \in Slots \ {i} : ws'[k] = ws[k]
      BY <1>0, <2>0
    <2> QED BY <1>2, <2>1, WsOwnKeeps DEF WsOpen, callerVars
  <1>3. CASE WsFail(i)
    <2>1. ws'[i].pc = "dying" /\ \A k \in Slots \ {i} : ws'[k] = ws[k]
      BY <1>0, <1>3 DEF WsFail, SetWs, WsThreads
    <2> QED BY <1>3, <2>1, WsOwnKeeps DEF WsFail, callVars, callerVars
  <1>4. CASE WsDrop(i)
    <2>1. ws'[i].pc = "dying" /\ \A k \in Slots \ {i} : ws'[k] = ws[k]
      BY <1>0, <1>4 DEF WsDrop, SetWs, WsThreads
    <2> QED BY <1>4, <2>1, WsOwnKeeps DEF WsDrop, callVars, callerVars
  <1>5. CASE WsEnded(i)
    <2>1. ws'[i].pc = "dying" /\ \A k \in Slots \ {i} : ws'[k] = ws[k]
      BY <1>0, <1>5 DEF WsEnded, SetWs, WsThreads
    <2> QED BY <1>5, <2>1, WsOwnKeeps DEF WsEnded, callVars, callerVars
  <1>6. CASE WsDying(i)
    <2>1. ws'[i].pc \in {"wait", "end"} /\ \A k \in Slots \ {i} : ws'[k] = ws[k]
      BY <1>0, <1>6 DEF WsDying, SetWs, WsThreads
    <2> QED BY <1>6, <2>1, WsOwnKeeps DEF WsDying, callerVars
  <1>7. CASE WsWait(i)
    <2>1. ws'[i].pc \in {"connect", "end"} /\ \A k \in Slots \ {i} : ws'[k] = ws[k]
      BY <1>0, <1>7 DEF WsWait, SetWs, WsThreads
    <2> QED BY <1>7, <2>1, WsOwnKeeps DEF WsWait, callVars, callerVars
  <1>8. CASE WsEnd(i)
    <2>1. /\ ws'[i].pc \in {"spawn", "exited"}
          /\ \A k \in Slots \ {i} : ws'[k] = ws[k]
          /\ ws'[i].pc = "spawn" => g_running
      BY <1>0, <1>8 DEF WsEnd, SetWs, ComesBack, WsThreads
    <2> QED BY <1>8, <2>1, WsOwnKeeps DEF WsEnd, callerVars
  <1> QED BY <1>1, <1>2, <1>3, <1>4, <1>5, <1>6, <1>7, <1>8, WsSpawnKeeps DEF WsThread

LEMMA RejoinKeeps ==
    ASSUME LifeInv, TypeOK', ~leftBehind', ~overtook', NEW j \in Rejoiners, Rejoin(j)
    PROVE  LifeInv'
  <1>0. /\ j \in Callers /\ DOMAIN st = Callers /\ DOMAIN job = Callers
        /\ job[j] \in Jobs /\ g_generation \in Nat
    BY DEF Callers, LifeInv, TypeOK, CallersOK, CallOK
  <1>1. CASE RjUp(j) \/ RjCheck(j) \/ HeavyAfter(j) \/ RjReturn(j)
    <2>1. /\ st[j] # "reap"
          /\ UNCHANGED <<ws, g_ws_thread, g_running, g_generation, life>>
      BY <1>1 DEF RjUp, RjCheck, HeavyAfter, RjReturn, callVars
    <2>2. \/ Finish(j)
          \/ \E s \in {"check", "slept"} : Goto(j, s) /\ UNCHANGED job
          \/ \E op, c : Call(j, op, c)
      BY <1>1 DEF RjUp, RjCheck, HeavyAfter, RjReturn, Cancel
    <2>3. /\ \A k \in Callers \ {j} : st'[k] = st[k] /\ job'[k] = job[k]
          /\ st'[j] \in Elsewhere
      BY <1>0, <2>2 DEF Call, Finish, Goto, Elsewhere
    <2> QED BY <1>0, <2>1, <2>3, AloofKeeps
  <1>2. CASE RjEnter(j) \/ RjAnnounce(j) \/ RjPair(j)
    <2>1. /\ st[j] \in {"new", "ready", "pair"}
          /\ UNCHANGED <<ws, g_ws_thread, g_running, g_generation, life>>
      BY <1>2 DEF RjEnter, RjAnnounce, RjPair, callVars
    <2>2. \/ /\ st'[j] \in {"idle", "check"}
             /\ \A k \in Callers \ {j} : job'[k] = job[k]
          \/ /\ st[j] = "new" /\ st'[j] = "ready"
             /\ job'[j].era = g_generation
             /\ \A k \in Callers \ {j} : job'[k] = job[k]
          \/ /\ st[j] = "ready" /\ st'[j] = "pair" /\ UNCHANGED job
          \/ /\ st[j] = "pair" /\ st'[j] = "rehand" /\ StillOurs(j) /\ UNCHANGED job
      <3>1. CASE RjEnter(j)
        BY <1>0, <3>1 DEF RjEnter, Finish, Goto, Jobs
      <3>2. CASE RjAnnounce(j)
        BY <1>0, <3>2 DEF RjAnnounce, Cancel, Finish, Goto
      <3>3. CASE RjPair(j)
        BY <1>0, <3>3 DEF RjPair, Cancel, Finish, Goto
      <3> QED BY <1>2, <3>1, <3>2, <3>3
    <2>3. \A k \in Callers \ {j} : st'[k] = st[k]
      BY <1>0, <1>2 DEF RjEnter, RjAnnounce, RjPair, Cancel, Finish, Goto
    <2>4. \A k \in Callers : st'[k] = "reap" <=> st[k] = "reap"
      BY <2>1, <2>2, <2>3
    <2>5. ASSUME NEW k \in Rejoiners
          PROVE  /\ MayRebuild(k)' => MayRebuild(k)
                 /\ st'[k] \in {"ready", "pair"} => job'[k].era <= g_generation
      <3>1. CASE k = j
        BY <1>0, <2>1, <2>2, <3>1 DEF MayRebuild, StillOurs, LifeInv, RebuildInv
      <3>2. CASE k # j
        <4>1. k \in Callers \ {j}
          BY <3>2 DEF Callers
        <4>2. st'[k] = st[k] /\ job'[k] = job[k]
          BY <2>2, <2>3, <4>1
        <4> QED BY <2>1, <4>2 DEF MayRebuild, LifeInv, RebuildInv
      <3> QED BY <3>1, <3>2
    <2> QED BY <2>1, <2>4, <2>5, AsideKeeps
  <1> QED BY <1>0, <1>1, <1>2, RehandshakeKeeps, StopEnterKeeps, StopReapKeeps, JoinAfterKeeps
      DEF Rejoin

LEMMA OthersKeep ==
    ASSUME LifeInv, TypeOK', Others
    PROVE  LifeInv'
  <1>1. UNCHANGED <<ws, g_ws_thread, g_running, g_generation, life, st, job>>
    BY DEF Others, Kick, GatewaySessionLost, Move, callVars, callerVars
  <1> QED BY <1>1 DEF LifeInv, OneThread, HandleInv, LockInv, RebuildInv, MayRebuild

LEMMA LifeStep ==
    ASSUME LifeInv, ~leftBehind', ~overtook', [Next]_vars
    PROVE  LifeInv'
  <1>1. TypeOK'
    BY StepType DEF LifeInv
  <1>2. CASE UNCHANGED vars
    <2>1. UNCHANGED <<ws, g_ws_thread, g_running, g_generation, life, st, job>>
      BY <1>2 DEF vars, callVars, callerVars
    <2> QED BY <1>1, <2>1 DEF LifeInv, OneThread, HandleInv, LockInv, RebuildInv, MayRebuild
  <1> QED BY <1>1, <1>2, UiKeeps, GatewayKeeps, WsThreadKeeps, RejoinKeeps, OthersKeep DEF Next

-----------------------------------------------------------------------------
(* The history only grows, so what is held against a call stays.            *)

\* Nothing yet that OneSocket excepts, and nothing that could have led to it.
Tidy == ~overtook /\ ~leftBehind
LateInv == leftBehind => late # 0

Grows ==
    /\ overtook => overtook'
    /\ leftBehind => leftBehind'
    /\ refused => refused'
    /\ late' = late \/ late' = late + 1
    /\ leftBehind' => leftBehind \/ late' = late + 1

LEMMA CallerGrows ==
    ASSUME NEW t \in Callers, StopEnter(t) \/ StopReap(t) \/ JoinAfter(t)
    PROVE  Grows
  <1>1. CASE StopEnter(t)
    BY <1>1 DEF StopEnter, Overtakes, pastVars, Grows
  <1>2. CASE StopReap(t)
    BY <1>2 DEF StopReap, Waited, Grows
  <1>3. CASE JoinAfter(t)
    BY <1>3 DEF JoinAfter, pastVars, Grows
  <1> QED BY <1>1, <1>2, <1>3

LEMMA PastGrows == ASSUME [Next]_vars PROVE Grows
  <1>0. "ui" \in Callers /\ "gw" \in Callers /\ \A j \in Rejoiners : j \in Callers
    BY DEF Callers
  <1>1. CASE UNCHANGED pastVars
    BY <1>1 DEF pastVars, Grows
  <1>2. CASE UNCHANGED vars
    BY <1>1, <1>2 DEF vars
  <1>3. CASE Ui
    BY <1>0, <1>1, <1>3, CallerGrows DEF Ui, UiJoin, UiLeave, LeaveAfter
  <1>4. CASE Gateway
    <2>1. CASE StartVoice
      BY <2>1 DEF StartVoice, Overtakes, pastVars, Grows
    <2> QED BY <1>0, <1>1, <1>4, <2>1, CallerGrows
            DEF Gateway, GwState, GwServer, KickedAfter, MovedAfter, GwLost, LostAfter
  <1>5. CASE \E i \in Slots : WsThread(i)
    <2>1. ASSUME NEW i \in Slots, WsFail(i) PROVE Grows
      BY <2>1 DEF WsFail, Grows
    <2> QED BY <1>1, <1>5, <2>1
            DEF WsThread, WsBegin, WsOpen, WsDrop, WsEnded, WsDying, WsWait, WsEnd, WsSpawn
  <1>6. CASE \E j \in Rejoiners : Rejoin(j)
    <2>1. ASSUME NEW j \in Rejoiners, RjAnnounce(j) \/ RjPair(j) \/ Rehandshake(j) \/ RjUp(j)
          PROVE  Grows
      BY <2>1 DEF RjAnnounce, RjPair, Rehandshake, RjUp, Waited, Grows
    <2> QED BY <1>0, <1>1, <1>6, <2>1, CallerGrows
            DEF Rejoin, RjEnter, RjCheck, HeavyAfter, RjReturn
  <1>7. CASE Others
    BY <1>1, <1>7 DEF Others, Kick, GatewaySessionLost, Move
  <1> QED BY <1>2, <1>3, <1>4, <1>5, <1>6, <1>7 DEF Next

LEMMA TidyStep ==
    ASSUME TypeOK, LateInv, Tidy => LifeInv, [Next]_vars
    PROVE  TypeOK' /\ LateInv' /\ (Tidy' => LifeInv')
  <1>1. TypeOK' /\ late \in Nat
    BY StepType DEF TypeOK
  <1>2. LateInv'
    BY <1>1, PastGrows DEF LateInv, Grows
  <1>3. Tidy' => LifeInv'
    BY PastGrows, LifeStep DEF Tidy, Grows
  <1> QED BY <1>1, <1>2, <1>3

LEMMA InitTidy == ASSUME Init PROVE TypeOK /\ LateInv /\ LifeInv
  BY InitLife DEF LifeInv, Init, LateInv

\* However often the call is joined, left, moved, lost and rebuilt, and whatever
\* else fails or takes too long: there are two threads on the voice socket only if
\* a call ended or began under a rejoin that was about to act on it, or a stop gave
\* up on its websocket thread.
THEOREM OneThreadOnTheSocket == Spec => []OneSocket
  <1> DEFINE Inv == TypeOK /\ LateInv /\ (Tidy => LifeInv)
  <1>1. Init => Inv
    BY InitTidy
  <1>2. Inv /\ [Next]_vars => Inv'
    BY TidyStep
  <1>3. Inv => OneSocket
    BY DEF Tidy, LifeInv, OneThread, OneSocket, OnSocket
  <1> QED BY <1>1, <1>2, <1>3, PTL DEF Spec

-----------------------------------------------------------------------------
(* The first join of a call, and what moderators do to it.                   *)

\* The person joined once at most, and neither socket nor session was lost.
Tame == ops <= 1 /\ upsets = 0 /\ late = 0 /\ ~overtook /\ ~refused

\* What the states among the unread dispatches say: that there are none; which
\* channel the last one has; that the first one has another channel.
NoStateIn(q) == \A i \in 1..Len(q) : q[i].kind # "state"
LastIs(q, c) ==
    \E i \in 1..Len(q) :
       /\ q[i].kind = "state" /\ q[i].chan = c
       /\ \A k \in 1..Len(q) : i < k => q[k].kind # "state"
FirstIsNot(q, c) ==
    \E i \in 1..Len(q) :
       /\ q[i].kind = "state" /\ q[i].chan # c
       /\ \A k \in 1..Len(q) : k < i => q[k].kind # "state"

\* The sessions among them are newer than lo, up to hi, and in order.
Names(m) == m.kind = "state" /\ m.chan # 0
Fresh(q, lo, hi) ==
    /\ \A i \in 1..Len(q) : Names(q[i]) => lo < q[i].val /\ q[i].val <= hi
    /\ \A i, k \in 1..Len(q) :
          i < k /\ Names(q[i]) /\ Names(q[k]) => q[i].val < q[k].val

\* Before the join has asked Discord for the channel, nothing has happened.
Pristine ==
    ~g_running /\ dchan = 0 /\ inbox = <<>> /\ g_channel_id = 0 /\ st["gw"] = "idle"

\* The rejoins never come to a rebuild: the gateway's thread is always first.
PlacesInv ==
    /\ gwup = "up"
    /\ \A j \in Rejoiners : st[j] \in {"idle", "new", "ready", "pair"}
    /\ st["gw"] \in {"call", "reap", "after"} => job["gw"].op \in {"kicked", "moved"}
    /\ st["gw"] \in {"reap", "after"} => ~g_running
    /\ st["ui"] \in {"idle", "call", "after"}
    /\ ops = 0 => st["ui"] = "idle"
    /\ st["ui"] # "idle" => job["ui"].op = "join" /\ job["ui"].chan # 0
    /\ ops = 0 \/ st["ui"] # "idle" => Pristine

\* Whoever has read every state knows the channel Discord has for us.
BeingKicked == st["gw"] \in {"call", "reap", "after"} /\ job["gw"].op = "kicked"
Known == IF BeingKicked THEN dchan = 0 ELSE g_channel_id = dchan
WhereInv == LastIs(inbox, dchan) \/ (NoStateIn(inbox) /\ Known)

\* The session in use is older than any that is still to be read about.
SessInv == g_voice_session <= dsess /\ Fresh(inbox, g_voice_session, dsess)

\* A running thread loses its socket to 4006 and 4014 alone; one that is over
\* without a rejoin has said goodbye.
ThreadInv ==
    /\ \A i \in Slots :
         /\ ws[i].pc # "wait"
         /\ ws[i].pc = "ready" =>
               /\ g_running /\ g_session_ready /\ ws[i].opened
               /\ ws[i].sess <= dsess /\ (ws[i].sess = dsess => ws[i].url = dend)
         /\ g_running /\ ws[i].pc \in {"dying", "end"} =>
               ws[i].opened /\ ws[i].code \in {4006, 4014}
         /\ ws[i].code = 4014 => ws[i].pc \in {"dying", "end", "spawn", "exited"}
         /\ ws[i].pc = "spawn" => ws[i].code = 4014
         /\ g_running /\ ws[i].pc = "exited" /\ ws[i].code # 4014 => dchan = 0
    /\ g_running => ws[g_ws_thread].pc # "none"

\* A thread that the voice server took in is in the session Discord has for us,
\* or the gateway's thread is about to take the call apart, or will read that
\* the channel is another one.
Took(i) == ws[i].pc = "ready" \/ ws[i].code = 4014
Settled(i) == /\ ws[i].pc = "ready" /\ ws[i].sess = dsess
              /\ NoStateIn(inbox) /\ g_channel_id = dchan
TookInv ==
    \A i \in Slots :
       g_running /\ Took(i) =>
          /\ g_channel_id # 0
          /\ \/ Settled(i)
             \/ st["gw"] = "call"
             \/ FirstIsNot(inbox, g_channel_id)

\* A rejoin is for a thread that ended with 4014, in the channel of the call, and
\* does not get to see the state it asked for.
RejoinInv ==
    \A j \in Rejoiners :
       /\ MayRebuild(j) =>
             /\ ws[g_ws_thread].code = 4014
             /\ st["gw"] # "call" => job[j].chan = g_channel_id
       /\ st[j] = "pair" /\ StillOurs(j) => ~g_have_state

GoodInv == PlacesInv /\ WhereInv /\ SessInv /\ ThreadInv /\ TookInv /\ RejoinInv

-----------------------------------------------------------------------------
(* Reading and adding dispatches.                                            *)

LEMMA Values ==
    ASSUME NEW q \in Seq(Messages), NEW i \in 1..Len(q) PROVE q[i].val \in Nat
  <1>1. q[i] \in Messages
    OBVIOUS
  <1> QED BY <1>1 DEF Messages

LEMMA TailOf ==
    ASSUME NEW q \in Seq(Messages), q # <<>>
    PROVE  /\ Len(q) \in Nat /\ 0 < Len(q) /\ Len(Tail(q)) = Len(q) - 1
           /\ \A i \in 1..Len(Tail(q)) : Tail(q)[i] = q[i + 1]
           /\ Head(q) = q[1]
  OBVIOUS

LEMMA ServerRead ==
    ASSUME NEW q \in Seq(Messages), q # <<>>, Head(q).kind # "state", NEW c
    PROVE  /\ NoStateIn(Tail(q)) <=> NoStateIn(q)
           /\ LastIs(q, c) => LastIs(Tail(q), c)
           /\ FirstIsNot(q, c) => FirstIsNot(Tail(q), c)
  <1> DEFINE t == Tail(q)
  <1>1. /\ Len(q) \in Nat /\ 0 < Len(q) /\ Len(t) = Len(q) - 1
        /\ \A i \in 1..Len(t) : t[i] = q[i + 1]
        /\ q[1].kind # "state"
    BY TailOf
  <1> HIDE DEF t
  <1>2. \A i \in 1..Len(q) : q[i].kind = "state" => i - 1 \in 1..Len(t) /\ t[i - 1] = q[i]
    <2> TAKE i \in 1..Len(q)
    <2> HAVE q[i].kind = "state"
    <2>1. i # 1
      BY <1>1
    <2>2. i - 1 \in 1..Len(t)
      BY <1>1, <2>1
    <2>3. t[i - 1] = q[(i - 1) + 1] /\ (i - 1) + 1 = i
      BY <1>1, <2>2
    <2> QED BY <2>2, <2>3
  <1>3. \A i \in 1..Len(t) : i + 1 \in 1..Len(q) /\ t[i] = q[i + 1]
    BY <1>1
  <1>4. NoStateIn(t) <=> NoStateIn(q)
    BY <1>2, <1>3 DEF NoStateIn
  <1>5. LastIs(q, c) => LastIs(t, c)
    <2> SUFFICES ASSUME LastIs(q, c) PROVE LastIs(t, c)
      OBVIOUS
    <2>1. PICK i \in 1..Len(q) :
             /\ q[i].kind = "state" /\ q[i].chan = c
             /\ \A k \in 1..Len(q) : i < k => q[k].kind # "state"
      BY DEF LastIs
    <2>2. i - 1 \in 1..Len(t) /\ t[i - 1] = q[i]
      BY <1>2, <2>1
    <2>3. \A k \in 1..Len(t) : i - 1 < k => t[k].kind # "state"
      <3> TAKE k \in 1..Len(t)
      <3>1. k + 1 \in 1..Len(q) /\ t[k] = q[k + 1]
        BY <1>3
      <3> QED BY <1>1, <2>1, <3>1
    <2> QED BY <2>1, <2>2, <2>3 DEF LastIs
  <1>6. FirstIsNot(q, c) => FirstIsNot(t, c)
    <2> SUFFICES ASSUME FirstIsNot(q, c) PROVE FirstIsNot(t, c)
      OBVIOUS
    <2>1. PICK i \in 1..Len(q) :
             /\ q[i].kind = "state" /\ q[i].chan # c
             /\ \A k \in 1..Len(q) : k < i => q[k].kind # "state"
      BY DEF FirstIsNot
    <2>2. i - 1 \in 1..Len(t) /\ t[i - 1] = q[i]
      BY <1>2, <2>1
    <2>3. \A k \in 1..Len(t) : k < i - 1 => t[k].kind # "state"
      <3> TAKE k \in 1..Len(t)
      <3>1. k + 1 \in 1..Len(q) /\ t[k] = q[k + 1]
        BY <1>3
      <3> QED BY <1>1, <2>1, <3>1
    <2> QED BY <2>1, <2>2, <2>3 DEF FirstIsNot
  <1> QED BY <1>4, <1>5, <1>6 DEF t

\* Reading leaves the sessions fresh; a session that is read is the oldest one.
LEMMA FreshRead ==
    ASSUME NEW q \in Seq(Messages), q # <<>>, NEW lo \in Nat, NEW hi \in Nat,
           Fresh(q, lo, hi)
    PROVE  /\ Fresh(Tail(q), lo, hi)
           /\ Names(Head(q)) =>
                lo < Head(q).val /\ Head(q).val <= hi /\ Fresh(Tail(q), Head(q).val, hi)
  <1> DEFINE t == Tail(q)
  <1>1. /\ Len(q) \in Nat /\ 0 < Len(q) /\ Len(t) = Len(q) - 1
        /\ \A i \in 1..Len(t) : t[i] = q[i + 1]
        /\ Head(q) = q[1] /\ \A i \in 1..Len(q) : q[i].val \in Nat
    BY TailOf, Values
  <1> HIDE DEF t
  <1>2. \A i \in 1..Len(t) : i + 1 \in 1..Len(q) /\ t[i] = q[i + 1]
    BY <1>1
  <1>3. \A i, k \in 1..Len(t) : i < k /\ Names(t[i]) /\ Names(t[k]) => t[i].val < t[k].val
    <2> TAKE i, k \in 1..Len(t)
    <2>1. i + 1 \in 1..Len(q) /\ k + 1 \in 1..Len(q) /\ (i < k => i + 1 < k + 1)
      BY <1>1, <1>2
    <2> QED BY <1>2, <2>1 DEF Fresh
  <1>4. \A i \in 1..Len(t) : Names(t[i]) => lo < t[i].val /\ t[i].val <= hi
    BY <1>2 DEF Fresh
  <1>5. ASSUME Names(Head(q)) PROVE lo < Head(q).val /\ Head(q).val <= hi
    BY <1>1, <1>5 DEF Fresh
  <1>6. ASSUME Names(Head(q)) PROVE \A i \in 1..Len(t) : Names(t[i]) => Head(q).val < t[i].val
    <2> TAKE i \in 1..Len(t)
    <2>1. i + 1 \in 1..Len(q) /\ 1 \in 1..Len(q) /\ 1 < i + 1
      BY <1>1, <1>2
    <2> QED BY <1>1, <1>2, <1>6, <2>1 DEF Fresh
  <1>7. Fresh(t, lo, hi)
    BY <1>3, <1>4 DEF Fresh
  <1>8. Names(Head(q)) => Fresh(t, Head(q).val, hi)
    BY <1>3, <1>4, <1>6 DEF Fresh
  <1> QED BY <1>5, <1>7, <1>8 DEF t

LEMMA StateRead ==
    ASSUME NEW q \in Seq(Messages), q # <<>>, Head(q).kind = "state", NEW c
    PROVE  /\ ~NoStateIn(q)
           /\ LastIs(q, c) =>
                LastIs(Tail(q), c) \/ (NoStateIn(Tail(q)) /\ Head(q).chan = c)
           /\ FirstIsNot(q, c) => Head(q).chan # c
  <1> DEFINE t == Tail(q)
  <1>1. /\ Len(q) \in Nat /\ 0 < Len(q) /\ Len(t) = Len(q) - 1
        /\ \A i \in 1..Len(t) : t[i] = q[i + 1]
        /\ Head(q) = q[1] /\ 1 \in 1..Len(q)
    BY TailOf
  <1> HIDE DEF t
  <1>2. ~NoStateIn(q)
    BY <1>1 DEF NoStateIn
  <1>3. FirstIsNot(q, c) => Head(q).chan # c
    BY <1>1 DEF FirstIsNot
  <1>4. \A i \in 1..Len(t) : i + 1 \in 1..Len(q) /\ t[i] = q[i + 1]
    BY <1>1
  <1>5. ASSUME LastIs(q, c) PROVE LastIs(t, c) \/ (NoStateIn(t) /\ Head(q).chan = c)
    <2>1. PICK i \in 1..Len(q) :
             /\ q[i].kind = "state" /\ q[i].chan = c
             /\ \A k \in 1..Len(q) : i < k => q[k].kind # "state"
      BY <1>5 DEF LastIs
    <2>2. \A k \in 1..Len(t) : i - 1 < k => t[k].kind # "state"
      <3> TAKE k \in 1..Len(t)
      <3>1. k + 1 \in 1..Len(q) /\ t[k] = q[k + 1]
        BY <1>4
      <3> QED BY <1>1, <2>1, <3>1
    <2>3. CASE i = 1
      <3>1. NoStateIn(t)
        BY <1>1, <2>2, <2>3 DEF NoStateIn
      <3> QED BY <1>1, <2>1, <2>3, <3>1
    <2>4. CASE i # 1
      <3>1. i - 1 \in 1..Len(t) /\ (i - 1) + 1 = i
        BY <1>1, <2>4
      <3>2. t[i - 1] = q[i]
        BY <1>1, <3>1
      <3> QED BY <2>1, <2>2, <3>1, <3>2 DEF LastIs
    <2> QED BY <2>3, <2>4
  <1> QED BY <1>2, <1>3, <1>5 DEF t

\* Discord adds the state of a change, with the server of it or without.
Adds(q, r, c, s) ==
    r = Append(q, State(c, s)) \/ \E e \in Nat : r = q \o <<State(c, s), Server(e)>>

LEMMA Added ==
    ASSUME NEW q \in Seq(Messages), NEW r, NEW c \in Nat, NEW s \in Nat, Adds(q, r, c, s)
    PROVE  /\ Len(q) \in Nat /\ Len(r) \in Nat /\ Len(q) < Len(r)
           /\ \A i \in 1..Len(q) : r[i] = q[i]
           /\ r[Len(q) + 1] = State(c, s)
           /\ \A i \in 1..Len(r) : i > Len(q) + 1 => r[i].kind # "state"
  <1>1. State(c, s) \in Messages /\ \A e \in Nat : Server(e) \in Messages
    BY DEF State, Server, Messages
  <1>2. CASE r = Append(q, State(c, s))
    BY <1>1, <1>2
  <1>3. ASSUME NEW e \in Nat, r = q \o <<State(c, s), Server(e)>>
        PROVE  /\ Len(q) \in Nat /\ Len(r) \in Nat /\ Len(q) < Len(r)
               /\ \A i \in 1..Len(q) : r[i] = q[i]
               /\ r[Len(q) + 1] = State(c, s)
               /\ \A i \in 1..Len(r) : i > Len(q) + 1 => r[i].kind # "state"
    <2> DEFINE x == State(c, s)
               y == Server(e)
    <2>1. y.kind # "state" /\ x \in Messages /\ y \in Messages
      BY <1>1 DEF Server
    <2> HIDE DEF x, y
    <2>2. r = q \o <<x, y>>
      BY <1>3 DEF x, y
    <2>3. /\ Len(q) \in Nat /\ Len(r) = Len(q) + 2
          /\ \A i \in 1..Len(q) : r[i] = q[i]
          /\ r[Len(q) + 1] = x /\ r[Len(q) + 2] = y
      BY <2>1, <2>2
    <2>4. \A i \in 1..Len(r) : i > Len(q) + 1 => i = Len(q) + 2
      BY <2>3
    <2> QED BY <2>1, <2>3, <2>4 DEF x
  <1> QED BY <1>2, <1>3 DEF Adds

LEMMA AddedLast ==
    ASSUME NEW q \in Seq(Messages), NEW r, NEW c \in Nat, NEW s \in Nat, Adds(q, r, c, s)
    PROVE  LastIs(r, c)
  <1>1. State(c, s).kind = "state" /\ State(c, s).chan = c
    BY DEF State
  <1>2. Len(q) + 1 \in 1..Len(r) /\ r[Len(q) + 1] = State(c, s)
    BY Added
  <1>3. \A k \in 1..Len(r) : Len(q) + 1 < k => r[k].kind # "state"
    BY Added
  <1> QED BY <1>1, <1>2, <1>3 DEF LastIs

LEMMA AddedFirst ==
    ASSUME NEW q \in Seq(Messages), NEW r, NEW c \in Nat, NEW s \in Nat, Adds(q, r, c, s),
           NEW d, FirstIsNot(q, d) \/ (NoStateIn(q) /\ c # d)
    PROVE  FirstIsNot(r, d)
  <1>1. State(c, s).kind = "state" /\ State(c, s).chan = c
    BY DEF State
  <1>2. /\ Len(q) \in Nat /\ Len(r) \in Nat /\ Len(q) < Len(r)
        /\ \A i \in 1..Len(q) : r[i] = q[i]
        /\ r[Len(q) + 1] = State(c, s)
    BY Added
  <1>3. CASE FirstIsNot(q, d)
    <2>1. PICK i \in 1..Len(q) :
             /\ q[i].kind = "state" /\ q[i].chan # d
             /\ \A k \in 1..Len(q) : k < i => q[k].kind # "state"
      BY <1>3 DEF FirstIsNot
    <2>2. i \in 1..Len(r) /\ r[i] = q[i]
      BY <1>2
    <2>3. \A k \in 1..Len(r) : k < i => k \in 1..Len(q)
      BY <1>2
    <2> QED BY <1>2, <2>1, <2>2, <2>3 DEF FirstIsNot
  <1>4. CASE NoStateIn(q) /\ c # d
    <2>1. Len(q) + 1 \in 1..Len(r)
      BY <1>2
    <2>2. \A k \in 1..Len(r) : k < Len(q) + 1 => k \in 1..Len(q)
      BY <1>2
    <2> QED BY <1>1, <1>2, <1>4, <2>1, <2>2 DEF FirstIsNot, NoStateIn
  <1> QED BY <1>3, <1>4

LEMMA AddedFresh ==
    ASSUME NEW q \in Seq(Messages), NEW r, NEW c \in Nat, NEW s \in Nat, Adds(q, r, c, s),
           NEW lo \in Nat, NEW hi \in Nat, NEW high \in Nat, Fresh(q, lo, hi),
           lo <= hi, hi <= high, c = 0 \/ (hi < s /\ s <= high)
    PROVE  Fresh(r, lo, high)
  <1>1. State(c, s).kind = "state" /\ State(c, s).chan = c /\ State(c, s).val = s
    BY DEF State
  <1>2. /\ Len(q) \in Nat /\ Len(r) \in Nat /\ Len(q) < Len(r)
        /\ \A i \in 1..Len(q) : r[i] = q[i]
        /\ r[Len(q) + 1] = State(c, s)
        /\ \A i \in 1..Len(r) : i > Len(q) + 1 => r[i].kind # "state"
    BY Added
  <1>3. \A i \in 1..Len(r) :
          Names(r[i]) =>
             \/ i \in 1..Len(q) /\ r[i] = q[i] /\ Names(q[i])
             \/ i = Len(q) + 1 /\ r[i].val = s /\ c # 0
    BY <1>1, <1>2 DEF Names
  <1>4. \A i \in 1..Len(q) : q[i].val \in Nat
    BY Values
  <1>5. \A i \in 1..Len(r) : Names(r[i]) => lo < r[i].val /\ r[i].val <= high
    <2> TAKE i \in 1..Len(r)
    <2> HAVE Names(r[i])
    <2>1. CASE i \in 1..Len(q) /\ r[i] = q[i] /\ Names(q[i])
      BY <1>4, <2>1 DEF Fresh
    <2>2. CASE i = Len(q) + 1 /\ r[i].val = s /\ c # 0
      BY <2>2
    <2> QED BY <1>3, <2>1, <2>2
  <1>6. \A i, k \in 1..Len(r) : i < k /\ Names(r[i]) /\ Names(r[k]) => r[i].val < r[k].val
    <2> TAKE i, k \in 1..Len(r)
    <2> HAVE i < k /\ Names(r[i]) /\ Names(r[k])
    <2>1. i \in 1..Len(q) /\ r[i] = q[i] /\ Names(q[i])
      BY <1>2, <1>3
    <2>2. CASE k \in 1..Len(q) /\ r[k] = q[k] /\ Names(q[k])
      BY <2>1, <2>2 DEF Fresh
    <2>3. CASE k = Len(q) + 1 /\ r[k].val = s /\ c # 0
      BY <1>4, <2>1, <2>3 DEF Fresh
    <2> QED BY <1>3, <2>2, <2>3
  <1> QED BY <1>5, <1>6 DEF Fresh

-----------------------------------------------------------------------------
(* What a step that leaves a part of the state alone keeps.                  *)

LEMMA WhereStays ==
    ASSUME WhereInv, UNCHANGED <<inbox, dchan>>, Known => Known'
    PROVE  WhereInv'
  BY DEF WhereInv, LastIs, NoStateIn

LEMMA SessStays ==
    ASSUME SessInv, UNCHANGED <<inbox, dsess, g_voice_session>>
    PROVE  SessInv'
  BY DEF SessInv, Fresh

LEMMA ThreadStays ==
    ASSUME ThreadInv,
           UNCHANGED <<ws, g_running, g_ws_thread, g_session_ready, dchan, dsess, dend>>
    PROVE  ThreadInv'
  BY DEF ThreadInv

LEMMA TookStays ==
    ASSUME TookInv, UNCHANGED <<ws, g_running, g_channel_id, dchan, dsess, inbox>>,
           st["gw"] = "call" => st'["gw"] = "call"
    PROVE  TookInv'
  <1> SUFFICES ASSUME NEW i \in Slots, (g_running /\ Took(i))'
               PROVE  /\ g_channel_id' # 0
                      /\ \/ Settled(i)'
                         \/ st'["gw"] = "call"
                         \/ FirstIsNot(inbox, g_channel_id)'
    BY DEF TookInv
  <1>1. g_running /\ Took(i)
    BY DEF Took
  <1>2. Settled(i) => Settled(i)'
    BY DEF Settled, NoStateIn
  <1>3. FirstIsNot(inbox, g_channel_id) => FirstIsNot(inbox, g_channel_id)'
    BY DEF FirstIsNot
  <1> QED BY <1>1, <1>2, <1>3 DEF TookInv

LEMMA RejoinStays ==
    ASSUME RejoinInv, UNCHANGED <<ws, g_ws_thread, g_running, g_generation, g_channel_id>>,
           g_have_state' => g_have_state,
           st["gw"] = "call" => st'["gw"] = "call",
           \A j \in Rejoiners : st'[j] = st[j] /\ job'[j] = job[j]
    PROVE  RejoinInv'
  BY DEF RejoinInv, MayRebuild, StillOurs

\* Without a call nothing is asked of the threads and the rejoins.
LEMMA NotRunning ==
    ASSUME TypeOK', ~g_running',
           \A j \in Rejoiners : st'[j] \notin {"new", "rehand"}
    PROVE  TookInv' /\ RejoinInv'
  BY DEF TookInv, RejoinInv, MayRebuild, StillOurs

\* Before a call, no rejoin begins.
LEMMA NoNew ==
    ASSUME LifeInv, ~g_running
    PROVE  \A j \in Rejoiners : st[j] \notin {"new", "rehand"}
  BY DEF LifeInv, RebuildInv, MayRebuild

\* Discord has us somewhere else, and says so.
Told(c) ==
    /\ gwup' = gwup /\ dchan' = c /\ dsess <= dsess'
    /\ \E s \in Nat : /\ Adds(inbox, inbox', c, s)
                      /\ c = 0 \/ (dsess < s /\ s <= dsess')

LEMMA Op4Tells ==
    ASSUME TypeOK, gwup = "up", NEW c \in Nat, Op4(c)
    PROVE  /\ c = dchan => UNCHANGED discordVars
           /\ c # dchan => Told(c)
           /\ c = 0 => UNCHANGED <<dsess, dend>>
  <1>0. dsess \in Nat /\ dend \in Nat
    BY DEF TypeOK, DiscordOK
  <1>1. CASE c = dchan
    BY <1>1 DEF Op4, discordVars
  <1>2. CASE c # dchan /\ c = 0
    <2>1. inbox' = Append(inbox, State(0, 0)) /\ dchan' = c
          /\ UNCHANGED <<dsess, dend, gwup>>
      BY <1>2 DEF Op4
    <2>2. Adds(inbox, inbox', c, 0)
      BY <1>2, <2>1 DEF Adds
    <2> QED BY <1>0, <1>2, <2>1, <2>2 DEF Told
  <1>3. CASE c # dchan /\ c # 0
    <2>1. /\ inbox' = inbox \o <<State(c, dsess + 1), Server(dend + 1)>> /\ dchan' = c
          /\ dsess' = dsess + 1 /\ gwup' = gwup
      BY <1>3 DEF Op4
    <2>2. dsess + 1 \in Nat /\ dend + 1 \in Nat
      BY <1>0
    <2>3. Adds(inbox, inbox', c, dsess + 1)
      BY <2>1, <2>2 DEF Adds
    <2> QED BY <1>0, <1>3, <2>1, <2>2, <2>3 DEF Told
  <1> QED BY <1>1, <1>2, <1>3

LEMMA ToldKeeps ==
    ASSUME TypeOK, TypeOK', NEW c \in Nat, Told(c), SessInv,
           g_voice_session' \in {0, g_voice_session}
    PROVE  WhereInv' /\ SessInv'
  <1>1. /\ inbox \in Seq(Messages) /\ dsess \in Nat /\ g_voice_session \in Nat
        /\ dsess' \in Nat /\ dsess <= dsess' /\ dchan' = c
    BY DEF TypeOK, DiscordOK, CallOK, Told
  <1>2. PICK s \in Nat : Adds(inbox, inbox', c, s) /\ (c = 0 \/ (dsess < s /\ s <= dsess'))
    BY DEF Told
  <1>3. LastIs(inbox', c)
    BY <1>1, <1>2, AddedLast
  <1>4. Fresh(inbox, g_voice_session, dsess) /\ g_voice_session <= dsess
    BY DEF SessInv
  <1>5. Fresh(inbox, g_voice_session', dsess) /\ g_voice_session' <= dsess
        /\ g_voice_session' \in Nat
    <2>1. \A i \in 1..Len(inbox) : inbox[i].val \in Nat
      BY <1>1, Values
    <2> QED BY <1>1, <1>4, <2>1 DEF Fresh
  <1>6. Fresh(inbox', g_voice_session', dsess')
    BY <1>1, <1>2, <1>5, AddedFresh
  <1>7. g_voice_session' <= dsess'
    BY <1>1, <1>5
  <1> QED BY <1>1, <1>3, <1>6, <1>7 DEF WhereInv, SessInv

\* What a thread that was taken in may rely on, when Discord moves us elsewhere.
LEMMA ToldTook ==
    ASSUME TypeOK, TypeOK', NEW c \in Nat, Told(c), c # dchan, TookInv,
           UNCHANGED <<ws, g_running, g_channel_id>>,
           st["gw"] = "call" => st'["gw"] = "call"
    PROVE  TookInv'
  <1>1. inbox \in Seq(Messages)
    BY DEF TypeOK, DiscordOK
  <1>2. PICK s \in Nat : Adds(inbox, inbox', c, s)
    BY DEF Told
  <1> SUFFICES ASSUME NEW i \in Slots, (g_running /\ Took(i))'
               PROVE  g_channel_id' # 0 /\ (st'["gw"] = "call" \/ FirstIsNot(inbox', g_channel_id'))
    BY DEF TookInv
  <1>3. g_running /\ Took(i)
    BY DEF Took
  <1>4. CASE Settled(i)
    <2>1. NoStateIn(inbox) /\ c # g_channel_id
      BY <1>4 DEF Settled
    <2>2. FirstIsNot(inbox', g_channel_id)
      BY <1>1, <1>2, <2>1, AddedFirst
    <2> QED BY <1>3, <2>2 DEF TookInv
  <1>5. CASE FirstIsNot(inbox, g_channel_id)
    <2>1. FirstIsNot(inbox', g_channel_id)
      BY <1>1, <1>2, <1>5, AddedFirst
    <2> QED BY <1>3, <2>1 DEF TookInv
  <1> QED BY <1>3, <1>4, <1>5 DEF TookInv

-----------------------------------------------------------------------------
(* The interface: the one join, and no leave after it.                       *)

LEMMA UiJoinGood ==
    ASSUME LifeInv, GoodInv, Tame, Tame', TypeOK', NEW c \in Channels, UiJoin(c)
    PROVE  GoodInv'
  <1>1. /\ st \in [Callers -> RejoinStates \union {"start"}] /\ job \in [Callers -> Jobs]
        /\ "ui" \in Callers /\ "gw" \in Callers /\ Rejoiners \subseteq Callers \ {"ui", "gw"}
        /\ ops \in Nat /\ c # 0
    BY ChannelsAssumption DEF LifeInv, TypeOK, CallersOK, Callers, Rejoiners
  <1>2. ops = 0 /\ ops' = 1 /\ Pristine /\ st["ui"] = "idle" /\ PlacesInv
    BY <1>1 DEF UiJoin, Tame, GoodInv, PlacesInv
  <1>3. /\ st' = [st EXCEPT !["ui"] = "call"]
        /\ job' = [job EXCEPT !["ui"].op = "join", !["ui"].chan = c]
        /\ UNCHANGED <<callVars, ws, discordVars>>
    BY <1>2 DEF UiJoin, Joins, Pristine, Call, Goto
  <1>4. /\ st'["ui"] = "call" /\ job'["ui"].op = "join" /\ job'["ui"].chan = c
        /\ \A t \in Callers \ {"ui"} : st'[t] = st[t] /\ job'[t] = job[t]
    BY <1>1, <1>3 DEF Jobs
  <1>5. \A t \in Rejoiners \union {"gw"} : st'[t] = st[t] /\ job'[t] = job[t]
    BY <1>1, <1>4
  <1>6. UNCHANGED <<g_running, g_session_ready, g_generation, g_channel_id, g_voice_session,
                    g_have_state, g_ws_thread, dchan, dsess, dend, inbox, gwup>>
    BY <1>3 DEF callVars, discordVars
  <1>7. PlacesInv'
    BY <1>1, <1>2, <1>4, <1>5, <1>6 DEF PlacesInv, Pristine
  <1>8. WhereInv'
    BY <1>5, <1>6, WhereStays DEF Known, BeingKicked, GoodInv
  <1>9. SessInv' /\ ThreadInv' /\ TookInv' /\ RejoinInv'
    BY <1>3, <1>5, <1>6, SessStays, ThreadStays, TookStays, RejoinStays DEF GoodInv
  <1> QED BY <1>7, <1>8, <1>9 DEF GoodInv

LEMMA UiGood ==
    ASSUME LifeInv, GoodInv, Tame, Tame', TypeOK', Ui
    PROVE  GoodInv'
  <1>1. /\ st \in [Callers -> RejoinStates \union {"start"}] /\ job \in [Callers -> Jobs]
        /\ "ui" \in Callers /\ "gw" \in Callers /\ Rejoiners \subseteq Callers \ {"ui", "gw"}
        /\ ops \in Nat /\ PlacesInv
    BY DEF LifeInv, TypeOK, CallersOK, Callers, Rejoiners, GoodInv
  <1>2. ~UiLeave
    BY <1>1 DEF UiLeave, Tame, PlacesInv, Pristine
  <1>3. ~LeaveAfter /\ ~StopReap("ui")
    BY <1>1 DEF LeaveAfter, StopReap, PlacesInv
  <1>4. CASE StopEnter("ui")
    <2>1. st["ui"] = "call" /\ Pristine
      BY <1>1, <1>4 DEF StopEnter, PlacesInv
    <2>2. /\ st' = [st EXCEPT !["ui"] = "after"]
          /\ UNCHANGED <<job, g_running, g_session_ready, g_generation, g_channel_id,
                         g_voice_session, g_have_state, g_ws_thread, ws, dchan, dsess, dend,
                         inbox, gwup, ops>>
      BY <1>4, <2>1 DEF StopEnter, Pristine, Goto, discordVars, boundVars
    <2>3. st'["ui"] = "after" /\ \A t \in Rejoiners \union {"gw"} : st'[t] = st[t] /\ job'[t] = job[t]
      BY <1>1, <2>2
    <2>4. PlacesInv'
      BY <1>1, <2>1, <2>2, <2>3 DEF PlacesInv, Pristine
    <2>5. WhereInv'
      BY <2>2, <2>3, WhereStays DEF Known, BeingKicked, GoodInv
    <2>6. SessInv' /\ ThreadInv' /\ TookInv' /\ RejoinInv'
      BY <2>2, <2>3, SessStays, ThreadStays, TookStays, RejoinStays DEF GoodInv
    <2> QED BY <2>4, <2>5, <2>6 DEF GoodInv
  <1>5. CASE JoinAfter("ui")
    <2> DEFINE c == job["ui"].chan
    <2>1. st["ui"] = "after" /\ Pristine /\ c # 0 /\ c \in Nat /\ ops # 0 /\ gwup = "up"
      BY <1>1, <1>5 DEF JoinAfter, PlacesInv, Jobs
    <2>2. /\ st' = [st EXCEPT !["ui"] = "idle"] /\ job' = [job EXCEPT !["ui"] = NoJob]
          /\ Op4(c)
          /\ UNCHANGED <<g_running, g_session_ready, g_generation, g_voice_session,
                         g_have_state, g_ws_thread, ws, ops>>
      BY <1>5 DEF JoinAfter, Finish, Goto, boundVars
    <2> HIDE DEF c
    <2>3. st'["ui"] = "idle" /\ \A t \in Rejoiners \union {"gw"} : st'[t] = st[t] /\ job'[t] = job[t]
      BY <1>1, <2>2
    <2>4. Told(c) /\ ~g_running'
      BY <2>1, <2>2, Op4Tells DEF Pristine, LifeInv
    <2>5. PlacesInv'
      BY <1>1, <2>1, <2>2, <2>3, <2>4 DEF PlacesInv, Pristine, Told
    <2>6. WhereInv' /\ SessInv'
      BY <2>1, <2>2, <2>4, ToldKeeps DEF LifeInv, GoodInv
    <2>7. TookInv' /\ RejoinInv'
      BY <2>1, <2>2, <2>3, <2>4, NotRunning, NoNew DEF Pristine
    <2>8. ThreadInv'
      <3>1. g_session_ready' = g_session_ready /\ dsess <= dsess' /\ dsess \in Nat /\ dsess' \in Nat
        BY <2>2, <2>4 DEF Told, LifeInv, TypeOK, DiscordOK
      <3>2. \A i \in Slots : ws[i].pc # "ready"
        BY <2>1 DEF GoodInv, ThreadInv, Pristine
      <3> QED BY <2>2, <2>4, <3>1, <3>2 DEF ThreadInv, GoodInv
    <2> QED BY <2>5, <2>6, <2>7, <2>8 DEF GoodInv
  <1> QED BY <1>2, <1>3, <1>4, <1>5, UiJoinGood DEF Ui

-----------------------------------------------------------------------------
(* The gateway's thread.                                                     *)

LEMMA CallersAre ==
    ASSUME LifeInv
    PROVE  /\ st \in [Callers -> RejoinStates \union {"start"}] /\ job \in [Callers -> Jobs]
           /\ "ui" \in Callers /\ "gw" \in Callers /\ "gw" # "ui"
           /\ Rejoiners \subseteq Callers \ {"ui", "gw"}
           /\ inbox \in Seq(Messages) /\ g_channel_id \in Nat /\ g_voice_session \in Nat
           /\ g_generation \in Nat /\ dchan \in Nat /\ dsess \in Nat /\ ops \in Nat
           /\ ws \in [Slots -> WsThreads]
  BY DEF LifeInv, TypeOK, CallersOK, CallOK, DiscordOK, SocketsOK, Callers, Rejoiners

LEMMA EndingFields ==
    ASSUME NEW w \in WsThreads, NEW p, NEW c
    PROVE  /\ [w EXCEPT !.pc = p, !.code = c].pc = p
           /\ [w EXCEPT !.pc = p, !.code = c].code = c
           /\ [w EXCEPT !.pc = p, !.code = c].opened = w.opened
  BY DEF WsThreads

LEMMA AnsweredFields ==
    ASSUME NEW w \in WsThreads, NEW p, NEW s, NEW o, NEW c
    PROVE  /\ [w EXCEPT !.pc = p, !.sess = s, !.opened = o, !.code = c].pc = p
           /\ [w EXCEPT !.pc = p, !.sess = s, !.opened = o, !.code = c].sess = s
           /\ [w EXCEPT !.pc = p, !.sess = s, !.opened = o, !.code = c].opened = o
           /\ [w EXCEPT !.pc = p, !.sess = s, !.opened = o, !.code = c].code = c
           /\ [w EXCEPT !.pc = p, !.sess = s, !.opened = o, !.code = c].url = w.url
  BY DEF WsThreads

LEMMA RefusedFields ==
    ASSUME NEW w \in WsThreads, NEW p, NEW o, NEW c
    PROVE  /\ [w EXCEPT !.pc = p, !.opened = o, !.code = c].pc = p
           /\ [w EXCEPT !.pc = p, !.opened = o, !.code = c].opened = o
           /\ [w EXCEPT !.pc = p, !.opened = o, !.code = c].code = c
  BY DEF WsThreads

\* Once something has happened, the person's one join is over.
LEMMA GwPlaces ==
    ASSUME LifeInv, PlacesInv, ~Pristine, UNCHANGED <<gwup, ops>>,
           \A t \in Callers \ {"gw"} : st'[t] = st[t] /\ job'[t] = job[t],
           st'["gw"] \in {"call", "reap", "after"} => job'["gw"].op \in {"kicked", "moved"},
           st'["gw"] \in {"reap", "after"} => ~g_running'
    PROVE  PlacesInv'
  <1>1. "ui" \in Callers \ {"gw"} /\ \A j \in Rejoiners : j \in Callers \ {"gw"}
    BY CallersAre
  <1>2. st'["ui"] = "idle" /\ ops' # 0
    BY <1>1 DEF PlacesInv
  <1> QED BY <1>1, <1>2 DEF PlacesInv

LEMMA GwStateGood ==
    ASSUME LifeInv, GoodInv, TypeOK', GwState
    PROVE  GoodInv'
  <1> DEFINE m == Head(inbox)
  <1>1. /\ st["gw"] = "idle" /\ inbox # <<>> /\ m.kind = "state" /\ inbox' = Tail(inbox)
        /\ UNCHANGED <<g_running, g_session_ready, g_generation, g_ws_thread, ws, dchan, dsess,
                       dend, gwup, ops>>
    BY DEF GwState, boundVars
  <1>2. m \in Messages /\ m.chan \in Nat /\ m.val \in Nat /\ ~Pristine
    <2>1. inbox \in Seq(Messages)
      BY CallersAre
    <2>2. m \in Messages
      BY <1>1, <2>1
    <2> QED BY <1>1, <2>2 DEF Messages, Pristine
  <1>3. /\ ~NoStateIn(inbox) /\ ~BeingKicked
        /\ LastIs(inbox', dchan) \/ (NoStateIn(inbox') /\ m.chan = dchan)
        /\ FirstIsNot(inbox, g_channel_id) => m.chan # g_channel_id
    <2>1. inbox \in Seq(Messages)
      BY CallersAre
    <2>2. ~NoStateIn(inbox) /\ (FirstIsNot(inbox, g_channel_id) => m.chan # g_channel_id)
      BY <1>1, <2>1, StateRead
    <2>3. LastIs(inbox, dchan)
      BY <2>2 DEF GoodInv, WhereInv
    <2>4. LastIs(inbox', dchan) \/ (NoStateIn(inbox') /\ m.chan = dchan)
      BY <1>1, <2>1, <2>3, StateRead
    <2> QED BY <1>1, <2>2, <2>4 DEF BeingKicked
  <1>4. /\ Fresh(inbox', g_voice_session, dsess) /\ g_voice_session <= dsess
        /\ Names(m) => g_voice_session < m.val /\ m.val <= dsess /\ Fresh(inbox', m.val, dsess)
    BY <1>1, CallersAre, FreshRead DEF GoodInv, SessInv
  \* A thread that was taken in cannot take this for its own channel.
  <1>5. \A i \in Slots : g_running /\ Took(i) => g_channel_id # 0 /\ m.chan # g_channel_id
    BY <1>1, <1>3 DEF GoodInv, TookInv, Settled
  <1>6. ThreadInv'
    BY <1>1, ThreadStays DEF GoodInv
  <1> HIDE DEF m
  <1>7. CASE m.chan = 0 /\ g_channel_id # 0
    <2>1. /\ Call("gw", "kicked", 0) /\ UNCHANGED <<g_channel_id, g_voice_session, g_have_state>>
      BY <1>1, <1>7 DEF GwState, m
    <2>2. /\ st'["gw"] = "call" /\ job'["gw"].op = "kicked"
          /\ \A t \in Callers \ {"gw"} : st'[t] = st[t] /\ job'[t] = job[t]
      BY <2>1, CallersAre DEF Call, Goto, Jobs
    <2>3. PlacesInv'
      BY <1>1, <1>2, <2>2, GwPlaces DEF GoodInv
    <2>4. WhereInv'
      BY <1>1, <1>3, <1>7, <2>2 DEF WhereInv, Known, BeingKicked
    <2>5. SessInv'
      BY <1>1, <1>4, <2>1 DEF SessInv
    <2>6. TookInv'
      BY <1>1, <1>7, <2>1, <2>2 DEF TookInv, Took
    <2>7. RejoinInv'
      <3>1. \A j \in Rejoiners : st'[j] = st[j] /\ job'[j] = job[j]
        BY <2>2, CallersAre
      <3> QED BY <1>1, <2>1, <2>2, <3>1, RejoinStays DEF GoodInv
    <2> QED BY <1>6, <2>3, <2>4, <2>5, <2>6, <2>7 DEF GoodInv
  <1>8. CASE m.chan = 0 /\ g_channel_id = 0
    <2>1. UNCHANGED <<callerVars, g_channel_id, g_voice_session, g_have_state>>
      BY <1>1, <1>8 DEF GwState, m
    <2>2. UNCHANGED <<st, job>>
      BY <2>1 DEF callerVars
    <2>3. PlacesInv'
      BY <1>1, <1>2, <2>2, GwPlaces DEF GoodInv
    <2>4. WhereInv'
      BY <1>1, <1>3, <1>8, <2>1, <2>2 DEF WhereInv, Known, BeingKicked
    <2>5. SessInv'
      BY <1>1, <1>4, <2>1 DEF SessInv
    <2>6. TookInv'
      BY <1>1, <1>5, <1>8 DEF TookInv, Took
    <2>7. RejoinInv'
      BY <1>1, <2>1, <2>2, RejoinStays DEF GoodInv
    <2> QED BY <1>6, <2>3, <2>4, <2>5, <2>6, <2>7 DEF GoodInv
  <1>9. CASE m.chan # 0
    <2>1. ~(g_running /\ g_voice_session = m.val)
      BY <1>1, <1>2, <1>4, <1>9, CallersAre DEF Names
    <2>2. /\ g_channel_id' = m.chan /\ g_voice_session' = m.val
          /\ IF IsMove(m.chan) THEN Call("gw", "moved", m.chan)
                               ELSE Goto("gw", "start") /\ UNCHANGED job
      BY <1>1, <1>9, <2>1 DEF GwState, m
    <2>3. /\ \A t \in Callers \ {"gw"} : st'[t] = st[t] /\ job'[t] = job[t]
          /\ IF IsMove(m.chan) THEN st'["gw"] = "call" /\ job'["gw"].op = "moved"
                               ELSE st'["gw"] = "start"
      BY <2>2, CallersAre DEF Call, Goto, Jobs
    <2>4. \A j \in Rejoiners : st'[j] = st[j] /\ job'[j] = job[j]
      BY <2>3, CallersAre
    <2>5. PlacesInv'
      BY <1>1, <1>2, <2>3, GwPlaces DEF GoodInv
    <2>6. WhereInv'
      BY <1>1, <1>3, <2>2, <2>3 DEF WhereInv, Known, BeingKicked
    <2>7. SessInv'
      BY <1>1, <1>4, <1>9, <2>2 DEF SessInv, Names
    <2>8. TookInv' /\ RejoinInv'
      <3>1. CASE ~g_running
        BY <1>1, <2>4, <3>1, NotRunning, NoNew
      <3>2. CASE g_running /\ IsMove(m.chan)
        <4>1. TookInv'
          BY <1>9, <2>2, <2>3, <3>2 DEF TookInv
        <4>2. ASSUME NEW j \in Rejoiners, MayRebuild(j)'
              PROVE  ws[g_ws_thread].code = 4014 /\ job[j].chan = g_channel_id
          BY <1>1, <2>4, <4>2 DEF GoodInv, RejoinInv, MayRebuild
        <4>3. ASSUME NEW j \in Rejoiners, st'[j] = "pair", StillOurs(j)' PROVE FALSE
          <5>1. MayRebuild(j)'
            BY <4>3 DEF MayRebuild, StillOurs
          <5> QED BY <2>2, <2>4, <3>2, <4>2, <4>3, <5>1 DEF StillOurs, IsMove
        <4> QED BY <1>1, <2>3, <3>2, <4>1, <4>2, <4>3 DEF RejoinInv
      <3>3. CASE g_running /\ ~IsMove(m.chan)
        <4>1. \A i \in Slots : ~Took(i)
          BY <1>5, <3>3 DEF IsMove
        <4>2. TookInv'
          BY <1>1, <4>1 DEF TookInv, Took
        <4>3. g_ws_thread \in Slots
          BY <3>3 DEF LifeInv, HandleInv, TypeOK, SocketsOK
        <4>4. ASSUME NEW j \in Rejoiners PROVE ~MayRebuild(j)
          BY <4>1, <4>3 DEF GoodInv, RejoinInv, Took
        <4>5. ASSUME NEW j \in Rejoiners PROVE ~MayRebuild(j)'
          BY <1>1, <2>4, <4>4 DEF MayRebuild
        <4>6. RejoinInv'
          BY <4>5 DEF RejoinInv, MayRebuild, StillOurs
        <4> QED BY <4>2, <4>6
      <3> QED BY <3>1, <3>2, <3>3
    <2> QED BY <1>6, <2>5, <2>6, <2>7, <2>8 DEF GoodInv
  <1> QED BY <1>7, <1>8, <1>9

LEMMA GwServerGood ==
    ASSUME LifeInv, GoodInv, TypeOK', GwServer
    PROVE  GoodInv'
  <1>1. /\ st["gw"] = "idle" /\ inbox # <<>> /\ Head(inbox).kind # "state"
        /\ inbox' = Tail(inbox) /\ st' = [st EXCEPT !["gw"] = "start"]
        /\ UNCHANGED <<job, g_running, g_session_ready, g_generation, g_channel_id,
                       g_voice_session, g_have_state, g_ws_thread, ws, dchan, dsess, dend, gwup,
                       ops>>
    BY DEF GwServer, Goto, boundVars
  <1>2. st'["gw"] = "start" /\ \A t \in Callers \ {"gw"} : st'[t] = st[t] /\ job'[t] = job[t]
    BY <1>1, CallersAre
  <1>3. \A j \in Rejoiners : st'[j] = st[j] /\ job'[j] = job[j]
    BY <1>2, CallersAre
  <1>4. PlacesInv'
    BY <1>1, <1>2, GwPlaces DEF GoodInv, Pristine
  <1>5. inbox \in Seq(Messages)
    BY CallersAre
  <1>6. WhereInv'
    BY <1>1, <1>2, <1>5, ServerRead DEF GoodInv, WhereInv, Known, BeingKicked
  <1>7. SessInv'
    BY <1>1, CallersAre, FreshRead DEF GoodInv, SessInv
  <1>8. ThreadInv' /\ RejoinInv'
    BY <1>1, <1>3, ThreadStays, RejoinStays DEF GoodInv
  <1>9. TookInv'
    <2>1. NoStateIn(inbox) => NoStateIn(inbox')
      BY <1>1, <1>5, ServerRead
    <2>2. FirstIsNot(inbox, g_channel_id) => FirstIsNot(inbox', g_channel_id)
      BY <1>1, <1>5, ServerRead
    <2> QED BY <1>1, <2>1, <2>2 DEF GoodInv, TookInv, Took, Settled
  <1> QED BY <1>4, <1>6, <1>7, <1>8, <1>9 DEF GoodInv

LEMMA StartVoiceGood ==
    ASSUME LifeInv, LifeInv', GoodInv, StartVoice
    PROVE  GoodInv'
  <1>1. /\ st["gw"] = "start" /\ st' = [st EXCEPT !["gw"] = "idle"]
        /\ job' = [job EXCEPT !["gw"] = NoJob]
        /\ UNCHANGED <<g_session_ready, g_channel_id, g_voice_session, g_have_state, dchan, dsess,
                       dend, inbox, gwup, ops>>
    BY DEF StartVoice, Finish, Goto, boundVars, discordVars
  <1>2. st'["gw"] = "idle" /\ \A t \in Callers \ {"gw"} : st'[t] = st[t] /\ job'[t] = job[t]
    BY <1>1, CallersAre
  <1>3. \A j \in Rejoiners : st'[j] = st[j] /\ job'[j] = job[j]
    BY <1>2, CallersAre
  <1>4. PlacesInv'
    BY <1>1, <1>2, GwPlaces DEF GoodInv, Pristine
  <1>5. WhereInv' /\ SessInv'
    BY <1>1, <1>2, WhereStays, SessStays DEF GoodInv, Known, BeingKicked
  <1>6. CASE ~Starts
    <2>1. UNCHANGED <<ws, g_ws_thread, g_running, g_generation>>
      BY <1>6 DEF StartVoice
    <2> QED BY <1>1, <1>3, <1>4, <1>5, <2>1, ThreadStays, TookStays, RejoinStays DEF GoodInv
  <1>7. CASE Starts
    <2>1. /\ ~g_running /\ g_generation' = g_generation + 1
          /\ \E i \in Slots : NewWs(i)
      BY <1>7 DEF StartVoice, Starts
    <2>2. PICK i \in Slots : NewWs(i)
      BY <2>1
    <2>3. /\ g_ws_thread' = i
          /\ ws'[i].pc = "new" /\ ws'[i].code = 0
          /\ \A k \in Slots \ {i} : ws'[k] = ws[k]
      <3>1. [NoWs EXCEPT !.pc = "new"].pc = "new" /\ [NoWs EXCEPT !.pc = "new"].code = 0
        BY DEF NoWs
      <3>2. ws' = [ws EXCEPT ![i] = [NoWs EXCEPT !.pc = "new"]] /\ g_ws_thread' = i
        BY <2>2 DEF NewWs
      <3> HIDE DEF NoWs
      <3> QED BY <3>1, <3>2, CallersAre
    <2>4. \A k \in Slots \ {i} : ws'[k].pc = "none"
      BY <2>3 DEF LifeInv, OneThread
    <2>5. \A k \in Slots \ {i} : ws'[k].code # 4014
      BY <2>1, <2>3, <2>4 DEF GoodInv, ThreadInv
    <2>6. ThreadInv'
      BY <2>3, <2>4, <2>5 DEF ThreadInv
    <2>7. TookInv'
      BY <2>3, <2>4, <2>5 DEF TookInv, Took
    <2>8. RejoinInv'
      <3>1. ASSUME NEW j \in Rejoiners PROVE ~MayRebuild(j)'
        <4>1. st[j] \notin {"new", "rehand"}
          BY <2>1, NoNew
        <4>2. st[j] \in {"ready", "pair"} => job[j].era <= g_generation /\ job[j].era \in Nat
          BY CallersAre DEF LifeInv, RebuildInv, Jobs
        <4> QED BY <1>3, <2>1, <4>1, <4>2, CallersAre DEF MayRebuild
      <3> QED BY <3>1 DEF RejoinInv, MayRebuild, StillOurs
    <2> QED BY <1>4, <1>5, <2>6, <2>7, <2>8 DEF GoodInv
  <1> QED BY <1>6, <1>7

LEMMA GwStopGood ==
    ASSUME LifeInv, LifeInv', GoodInv, ~overtook', StopEnter("gw")
    PROVE  GoodInv'
  <1>1. /\ st["gw"] = "call" /\ life = "free" /\ \A j \in Rejoiners : st[j] # "new"
        /\ UNCHANGED <<job, g_channel_id, g_voice_session, g_have_state, g_ws_thread, dchan,
                       dsess, dend, inbox, gwup, ops>>
    <2>1. /\ st["gw"] = "call" /\ life = "free"
          /\ UNCHANGED <<job, g_channel_id, g_voice_session, g_have_state, g_ws_thread, dchan,
                         dsess, dend, inbox, gwup, ops>>
      BY DEF StopEnter, LockFree, boundVars, discordVars
    <2>2. CASE g_running
      BY <2>1, <2>2 DEF StopEnter, Overtakes, AboutToAct
    <2>3. CASE ~g_running
      BY <2>1, <2>3 DEF LifeInv, RebuildInv, MayRebuild
    <2> QED BY <2>1, <2>2, <2>3
  <1>2. /\ st' = [st EXCEPT !["gw"] = IF g_running THEN "reap" ELSE "after"]
        /\ ~g_running'
    BY DEF StopEnter, Goto
  <1>3. /\ st'["gw"] \in {"reap", "after"}
        /\ \A t \in Callers \ {"gw"} : st'[t] = st[t] /\ job'[t] = job[t]
    BY <1>1, <1>2, CallersAre
  <1>4. \A j \in Rejoiners : st'[j] = st[j] /\ job'[j] = job[j]
    BY <1>3, CallersAre
  <1>5. PlacesInv'
    BY <1>1, <1>2, <1>3, GwPlaces DEF GoodInv, PlacesInv, Pristine
  <1>6. WhereInv' /\ SessInv'
    BY <1>1, <1>3, WhereStays, SessStays DEF GoodInv, Known, BeingKicked
  <1>7. TookInv' /\ RejoinInv'
    <2>1. \A j \in Rejoiners : st[j] # "rehand"
      BY DEF GoodInv, PlacesInv
    <2> QED BY <1>1, <1>2, <1>4, <2>1, NotRunning DEF LifeInv
  <1>8. ThreadInv'
    <2>1. CASE g_running
      <3>1. ASSUME NEW i \in Slots
            PROVE  /\ ws'[i].pc \in {ws[i].pc, "dying"} /\ ws'[i].pc # "ready"
                   /\ ws'[i].pc = ws[i].pc => ws'[i].code = ws[i].code
                   /\ ws'[i].pc # ws[i].pc => ws'[i].code = 0
        <4>1. ws' = [k \in Slots |-> Closed(ws[k])] /\ ws[i] \in WsThreads
          BY <2>1, CallersAre DEF StopEnter
        <4>2. ws'[i] = Closed(ws[i])
          BY <4>1
        <4>3. CASE ws[i].pc = "ready"
          <5>1. ws'[i] = [ws[i] EXCEPT !.pc = "dying", !.code = 0]
            BY <4>2, <4>3 DEF Closed
          <5>2. ws'[i].pc = "dying" /\ ws'[i].code = 0
            <6>1. ws[i] \in WsThreads
              BY <4>1
            <6> QED BY <5>1, <6>1, EndingFields
          <5> QED BY <4>3, <5>2
        <4>4. CASE ws[i].pc # "ready"
          BY <4>2, <4>4 DEF Closed
        <4> QED BY <4>3, <4>4
      <3> QED BY <1>2, <3>1 DEF GoodInv, ThreadInv
    <2>2. CASE ~g_running
      <3>1. UNCHANGED <<ws, g_session_ready, g_running>>
        BY <2>2 DEF StopEnter
      <3> QED BY <1>1, <3>1, ThreadStays DEF GoodInv
    <2> QED BY <2>1, <2>2
  <1> QED BY <1>5, <1>6, <1>7, <1>8 DEF GoodInv

LEMMA GwReapGood ==
    ASSUME LifeInv, LifeInv', GoodInv, StopReap("gw")
    PROVE  GoodInv'
  <1>1. /\ st["gw"] = "reap" /\ ~g_running /\ ~g_running' /\ st' = [st EXCEPT !["gw"] = "after"]
        /\ UNCHANGED <<job, g_channel_id, g_voice_session, dchan, dsess, dend, inbox, gwup, ops>>
    BY DEF StopReap, Goto, GoodInv, PlacesInv, boundVars, discordVars
  <1>2. /\ st'["gw"] = "after"
        /\ \A t \in Callers \ {"gw"} : st'[t] = st[t] /\ job'[t] = job[t]
    BY <1>1, CallersAre
  <1>3. \A j \in Rejoiners : st'[j] = st[j] /\ job'[j] = job[j]
    BY <1>2, CallersAre
  <1>4. PlacesInv'
    BY <1>1, <1>2, GwPlaces DEF GoodInv, PlacesInv, Pristine
  <1>5. WhereInv' /\ SessInv'
    BY <1>1, <1>2, WhereStays, SessStays DEF GoodInv, Known, BeingKicked
  <1>6. TookInv' /\ RejoinInv'
    BY <1>1, <1>3, NotRunning, NoNew DEF LifeInv
  <1>7. ThreadInv'
    <2>1. ASSUME NEW i \in Slots PROVE ws'[i] = NoWs \/ ws'[i] = ws[i]
      BY DEF StopReap
    <2>2. NoWs.pc = "none" /\ NoWs.code = 0
      BY DEF NoWs
    <2>3. ASSUME NEW i \in Slots
          PROVE  /\ ws'[i].pc \notin {"wait", "ready"}
                 /\ ws'[i].code = 4014 => ws'[i].pc \in {"dying", "end", "spawn", "exited"}
                 /\ ws'[i].pc = "spawn" => ws'[i].code = 4014
      BY <1>1, <2>1, <2>2 DEF GoodInv, ThreadInv
    <2> QED BY <1>1, <2>3 DEF ThreadInv
  <1> QED BY <1>4, <1>5, <1>6, <1>7 DEF GoodInv

LEMMA GwAfterGood ==
    ASSUME LifeInv, LifeInv', GoodInv, KickedAfter \/ MovedAfter
    PROVE  GoodInv'
  <1>1. /\ st["gw"] = "after" /\ ~g_running
        /\ UNCHANGED <<g_running, g_session_ready, g_generation, g_voice_session, g_ws_thread, ws,
                       dchan, dsess, dend, inbox, gwup, ops>>
    BY DEF KickedAfter, MovedAfter, GoodInv, PlacesInv, boundVars, discordVars
  <1>2. \/ /\ job["gw"].op = "kicked" /\ g_channel_id' = 0
           /\ st' = [st EXCEPT !["gw"] = "idle"] /\ job' = [job EXCEPT !["gw"] = NoJob]
        \/ /\ job["gw"].op = "moved" /\ g_channel_id' = g_channel_id
           /\ st' = [st EXCEPT !["gw"] = "start"] /\ job' = job
    BY DEF KickedAfter, MovedAfter, Finish, Goto
  <1>3. /\ st'["gw"] \in {"idle", "start"}
        /\ \A t \in Callers \ {"gw"} : st'[t] = st[t] /\ job'[t] = job[t]
    BY <1>2, CallersAre
  <1>4. \A j \in Rejoiners : st'[j] = st[j] /\ job'[j] = job[j]
    BY <1>3, CallersAre
  <1>5. PlacesInv'
    BY <1>1, <1>3, GwPlaces DEF GoodInv, PlacesInv, Pristine
  <1>6. Known => Known'
    BY <1>1, <1>2, <1>3 DEF Known, BeingKicked
  <1>7. WhereInv' /\ SessInv' /\ ThreadInv'
    BY <1>1, <1>6, WhereStays, SessStays, ThreadStays DEF GoodInv
  <1>8. TookInv' /\ RejoinInv'
    BY <1>1, <1>4, NotRunning, NoNew DEF LifeInv
  <1> QED BY <1>5, <1>7, <1>8 DEF GoodInv

LEMMA GatewayGood ==
    ASSUME LifeInv, LifeInv', GoodInv, ~overtook', Gateway
    PROVE  GoodInv'
  <1>1. ~GwLost
    BY DEF GwLost, GoodInv, PlacesInv
  <1>2. ~LostAfter
    BY DEF LostAfter, GoodInv, PlacesInv
  <1>3. TypeOK'
    BY DEF LifeInv
  <1> QED BY <1>1, <1>2, <1>3, GwStateGood, GwServerGood, StartVoiceGood, GwStopGood, GwReapGood,
          GwAfterGood DEF Gateway

-----------------------------------------------------------------------------
(* The websocket thread.                                                     *)

\* What its steps do not touch.
WsAside ==
    UNCHANGED <<g_running, g_generation, g_channel_id, g_have_state, g_ws_thread, st, job, gwup,
                ops>>

\* A thread on its way is the only one, and no rejoin is for it.
LEMMA OnlyThread ==
    ASSUME LifeInv, NEW i \in Slots, ws[i].pc # "none"
    PROVE  /\ g_ws_thread = i
           /\ \A k \in Slots \ {i} : ws[k].pc = "none"
           /\ ws[i].pc # "exited" => \A j \in Rejoiners : ~MayRebuild(j)
  BY DEF LifeInv, OneThread, RebuildInv

LEMMA NoRebuildStays ==
    ASSUME WsAside, \A j \in Rejoiners : ~MayRebuild(j)
    PROVE  RejoinInv'
  <1>1. \A j \in Rejoiners : ~MayRebuild(j)'
    BY DEF WsAside, MayRebuild
  <1> QED BY <1>1 DEF RejoinInv, MayRebuild, StillOurs

LEMMA PlacesAside ==
    ASSUME LifeInv, PlacesInv, WsAside, dchan' # dchan => dchan # 0, inbox' # inbox => dchan # 0
    PROVE  PlacesInv'
  BY DEF PlacesInv, WsAside, Pristine

\* A thread that was taken in before the step has the call to rely on; one that
\* is no longer, or was not yet, has nothing to show.
LEMMA WsTookStays ==
    ASSUME LifeInv, GoodInv, NEW i \in Slots, WsAside, UNCHANGED <<dchan, dsess, inbox>>,
           ws[i].pc # "none", \A k \in Slots \ {i} : ws'[k] = ws[k],
           (g_running /\ Took(i)') => Took(i) /\ ~Settled(i)
    PROVE  TookInv'
  <1> SUFFICES ASSUME NEW k \in Slots, (g_running /\ Took(k))'
               PROVE  /\ g_channel_id' # 0
                      /\ st'["gw"] = "call" \/ FirstIsNot(inbox, g_channel_id)'
    BY DEF TookInv
  <1>1. k = i
    <2>1. \A n \in Slots \ {i} : ws[n].pc = "none"
      BY OnlyThread
    <2> QED BY <2>1 DEF Took, GoodInv, ThreadInv
  <1>2. g_running /\ Took(i) /\ ~Settled(i)
    BY <1>1 DEF WsAside
  <1>3. g_channel_id # 0 /\ (st["gw"] = "call" \/ FirstIsNot(inbox, g_channel_id))
    BY <1>2 DEF GoodInv, TookInv
  <1> QED BY <1>3 DEF WsAside, FirstIsNot

LEMMA WsBeginGood ==
    ASSUME LifeInv, LifeInv', GoodInv, NEW i \in Slots, WsBegin(i)
    PROVE  GoodInv'
  <1>1. /\ WsAside /\ UNCHANGED <<g_session_ready, g_voice_session, dchan, dsess, dend, inbox>>
        /\ ws[i].pc = "new"
    BY DEF WsBegin, WsAside, callVars, callerVars, discordVars, boundVars
  <1>2. /\ ws'[i].pc = "connect" /\ ws'[i].code = ws[i].code
        /\ \A k \in Slots \ {i} : ws'[k] = ws[k]
    <2>1. ws[i] \in WsThreads
      BY CallersAre
    <2>2. ws' = [ws EXCEPT ![i] = [ws[i] EXCEPT !.pc = "connect", !.url = g_endpoint]]
      BY DEF WsBegin, SetWs
    <2>3. ws'[i] = [ws[i] EXCEPT !.pc = "connect", !.url = g_endpoint]
      BY <2>2, CallersAre
    <2> QED BY <2>1, <2>2, <2>3, CallersAre DEF WsThreads
  <1>3. ws[i].code # 4014
    BY <1>1 DEF GoodInv, ThreadInv
  <1>4. PlacesInv' /\ WhereInv' /\ SessInv'
    BY <1>1, PlacesAside, WhereStays, SessStays DEF GoodInv, Known, BeingKicked, WsAside
  <1>5. ThreadInv'
    BY <1>1, <1>2, <1>3, OnlyThread DEF GoodInv, ThreadInv, WsAside
  <1>6. TookInv'
    <2>1. ~Took(i)'
      BY <1>2, <1>3 DEF Took
    <2> QED BY <1>1, <1>2, <2>1, WsTookStays
  <1>7. RejoinInv'
    BY <1>1, OnlyThread, NoRebuildStays
  <1> QED BY <1>4, <1>5, <1>6, <1>7 DEF GoodInv

\* Where the voice server takes the thread in, nothing is left to be read: every
\* session there is to read about is newer than the one it took.
LEMMA TakenInKnows ==
    ASSUME LifeInv, GoodInv, dchan # 0, g_voice_session = dsess
    PROVE  NoStateIn(inbox) /\ g_channel_id = dchan
  <1>1. ~LastIs(inbox, dchan)
    <2> SUFFICES ASSUME LastIs(inbox, dchan) PROVE FALSE
      OBVIOUS
    <2>1. PICK n \in 1..Len(inbox) : inbox[n].kind = "state" /\ inbox[n].chan = dchan
      BY DEF LastIs
    <2>2. g_voice_session < inbox[n].val /\ inbox[n].val <= dsess
      BY <2>1 DEF GoodInv, SessInv, Fresh, Names
    <2>3. inbox[n].val \in Nat /\ dsess \in Nat
      BY CallersAre, Values
    <2> QED BY <2>2, <2>3
  <1>2. NoStateIn(inbox) /\ Known
    BY <1>1 DEF GoodInv, WhereInv
  <1> QED BY <1>2 DEF Known

LEMMA WsOpenGood ==
    ASSUME LifeInv, LifeInv', GoodInv, NEW i \in Slots, WsOpen(i)
    PROVE  GoodInv'
  <1>1. /\ WsAside /\ UNCHANGED <<g_voice_session, dchan, dsess, dend, inbox>>
        /\ ws[i].pc = "connect" /\ g_running /\ ws[i] \in WsThreads
        /\ \A k \in Slots \ {i} : ws'[k] = ws[k]
    BY CallersAre DEF WsOpen, WsAside, callVars, callerVars, discordVars, boundVars, SetWs
  <1>2. PlacesInv' /\ WhereInv' /\ SessInv'
    BY <1>1, PlacesAside, WhereStays, SessStays DEF GoodInv, Known, BeingKicked, WsAside
  <1>3. RejoinInv'
    BY <1>1, OnlyThread, NoRebuildStays
  <1>4. CASE Accepted(i)
    <2>1. /\ ws'[i] = [ws[i] EXCEPT !.pc = "ready", !.sess = dsess, !.opened = TRUE, !.code = 0]
          /\ g_session_ready'
      BY <1>4, CallersAre DEF WsOpen, SetWs
    <2>2. /\ ws'[i].pc = "ready" /\ ws'[i].sess = dsess /\ ws'[i].opened /\ ws'[i].code = 0
          /\ ws'[i].url = dend
      BY <1>1, <1>4, <2>1, AnsweredFields DEF Accepted
    <2>3. ThreadInv'
      <3>1. dsess \in Nat /\ g_session_ready'
        BY <2>1, CallersAre
      <3> QED BY <1>1, <2>2, <3>1, OnlyThread DEF GoodInv, ThreadInv, WsAside
    <2>4. NoStateIn(inbox) /\ g_channel_id = dchan /\ dchan # 0
      BY <1>4, TakenInKnows DEF Accepted
    <2>5. Settled(i)' /\ g_channel_id' # 0
      BY <1>1, <2>2, <2>4 DEF Settled, NoStateIn, WsAside
    <2>6. TookInv'
      <3>1. ASSUME NEW k \in Slots, Took(k)' PROVE k = i
        <4>1. \A n \in Slots \ {i} : ws[n].pc = "none"
          BY <1>1, OnlyThread
        <4> QED BY <1>1, <3>1, <4>1 DEF Took, GoodInv, ThreadInv
      <3> QED BY <2>5, <3>1 DEF TookInv
    <2> QED BY <1>2, <1>3, <2>3, <2>6 DEF GoodInv
  <1>5. CASE ~Accepted(i)
    <2>1. /\ ws'[i] = [ws[i] EXCEPT !.pc = "dying", !.opened = TRUE, !.code = 4006]
          /\ UNCHANGED g_session_ready
      BY <1>5, CallersAre DEF WsOpen, SetWs
    <2>2. ws'[i].pc = "dying" /\ ws'[i].opened /\ ws'[i].code = 4006
      BY <1>1, <2>1, RefusedFields
    <2>3. ThreadInv'
      BY <1>1, <2>2, OnlyThread DEF GoodInv, ThreadInv, WsAside
    <2>4. TookInv'
      <3>1. ~Took(i)'
        BY <2>2 DEF Took
      <3> QED BY <1>1, <3>1, WsTookStays
    <2> QED BY <1>2, <1>3, <2>3, <2>4 DEF GoodInv
  <1> QED BY <1>4, <1>5

LEMMA WsFailGood ==
    ASSUME LifeInv, LifeInv', GoodInv, ~refused', NEW i \in Slots, WsFail(i)
    PROVE  GoodInv'
  <1>1. /\ WsAside /\ UNCHANGED <<g_session_ready, g_voice_session, dchan, dsess, dend, inbox>>
        /\ ws[i].pc = "connect" /\ ~g_running
    BY DEF WsFail, WsAside, callVars, callerVars, discordVars, boundVars
  <1>2. /\ ws'[i].pc = "dying" /\ ws'[i].code = ws[i].code
        /\ \A k \in Slots \ {i} : ws'[k] = ws[k]
    <2>1. ws' = [ws EXCEPT ![i] = [ws[i] EXCEPT !.pc = "dying", !.opened = FALSE]]
      BY DEF WsFail, SetWs
    <2>2. ws'[i] = [ws[i] EXCEPT !.pc = "dying", !.opened = FALSE] /\ ws[i] \in WsThreads
      BY <2>1, CallersAre
    <2> QED BY <2>1, <2>2, CallersAre DEF WsThreads
  <1>3. PlacesInv' /\ WhereInv' /\ SessInv'
    BY <1>1, PlacesAside, WhereStays, SessStays DEF GoodInv, Known, BeingKicked, WsAside
  <1>4. ThreadInv'
    BY <1>1, <1>2 DEF GoodInv, ThreadInv, WsAside
  <1>5. TookInv'
    BY <1>1 DEF TookInv, WsAside
  <1>6. RejoinInv'
    BY <1>1, OnlyThread, NoRebuildStays
  <1> QED BY <1>3, <1>4, <1>5, <1>6 DEF GoodInv

LEMMA WsEndedGood ==
    ASSUME LifeInv, LifeInv', GoodInv, NEW i \in Slots, WsEnded(i)
    PROVE  GoodInv'
  <1>1. /\ WsAside /\ UNCHANGED <<g_session_ready, g_voice_session, dchan, dsess, dend, inbox>>
        /\ ws[i].pc = "ready" /\ Over(i)
    BY DEF WsEnded, WsAside, callVars, callerVars, discordVars, boundVars
  <1>2. /\ ws'[i].pc = "dying" /\ ws'[i].code = 4014 /\ ws'[i].opened = ws[i].opened
        /\ \A k \in Slots \ {i} : ws'[k] = ws[k]
    <2>1. ws' = [ws EXCEPT ![i] = [ws[i] EXCEPT !.pc = "dying", !.code = 4014]]
      BY DEF WsEnded, SetWs
    <2>2. ws'[i] = [ws[i] EXCEPT !.pc = "dying", !.code = 4014] /\ ws[i] \in WsThreads
      BY <2>1, CallersAre
    <2>3. ws'[i].pc = "dying" /\ ws'[i].code = 4014 /\ ws'[i].opened = ws[i].opened
      BY <2>2, EndingFields
    <2> QED BY <2>1, <2>3, CallersAre
  <1>3. PlacesInv' /\ WhereInv' /\ SessInv'
    BY <1>1, PlacesAside, WhereStays, SessStays DEF GoodInv, Known, BeingKicked, WsAside
  <1>4. ThreadInv'
    BY <1>1, <1>2, OnlyThread DEF GoodInv, ThreadInv, WsAside
  <1>5. TookInv'
    <2>1. Took(i) /\ (g_running => ~Settled(i))
      BY <1>1 DEF Took, Settled, Over, GoodInv, TookInv
    <2> QED BY <1>1, <1>2, <2>1, WsTookStays
  <1>6. RejoinInv'
    BY <1>1, OnlyThread, NoRebuildStays
  <1> QED BY <1>3, <1>4, <1>5, <1>6 DEF GoodInv

LEMMA WsDyingGood ==
    ASSUME LifeInv, LifeInv', GoodInv, NEW i \in Slots, WsDying(i)
    PROVE  GoodInv'
  <1>1. /\ WsAside /\ UNCHANGED <<g_voice_session, dchan, dsess, dend, inbox>>
        /\ ws[i].pc = "dying"
    BY DEF WsDying, WsAside, callVars, callerVars, discordVars, boundVars
  <1>2. ~(g_running /\ WorthResuming(i))
    BY <1>1 DEF GoodInv, ThreadInv, WorthResuming
  <1>3. /\ ws'[i].pc = "end" /\ ws'[i].code = ws[i].code /\ ws'[i].opened = ws[i].opened
        /\ \A k \in Slots \ {i} : ws'[k] = ws[k]
    <2>1. PICK e \in BOOLEAN, n \in Nat :
             ws' = [ws EXCEPT ![i] = [ws[i] EXCEPT !.ever = e, !.attempt = n, !.pc = "end"]]
      <3> DEFINE ever == ws[i].ever \/ g_session_ready
                 attempt == Spent(i)
                 worth == /\ g_running /\ ever /\ attempt < MaxResumes
                          /\ WorthResuming(i)
      <3>1. ws' = [ws EXCEPT ![i] = [ws[i] EXCEPT !.ever = ever,
                              !.attempt = IF worth THEN attempt + 1 ELSE attempt,
                              !.pc = IF worth THEN "wait" ELSE "end"]]
        BY DEF WsDying, SetWs
      <3>2. ~worth
        BY <1>2
      <3>3. ever \in BOOLEAN
        OBVIOUS
      <3>4. attempt \in Nat
        <4>1. ws[i] \in WsThreads
          BY CallersAre
        <4> QED BY <4>1 DEF Spent, WsThreads
      <3> HIDE DEF ever, attempt, worth
      <3> QED BY <3>1, <3>2, <3>3, <3>4
    <2>2. /\ ws'[i] = [ws[i] EXCEPT !.ever = e, !.attempt = n, !.pc = "end"]
          /\ ws[i] \in WsThreads
      BY <2>1, CallersAre
    <2> QED BY <2>1, <2>2, CallersAre DEF WsThreads
  <1>4. PlacesInv' /\ WhereInv' /\ SessInv'
    BY <1>1, PlacesAside, WhereStays, SessStays DEF GoodInv, Known, BeingKicked, WsAside
  <1>5. ThreadInv'
    BY <1>1, <1>3, OnlyThread DEF GoodInv, ThreadInv, WsAside
  <1>6. TookInv'
    <2>1. Took(i)' => Took(i) /\ ~Settled(i)
      BY <1>1, <1>3 DEF Took, Settled
    <2> QED BY <1>1, <1>3, <2>1, WsTookStays
  <1>7. RejoinInv'
    BY <1>1, OnlyThread, NoRebuildStays
  <1> QED BY <1>4, <1>5, <1>6, <1>7 DEF GoodInv

\* At the end of the loop a 4006 says goodbye to the channel, a 4014 may ask for a
\* rejoin, and nothing else ends a call that goes on.
LEMMA WsEndGood ==
    ASSUME LifeInv, LifeInv', GoodInv, Tame, Tame', NEW i \in Slots, WsEnd(i)
    PROVE  GoodInv'
  <1>1. /\ UNCHANGED <<g_running, g_generation, g_channel_id, g_have_state, g_ws_thread, st, job,
                       ops>>
        /\ ws[i].pc = "end" /\ gwup = "up"
    BY DEF WsEnd, callerVars, boundVars, GoodInv, PlacesInv
  <1>2. /\ ws'[i].pc \in {"spawn", "exited"} /\ ws'[i].code = ws[i].code
        /\ ws'[i].pc = "spawn" => ws[i].code = 4014
        /\ \A k \in Slots \ {i} : ws'[k] = ws[k]
    <2>1. \E p \in {"spawn", "exited"} :
             /\ ws' = [ws EXCEPT ![i] = [ws[i] EXCEPT !.pc = p]]
             /\ p = "spawn" => ws[i].code = 4014
      BY DEF WsEnd, SetWs, ComesBack
    <2>2. PICK p \in {"spawn", "exited"} :
             /\ ws' = [ws EXCEPT ![i] = [ws[i] EXCEPT !.pc = p]]
             /\ p = "spawn" => ws[i].code = 4014
      BY <2>1
    <2>3. ws'[i] = [ws[i] EXCEPT !.pc = p] /\ ws[i] \in WsThreads
      BY <2>2, CallersAre
    <2> QED BY <2>2, <2>3, CallersAre DEF WsThreads
  <1>3. /\ \A k \in Slots \ {i} : ws[k].pc = "none"
        /\ \A j \in Rejoiners : ~MayRebuild(j)
        /\ g_ws_thread = i
    BY <1>1, OnlyThread
  <1>4. CASE Goodbye(i)
    <2>1. g_voice_session' = 0 /\ Op4(0)
      BY <1>4 DEF WsEnd
    <2>2. /\ dchan' = 0 /\ gwup' = gwup
          /\ dchan = 0 => UNCHANGED discordVars
          /\ dchan # 0 => Told(0)
          /\ UNCHANGED <<dsess, dend>>
      BY <1>1, <2>1, Op4Tells DEF LifeInv, Told, discordVars
    <2>3. ws[i].code = 4006
      BY <1>4 DEF Goodbye
    <2>4. WsAside
      BY <1>1, <2>2 DEF WsAside
    <2>5. PlacesInv'
      BY <2>2, <2>4, PlacesAside DEF GoodInv, discordVars
    <2>6. WhereInv' /\ SessInv'
      <3>1. CASE dchan # 0
        BY <2>1, <2>2, <3>1, ToldKeeps DEF LifeInv, GoodInv
      <3>2. CASE dchan = 0
        <4>1. UNCHANGED <<inbox, dchan, dsess>>
          BY <2>2, <3>2 DEF discordVars
        <4>2. WhereInv'
          BY <1>1, <4>1, WhereStays DEF GoodInv, Known, BeingKicked
        <4>3. \A n \in 1..Len(inbox) : inbox[n].val \in Nat
          BY CallersAre, Values
        <4>4. Fresh(inbox, 0, dsess)
          BY <4>3, CallersAre DEF GoodInv, SessInv, Fresh
        <4>5. Fresh(inbox, 0, dsess)'
          BY <4>1, <4>4
        <4>6. SessInv'
          BY <2>1, <4>1, <4>5, CallersAre DEF SessInv
        <4> QED BY <4>2, <4>6
      <3> QED BY <3>1, <3>2
    <2>7. ThreadInv'
      BY <1>1, <1>2, <1>3, <2>2, <2>3 DEF GoodInv, ThreadInv
    <2>8. TookInv'
      <3>1. \A k \in Slots : ~Took(k)'
        BY <1>2, <1>3, <2>3 DEF Took, GoodInv, ThreadInv
      <3> QED BY <3>1 DEF TookInv
    <2>9. RejoinInv'
      BY <1>3, <2>4, NoRebuildStays
    <2> QED BY <2>5, <2>6, <2>7, <2>8, <2>9 DEF GoodInv
  <1>5. CASE ~Goodbye(i)
    <2>1. UNCHANGED <<g_voice_session, dchan, dsess, dend, inbox, gwup>>
      BY <1>5 DEF WsEnd, discordVars
    <2>2. WsAside
      BY <1>1, <2>1 DEF WsAside
    <2>3. g_running => ws[i].code = 4014
      BY <1>1, <1>5 DEF GoodInv, ThreadInv, Goodbye
    <2>4. PlacesInv' /\ WhereInv' /\ SessInv'
      BY <2>1, <2>2, PlacesAside, WhereStays, SessStays DEF GoodInv, Known, BeingKicked, WsAside
    <2>5. ThreadInv'
      BY <1>1, <1>2, <1>3, <2>1, <2>3 DEF GoodInv, ThreadInv
    <2>6. TookInv'
      <3>1. Took(i)' => Took(i) /\ ~Settled(i)
        BY <1>1, <1>2 DEF Took, Settled
      <3> QED BY <1>1, <1>2, <2>1, <2>2, <3>1, WsTookStays
    <2>7. RejoinInv'
      BY <1>3, <2>2, NoRebuildStays
    <2> QED BY <2>4, <2>5, <2>6, <2>7 DEF GoodInv
  <1> QED BY <1>4, <1>5

LEMMA WsSpawnGood ==
    ASSUME LifeInv, LifeInv', GoodInv, NEW i \in Slots, WsSpawn(i)
    PROVE  GoodInv'
  <1>1. /\ UNCHANGED <<g_running, g_session_ready, g_generation, g_channel_id, g_voice_session,
                       g_have_state, g_ws_thread, dchan, dsess, dend, inbox, gwup, ops>>
        /\ ws[i].pc = "spawn" /\ g_running
    BY DEF WsSpawn, callVars, discordVars, boundVars, LifeInv, RebuildInv
  <1>2. /\ ws'[i].pc = "exited" /\ ws'[i].code = ws[i].code /\ ws[i].code = 4014
        /\ \A k \in Slots \ {i} : ws'[k] = ws[k]
    <2>1. ws' = [ws EXCEPT ![i] = [ws[i] EXCEPT !.pc = "exited"]]
      BY DEF WsSpawn, SetWs
    <2>2. ws'[i] = [ws[i] EXCEPT !.pc = "exited"] /\ ws[i] \in WsThreads
      BY <2>1, CallersAre
    <2>3. ws[i].code = 4014
      BY <1>1 DEF GoodInv, ThreadInv
    <2> QED BY <2>1, <2>2, <2>3, CallersAre DEF WsThreads
  <1>3. /\ g_ws_thread = i
        /\ \A k \in Slots \ {i} : ws[k].pc = "none"
        /\ \A j \in Rejoiners : ~MayRebuild(j)
    BY <1>1, OnlyThread
  <1>4. PICK j \in Rejoiners : st[j] = "idle" /\ st' = [st EXCEPT ![j] = "new"]
                               /\ job' = [job EXCEPT ![j].chan = g_channel_id]
    BY DEF WsSpawn, Goto
  <1>5. /\ j \in Callers \ {"ui", "gw"} /\ st'[j] = "new" /\ job'[j].chan = g_channel_id
        /\ \A t \in Callers \ {j} : st'[t] = st[t] /\ job'[t] = job[t]
    BY <1>4, CallersAre DEF Jobs
  <1>6. st'["gw"] = st["gw"] /\ st'["ui"] = st["ui"] /\ job'["gw"] = job["gw"]
        /\ job'["ui"] = job["ui"]
    BY <1>5, CallersAre
  <1>7. PlacesInv'
    <2>1. \A k \in Rejoiners : st'[k] = st[k] \/ st'[k] = "new"
      BY <1>5, CallersAre
    <2> QED BY <1>1, <1>6, <2>1 DEF GoodInv, PlacesInv, Pristine
  <1>8. WhereInv' /\ SessInv'
    BY <1>1, <1>6, WhereStays, SessStays DEF GoodInv, Known, BeingKicked
  <1>9. ThreadInv'
    BY <1>1, <1>2, <1>3 DEF GoodInv, ThreadInv
  <1>10. TookInv'
    <2> SUFFICES ASSUME NEW k \in Slots, Took(k)'
                 PROVE  /\ g_channel_id' # 0
                        /\ st'["gw"] = "call" \/ FirstIsNot(inbox, g_channel_id)'
      BY DEF TookInv
    <2>1. Took(i) /\ ~Settled(i)
      BY <1>1, <1>2 DEF Took, Settled
    <2>2. g_channel_id # 0 /\ (st["gw"] = "call" \/ FirstIsNot(inbox, g_channel_id))
      BY <1>1, <2>1 DEF GoodInv, TookInv
    <2> QED BY <1>1, <1>6, <2>2 DEF FirstIsNot
  <1>11. RejoinInv'
    <2>1. ASSUME NEW k \in Rejoiners, k # j PROVE ~MayRebuild(k)' /\ st'[k] = st[k] /\ job'[k] = job[k]
      <3>1. st'[k] = st[k] /\ job'[k] = job[k]
        BY <1>5, <2>1, CallersAre
      <3> QED BY <1>1, <1>3, <3>1 DEF MayRebuild
    <2>2. \A k \in Rejoiners : st'[k] = "pair" => ~StillOurs(k)'
      BY <1>5, <2>1 DEF MayRebuild, StillOurs
    <2> QED BY <1>1, <1>2, <1>3, <1>5, <2>1, <2>2 DEF RejoinInv
  <1> QED BY <1>7, <1>8, <1>9, <1>10, <1>11 DEF GoodInv

LEMMA WsThreadGood ==
    ASSUME LifeInv, LifeInv', GoodInv, Tame, Tame', NEW i \in Slots, WsThread(i)
    PROVE  GoodInv'
  <1>1. ~WsDrop(i)
    BY DEF WsDrop, Tame, LifeInv, TypeOK
  <1>2. ~WsWait(i)
    BY DEF WsWait, GoodInv, ThreadInv
  <1>3. ~refused'
    BY DEF Tame
  <1> QED BY <1>1, <1>2, <1>3, WsBeginGood, WsOpenGood, WsFailGood, WsEndedGood, WsDyingGood,
          WsEndGood, WsSpawnGood DEF WsThread

-----------------------------------------------------------------------------
(* The rejoins, which the gateway's thread always overtakes.                 *)

\* One rejoin goes from one place to another; nobody else moves.
LEMMA RjPlaces ==
    ASSUME LifeInv, PlacesInv, NEW j \in Rejoiners, st'[j] \in {"idle", "ready", "pair"},
           \A t \in Callers \ {j} : st'[t] = st[t] /\ job'[t] = job[t],
           UNCHANGED <<gwup, ops, g_running, g_channel_id>>,
           Pristine => UNCHANGED <<dchan, inbox>>
    PROVE  PlacesInv'
  <1>1. "gw" \in Callers \ {j} /\ "ui" \in Callers \ {j}
    BY CallersAre
  <1>2. \A k \in Rejoiners : st'[k] = st[k] \/ k = j
    BY CallersAre
  <1> QED BY <1>1, <1>2 DEF PlacesInv, Pristine

\* A rejoin gives up, or finds the call to be the one it is for.
LEMMA RjAsideGood ==
    ASSUME LifeInv, LifeInv', GoodInv, NEW j \in Rejoiners,
           UNCHANGED <<callVars, ws, discordVars, ops>>,
           \A t \in Callers \ {j} : st'[t] = st[t] /\ job'[t] = job[t],
           \/ st'[j] = "idle"
           \/ st[j] = "new" /\ st'[j] = "ready" /\ job'[j].chan = job[j].chan
    PROVE  GoodInv'
  <1>1. UNCHANGED <<g_running, g_session_ready, g_generation, g_channel_id, g_voice_session,
                    g_have_state, g_ws_thread, dchan, dsess, dend, inbox, gwup>>
    BY DEF callVars, discordVars
  <1>2. /\ st'["gw"] = st["gw"] /\ job'["gw"] = job["gw"]
        /\ \A k \in Rejoiners \ {j} : st'[k] = st[k] /\ job'[k] = job[k]
    BY CallersAre
  <1>3. PlacesInv'
    BY <1>1, RjPlaces DEF GoodInv
  <1>4. WhereInv' /\ SessInv' /\ ThreadInv' /\ TookInv'
    BY <1>1, <1>2, WhereStays, SessStays, ThreadStays, TookStays DEF GoodInv, Known, BeingKicked
  <1>5. RejoinInv'
    <2>1. ASSUME NEW k \in Rejoiners \ {j}
          PROVE  /\ MayRebuild(k)' => MayRebuild(k) /\ job'[k].chan = job[k].chan
                 /\ st'[k] = "pair" /\ StillOurs(k)' => st[k] = "pair" /\ StillOurs(k)
      BY <1>1, <1>2 DEF MayRebuild, StillOurs
    <2>2. /\ MayRebuild(j)' => MayRebuild(j) /\ job'[j].chan = job[j].chan
          /\ st'[j] # "pair"
      BY DEF MayRebuild
    <2> QED BY <1>1, <1>2, <2>1, <2>2 DEF GoodInv, RejoinInv
  <1> QED BY <1>3, <1>4, <1>5 DEF GoodInv

\* Announcing the channel again is no news to Discord, or is read about after the
\* state that takes the call apart.
LEMMA RjAnnounceGood ==
    ASSUME LifeInv, LifeInv', GoodInv, NEW j \in Rejoiners, RjAnnounce(j), StillOurs(j)
    PROVE  GoodInv'
  <1> DEFINE c == job[j].chan
  <1>1. /\ st[j] = "ready" /\ st' = [st EXCEPT ![j] = "pair"] /\ job' = job
        /\ g_have_state' = FALSE /\ Op4(c)
        /\ UNCHANGED <<g_running, g_session_ready, g_generation, g_channel_id, g_voice_session,
                       g_ws_thread, ws, ops>>
        /\ g_running /\ g_channel_id = c /\ g_generation = job[j].era
    BY DEF RjAnnounce, Goto, boundVars, StillOurs
  <1>2. /\ st'[j] = "pair" /\ \A t \in Callers \ {j} : st'[t] = st[t] /\ job'[t] = job[t]
        /\ st'["gw"] = st["gw"] /\ job'["gw"] = job["gw"]
    BY <1>1, CallersAre
  <1>3. MayRebuild(j) /\ g_ws_thread \in Slots
    BY <1>1 DEF MayRebuild, LifeInv, HandleInv, TypeOK, SocketsOK
  <1>4. ws[g_ws_thread].code = 4014 /\ ws[g_ws_thread].pc = "exited"
    BY <1>3 DEF LifeInv, RebuildInv, GoodInv, RejoinInv
  <1>5. /\ c \in Nat /\ gwup = "up"
        /\ c = dchan => UNCHANGED discordVars
        /\ c # dchan => Told(c)
    BY <1>1, CallersAre, Op4Tells DEF LifeInv, GoodInv, PlacesInv
  <1> HIDE DEF c
  <1>6. PlacesInv'
    <2>1. gwup' = gwup
      BY <1>5 DEF Told, discordVars
    <2> QED BY <1>1, <1>2, <2>1, RjPlaces DEF GoodInv, Pristine
  <1>7. RejoinInv'
    <2>1. ASSUME NEW k \in Rejoiners, MayRebuild(k)' PROVE MayRebuild(k) /\ job'[k].chan = job[k].chan
      BY <1>1, <1>2, <1>3, <2>1, CallersAre DEF MayRebuild
    <2> QED BY <1>1, <1>2, <2>1 DEF GoodInv, RejoinInv
  <1>8. WhereInv' /\ SessInv' /\ TookInv'
    <2>1. CASE c = dchan
      <3>1. UNCHANGED <<inbox, dchan, dsess>>
        BY <1>5, <2>1 DEF discordVars
      <3> QED BY <1>1, <1>2, <3>1, WhereStays, SessStays, TookStays
          DEF GoodInv, Known, BeingKicked
    <2>2. CASE c # dchan
      BY <1>1, <1>2, <1>5, <2>2, ToldKeeps, ToldTook DEF GoodInv, LifeInv
    <2> QED BY <2>1, <2>2
  <1>9. ThreadInv'
    <2>1. ASSUME NEW k \in Slots, ws[k].pc # "none" PROVE k = g_ws_thread
      BY <2>1, OnlyThread
    <2> QED BY <1>1, <1>4, <2>1 DEF GoodInv, ThreadInv
  <1> QED BY <1>6, <1>7, <1>8, <1>9 DEF GoodInv

LEMMA RejoinGood ==
    ASSUME LifeInv, LifeInv', GoodInv, Tame, Tame', NEW j \in Rejoiners, Rejoin(j)
    PROVE  GoodInv'
  <1>0. st[j] \in {"idle", "new", "ready", "pair"} /\ j \in Callers
    BY CallersAre DEF GoodInv, PlacesInv
  <1>1. RjEnter(j) \/ RjAnnounce(j) \/ RjPair(j)
    BY <1>0 DEF Rejoin, Rehandshake, RjUp, RjCheck, HeavyAfter, RjReturn, StopEnter, StopReap,
                JoinAfter
  <1>2. CASE RjEnter(j)
    <2>1. UNCHANGED <<callVars, ws, discordVars, ops>> /\ st[j] = "new"
      BY <1>2 DEF RjEnter, boundVars
    <2>2. /\ \A t \in Callers \ {j} : st'[t] = st[t] /\ job'[t] = job[t]
          /\ st'[j] = "idle" \/ (st'[j] = "ready" /\ job'[j].chan = job[j].chan)
      BY <1>0, <1>2, CallersAre DEF RjEnter, Finish, Goto, Jobs
    <2> QED BY <2>1, <2>2, RjAsideGood
  <1>3. CASE RjAnnounce(j) /\ ~StillOurs(j)
    <2>1. UNCHANGED <<callVars, ws, discordVars, ops>>
      BY <1>3 DEF RjAnnounce, callVars, boundVars
    <2>2. st'[j] = "idle" /\ \A t \in Callers \ {j} : st'[t] = st[t] /\ job'[t] = job[t]
      BY <1>0, <1>3, CallersAre DEF RjAnnounce, Cancel, Finish, Goto
    <2> QED BY <2>1, <2>2, RjAsideGood
  <1>4. CASE RjPair(j) /\ ~StillOurs(j)
    <2>1. UNCHANGED <<callVars, ws, discordVars, ops>>
      BY <1>4 DEF RjPair, boundVars
    <2>2. st'[j] = "idle" /\ \A t \in Callers \ {j} : st'[t] = st[t] /\ job'[t] = job[t]
      BY <1>0, <1>4, CallersAre DEF RjPair, Cancel, Finish, Goto
    <2> QED BY <2>1, <2>2, RjAsideGood
  <1>5. ~(RjPair(j) /\ StillOurs(j))
    <2> SUFFICES ASSUME RjPair(j), StillOurs(j) PROVE FALSE
      OBVIOUS
    <2>1. st[j] = "pair" /\ g_running /\ MayRebuild(j) /\ g_ws_thread \in Slots
      BY DEF RjPair, StillOurs, MayRebuild, LifeInv, HandleInv, TypeOK, SocketsOK
    <2>2. ~g_have_state
      BY <2>1 DEF GoodInv, RejoinInv
    <2>3. inbox = <<>> /\ st["gw"] = "idle"
      BY <2>2 DEF RjPair, Waited, NoneComing, Tame
    <2>4. ws[g_ws_thread].code = 4014 /\ ws[g_ws_thread].pc = "exited"
      BY <2>1 DEF LifeInv, RebuildInv, GoodInv, RejoinInv
    <2>5. FirstIsNot(inbox, g_channel_id)
      BY <2>1, <2>3, <2>4 DEF GoodInv, TookInv, Took, Settled
    <2> QED BY <2>3, <2>5 DEF FirstIsNot
  <1> QED BY <1>1, <1>2, <1>3, <1>4, <1>5, RjAnnounceGood

-----------------------------------------------------------------------------
(* Moderators, and the whole step.                                           *)

LEMMA OthersGood ==
    ASSUME LifeInv, LifeInv', GoodInv, Tame, Tame', Others
    PROVE  GoodInv'
  <1>1. ~GatewaySessionLost
    BY DEF GatewaySessionLost, Tame, LifeInv, TypeOK
  <1>2. PICK c \in Nat : /\ Told(c) /\ c # dchan /\ dchan # 0
                         /\ (dsess' = dsess /\ dend' = dend) \/ dsess < dsess'
    <2>0. dsess \in Nat /\ dend \in Nat
      BY DEF LifeInv, TypeOK, DiscordOK
    <2>1. CASE Kick
      <3>1. Adds(inbox, inbox', 0, 0) /\ 0 \in Nat
        BY <2>1 DEF Kick, Adds
      <3>2. Told(0) /\ 0 # dchan /\ UNCHANGED <<dsess, dend>>
        BY <2>0, <2>1, <3>1 DEF Kick, Told
      <3> QED BY <2>1, <3>2 DEF Kick
    <2>2. ASSUME NEW c \in Channels, NEW across \in BOOLEAN, Move(c, across)
          PROVE  Told(c) /\ c # dchan /\ dchan # 0 /\ c \in Nat /\ dsess < dsess'
      <3>1. dsess + 1 \in Nat /\ dend + 1 \in Nat /\ c \in Nat
        BY <2>0, ChannelsAssumption
      <3>2. Adds(inbox, inbox', c, dsess + 1)
        BY <2>2, <3>1 DEF Move, Adds
      <3>3. /\ gwup' = gwup /\ dchan' = c /\ dsess' = dsess + 1 /\ c # dchan /\ dchan # 0
        BY <2>2 DEF Move
      <3> QED BY <2>0, <3>1, <3>2, <3>3 DEF Told
    <2> QED BY <1>1, <2>1, <2>2 DEF Others
  <1>3. UNCHANGED <<g_running, g_session_ready, g_generation, g_channel_id, g_voice_session,
                    g_have_state, g_ws_thread, st, job, ws, ops>>
    BY <1>1 DEF Others, Kick, Move, callVars, callerVars
  <1>a. Told(c) /\ c # dchan /\ dchan # 0
    BY <1>2
  <1>4. PlacesInv'
    <2>1. WsAside
      BY <1>3, <1>a DEF WsAside, Told
    <2> QED BY <1>a, <2>1, PlacesAside DEF GoodInv
  <1>5. WhereInv' /\ SessInv' /\ TookInv'
    BY <1>3, <1>a, ToldKeeps, ToldTook DEF GoodInv, LifeInv
  <1>6. RejoinInv'
    BY <1>3, RejoinStays DEF GoodInv
  <1>7. ThreadInv'
    <2>1. dsess \in Nat /\ dsess' \in Nat /\ dsess <= dsess'
      BY <1>a DEF Told, LifeInv, TypeOK, DiscordOK
    <2>2. \A i \in Slots : ws[i].sess \in Nat
      BY CallersAre DEF WsThreads
    <2>3. ASSUME NEW i \in Slots, ws[i].pc = "ready"
          PROVE  ws[i].sess <= dsess' /\ (ws[i].sess = dsess' => ws[i].url = dend')
      <3>1. ws[i].sess <= dsess /\ (ws[i].sess = dsess => ws[i].url = dend)
        BY <2>3 DEF GoodInv, ThreadInv
      <3>2. CASE dsess' = dsess /\ dend' = dend
        BY <3>1, <3>2
      <3>3. CASE dsess < dsess'
        BY <2>1, <2>2, <3>1, <3>3
      <3> QED BY <1>2, <3>2, <3>3
    <2> QED BY <1>3, <1>a, <2>3 DEF GoodInv, ThreadInv
  <1> QED BY <1>4, <1>5, <1>6, <1>7 DEF GoodInv

LEMMA InitGood == ASSUME Init PROVE GoodInv
  <1>1. /\ \A t \in Callers : st[t] = "idle"
        /\ ~g_running /\ g_channel_id = 0 /\ g_voice_session = 0 /\ dchan = 0 /\ dsess = 0
        /\ inbox = <<>> /\ gwup = "up" /\ ops = 0
        /\ \A i \in Slots : ws[i].pc = "none" /\ ws[i].code = 0
    BY DEF Init, NoWs
  <1>2. st["ui"] = "idle" /\ st["gw"] = "idle" /\ \A j \in Rejoiners : st[j] = "idle"
    BY <1>1 DEF Callers
  <1>3. PlacesInv
    BY <1>1, <1>2 DEF PlacesInv, Pristine
  <1>4. WhereInv /\ SessInv
    BY <1>1, <1>2 DEF WhereInv, SessInv, NoStateIn, Known, BeingKicked, Fresh
  <1>5. ThreadInv /\ TookInv /\ RejoinInv
    BY <1>1, <1>2 DEF ThreadInv, TookInv, RejoinInv, MayRebuild
  <1> QED BY <1>3, <1>4, <1>5 DEF GoodInv

LEMMA FewerBefore ==
    ASSUME TypeOK, [Next]_vars, ops' <= 1, upsets' = 0
    PROVE  ops <= 1 /\ upsets = 0
  <1>1. ops \in Nat /\ upsets \in Nat
    BY DEF TypeOK
  <1>2. CASE UNCHANGED vars
    BY <1>2 DEF vars, boundVars
  <1>3. CASE Ui
    BY <1>1, <1>3 DEF Ui, UiJoin, UiLeave, LeaveAfter, StopEnter, StopReap, JoinAfter, boundVars
  <1>4. CASE Gateway
    BY <1>1, <1>4 DEF Gateway, GwState, GwServer, StartVoice, KickedAfter, MovedAfter, GwLost,
           LostAfter, StopEnter, StopReap, boundVars
  <1>5. CASE \E i \in Slots : WsThread(i)
    BY <1>1, <1>5 DEF WsThread, WsBegin, WsOpen, WsFail, WsDrop, WsEnded, WsDying, WsWait, WsEnd,
           WsSpawn, boundVars
  <1>6. CASE \E j \in Rejoiners : Rejoin(j)
    <2>1. PICK j \in Rejoiners : Rejoin(j)
      BY <1>6
    <2>2. CASE RjEnter(j) \/ RjAnnounce(j) \/ RjPair(j) \/ Rehandshake(j)
      BY <2>2 DEF RjEnter, RjAnnounce, RjPair, Rehandshake, boundVars
    <2>3. CASE RjUp(j) \/ RjCheck(j) \/ HeavyAfter(j) \/ RjReturn(j)
      BY <2>3 DEF RjUp, RjCheck, HeavyAfter, RjReturn, boundVars
    <2>4. CASE StopEnter(j) \/ StopReap(j) \/ JoinAfter(j)
      BY <2>4 DEF StopEnter, StopReap, JoinAfter, boundVars
    <2> QED BY <2>1, <2>2, <2>3, <2>4 DEF Rejoin
  <1>7. CASE Others
    <2>1. ops' = ops /\ (upsets' = upsets \/ upsets' = upsets + 1)
      BY <1>7 DEF Others, Kick, GatewaySessionLost, Move
    <2> QED BY <1>1, <2>1
  <1> QED BY <1>2, <1>3, <1>4, <1>5, <1>6, <1>7 DEF Next

LEMMA TameStep == ASSUME TypeOK, [Next]_vars, Tame' PROVE Tame
  <1>1. late \in Nat
    BY DEF TypeOK
  <1> QED BY <1>1, FewerBefore, PastGrows DEF Tame, Grows

LEMMA TameIsTidy == ASSUME LateInv, Tame PROVE Tidy
  BY DEF LateInv, Tame, Tidy

LEMMA GoodStep ==
    ASSUME TypeOK, LateInv, Tidy => LifeInv, Tame => GoodInv, [Next]_vars, Tame'
    PROVE  GoodInv'
  <1>0. Tame /\ GoodInv /\ Tidy /\ Tidy'
    BY TameStep, TameIsTidy, TidyStep DEF LateInv, Tame, Tidy
  <1>1. LifeInv /\ LifeInv' /\ ~overtook' /\ ~refused'
    BY <1>0, TidyStep DEF Tidy, Tame
  <1>2. Tame /\ GoodInv /\ TypeOK'
    BY <1>0, <1>1 DEF LifeInv
  <1>3. CASE UNCHANGED vars
    BY <1>2, <1>3 DEF vars, callVars, callerVars, discordVars, boundVars, GoodInv, PlacesInv,
           Pristine, WhereInv, LastIs, NoStateIn, Known, BeingKicked, SessInv, Fresh, ThreadInv,
           TookInv, Took, Settled, FirstIsNot, RejoinInv, MayRebuild, StillOurs
  <1> QED BY <1>1, <1>2, <1>3, UiGood, GatewayGood, WsThreadGood, RejoinGood, OthersGood DEF Next

LEMMA GoodMeansUp ==
    ASSUME LateInv, Tidy => LifeInv, Tame => GoodInv
    PROVE  IgnoredJoinIsUp
  <1>0. Tame => LifeInv
    BY TameIsTidy
  <1> SUFFICES ASSUME Quiet, Tame, LifeInv, NEW c \in Channels, ~Joins(c)
               PROVE  Up /\ g_session_ready /\ dchan = c
    BY <1>0 DEF IgnoredJoinIsUp, Tame
  <1>1. /\ g_running /\ g_channel_id = c /\ c # 0 /\ GoodInv
        /\ inbox = <<>> /\ st["gw"] = "idle" /\ g_ws_thread \in Slots
    BY ChannelsAssumption, CallersAre
       DEF Joins, Quiet, LifeInv, HandleInv, TypeOK, SocketsOK
  <1>2. ~FirstIsNot(inbox, g_channel_id) /\ ~LastIs(inbox, dchan) /\ ~BeingKicked
    BY <1>1 DEF FirstIsNot, LastIs, BeingKicked
  <1>3. dchan = c
    BY <1>1, <1>2 DEF GoodInv, WhereInv, Known
  <1>4. ws[g_ws_thread].pc = "ready" /\ ~Over(g_ws_thread)
    <2>1. ws[g_ws_thread].pc # "none"
      BY <1>1 DEF GoodInv, ThreadInv
    <2>2. ws[g_ws_thread].pc # "exited"
      <3> SUFFICES ASSUME ws[g_ws_thread].pc = "exited" PROVE FALSE
        OBVIOUS
      <3>1. ws[g_ws_thread].code = 4014
        BY <1>1, <1>3 DEF GoodInv, ThreadInv
      <3> QED BY <1>1, <1>2, <3>1 DEF GoodInv, TookInv, Took, Settled
    <2> QED BY <1>1, <2>1, <2>2 DEF Quiet
  <1>5. /\ ws[g_ws_thread].sess = dsess /\ ws[g_ws_thread].url = dend /\ g_session_ready
    BY <1>1, <1>4 DEF Over, GoodInv, ThreadInv
  <1> QED BY <1>1, <1>3, <1>4, <1>5 DEF Up

\* After the first join, whatever moderators do to it: a join that is ignored, with
\* nothing under way, is ignored for a call that is up where Discord has it, as long
\* as the voice server could be reached, no wait ran out before what it waited for
\* and nothing overtook a rejoin that was about to act.
THEOREM IgnoredIsUp == Spec => []IgnoredJoinIsUp
  <1> DEFINE Inv == TypeOK /\ LateInv /\ (Tidy => LifeInv) /\ (Tame => GoodInv)
  <1>1. Init => Inv
    BY InitTidy, InitGood
  <1>2. Inv /\ [Next]_vars => Inv'
    BY TidyStep, GoodStep
  <1>3. Inv => IgnoredJoinIsUp
    BY GoodMeansUp
  <1> QED BY <1>1, <1>2, <1>3, PTL DEF Spec
=============================================================================
