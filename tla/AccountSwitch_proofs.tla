------------------------- MODULE AccountSwitch_proofs -------------------------
(***************************************************************************)
(* That voice_conn() is always the connection whose session has the call,  *)
(* that a switch with a call up never closes it, that no session is        *)
(* started while another is taken apart, and that a call which is up is    *)
(* never taken for over: for every set of accounts and every bound.        *)
(***************************************************************************)
EXTENDS AccountSwitch, TLAPS

Sessions ==
    /\ conn["a"].sess # conn["b"].sess
    /\ \A s \in Slots : conn[s].running => conn[s].sess # 0

Logins ==
    /\ At("job", "check") \/ At("job", "start") => login \in Accounts
    /\ op.name = "switch" => op.user \in Accounts

\* Sessions are told apart, a sign-in is for an account, and a call is Discord's
\* by the session of voice_conn() alone
CallInv ==
    /\ TypeOK
    /\ Logins
    /\ Sessions
    /\ HeldIsTheCalls

USE DEF Slots, Threads

LEMMA Others == Other("a") = "b" /\ Other("b") = "a"
  BY DEF Other

LEMMA InitCallInv == Init => CallInv
  <1> SUFFICES ASSUME Init PROVE CallInv
    OBVIOUS
  <1>1. inbox \in [Slots -> Seq(Message)]
    BY FirstAssumption DEF Init, Message, Msg
  <1>2. st \in StType
    BY DEF Init, StType, Pcs
  <1>3. TypeOK
    BY <1>1, <1>2, FirstAssumption
    DEF Init, TypeOK, ConnType, CallType, Someone, NoOp, NoCall
  <1>4. Sessions
    <2>1. conn["a"].sess = 1 /\ conn["b"].sess = 0
      BY DEF Init
    <2>2. conn["b"].running = FALSE
      BY DEF Init
    <2> QED BY <2>1, <2>2 DEF Sessions
  <1>5. QED
    BY <1>3, <1>4 DEF Init, CallInv, Logins, HeldIsTheCalls, At, NoOp, NoCall

--------------------------------------------------------------------------------
(* What the operators that change Discord's side and the connections keep    *)

LEMMA TellType ==
    ASSUME NEW box \in [Slots -> Seq(Message)], NEW at \in [Slots -> ConnType],
           NEW u \in Accounts, NEW c \in {0, 1}, NEW n \in Nat
    PROVE  Tell(box, u, c, n, at) \in [Slots -> Seq(Message)]
  <1>1. Msg("state", u, c, n) \in Message
    BY DEF Msg, Message
  <1>2. QED
    BY <1>1 DEF Tell

\* op 4 goes to voice_conn(), which is where the call then is
LEMMA Op4Keeps ==
    ASSUME CallInv, NEW c \in {0, 1}, Op4(VoiceConn, c), conn' = conn, g_active' = g_active
    PROVE  /\ inbox' \in [Slots -> Seq(Message)]
           /\ dcall' \in [Accounts -> [by : Nat, n : Nat]] /\ given' \in Nat
           /\ HeldIsTheCalls'
  <1> DEFINE s == VoiceConn
             u == conn[s].user
             box == Tell(inbox, u, c, IF c = 0 THEN 0 ELSE given + 1, conn)
  <1>1. s \in Slots /\ conn[s] \in ConnType /\ u \in Accounts
    BY Others DEF CallInv, TypeOK, VoiceConn, Spare, ConnType
  <1>2. box \in [Slots -> Seq(Message)]
    <2>1. (IF c = 0 THEN 0 ELSE given + 1) \in Nat
      BY DEF CallInv, TypeOK
    <2> QED BY <1>1, <2>1, TellType DEF CallInv, TypeOK
  <1>3. VoiceConn' = VoiceConn
    BY DEF VoiceConn, Spare, Holding
  <1>4. CASE UNCHANGED discord
    BY <1>3, <1>4 DEF CallInv, TypeOK, HeldIsTheCalls, discord
  <1>5. CASE ~UNCHANGED discord
    <2>1. /\ conn[s].running /\ given' = given + c
          /\ dcall' = [dcall EXCEPT ![u] =
                IF c = 0 THEN NoCall ELSE [by |-> conn[s].sess, n |-> given + 1]]
          /\ inbox' = IF c = 0 THEN box
                      ELSE [box EXCEPT ![s] = Append(@, Msg("server", u, c, 0))]
      BY <1>5 DEF Op4
    <2>2. Msg("server", u, c, 0) \in Message
      BY <1>1 DEF Msg, Message
    <2>3. inbox' \in [Slots -> Seq(Message)]
      BY <1>1, <1>2, <2>1, <2>2
    <2>4. dcall' \in [Accounts -> [by : Nat, n : Nat]] /\ given' \in Nat
      BY <1>1, <2>1 DEF CallInv, TypeOK, ConnType, NoCall
    <2>5. HeldIsTheCalls'
      <3> SUFFICES ASSUME NEW w \in Accounts, dcall'[w].by # 0
                   PROVE  /\ conn'[s].running /\ conn'[s].user = w
                          /\ conn'[s].sess = dcall'[w].by
        BY <1>3 DEF HeldIsTheCalls
      <3>1. CASE w = u
        BY <1>1, <2>1, <3>1 DEF CallInv, TypeOK, NoCall
      <3>2. CASE w # u
        BY <1>1, <2>1, <3>2 DEF CallInv, TypeOK, HeldIsTheCalls
      <3> QED BY <3>1, <3>2
    <2> QED BY <2>3, <2>4, <2>5
  <1> QED BY <1>4, <1>5

\* A connection that closes takes its own session's call with it, and no other
LEMMA CloseKeeps ==
    ASSUME CallInv, NEW s \in Slots, Close(s), conn[s].running, g_active' = g_active
    PROVE  /\ conn' \in [Slots -> ConnType] /\ Sessions'
           /\ inbox' \in [Slots -> Seq(Message)]
           /\ dcall' \in [Accounts -> [by : Nat, n : Nat]] /\ given' \in Nat
           /\ HeldIsTheCalls'
           /\ s # VoiceConn => dcall' = dcall
  <1> DEFINE u == conn[s].user
             shut == [conn EXCEPT ![s].running = FALSE]
             dead == [inbox EXCEPT ![s] = <<>>]
  <1>1. /\ conn' = shut /\ given' = given
        /\ dcall' = IF dcall[u].by = conn[s].sess THEN [dcall EXCEPT ![u] = NoCall] ELSE dcall
        /\ inbox' = IF dcall[u].by = conn[s].sess THEN Tell(dead, u, 0, 0, shut) ELSE dead
    BY DEF Close
  <1>2. u \in Accounts /\ shut \in [Slots -> ConnType] /\ given' \in Nat
    <2>1. conn \in [Slots -> ConnType] /\ given \in Nat
      BY DEF CallInv, TypeOK
    <2>2. conn[s] \in ConnType
      BY <2>1
    <2>3. u \in Accounts /\ [conn[s] EXCEPT !.running = FALSE] \in ConnType
      BY <2>2 DEF ConnType
    <2> HIDE DEF u
    <2> QED BY <1>1, <2>1, <2>3
  <1>3. dead \in [Slots -> Seq(Message)]
    BY DEF CallInv, TypeOK
  <1>4. Tell(dead, u, 0, 0, shut) \in [Slots -> Seq(Message)]
    BY <1>2, <1>3, TellType
  <1>5. dcall' \in [Accounts -> [by : Nat, n : Nat]]
    BY <1>1, <1>2 DEF CallInv, TypeOK, NoCall
  <1>6. Sessions'
    BY <1>1 DEF CallInv, TypeOK, ConnType, Sessions
  <1>7. \A w \in Accounts : dcall[w].by # 0 =>
            /\ VoiceConn \in Slots /\ conn[VoiceConn].running
            /\ conn[VoiceConn].user = w /\ conn[VoiceConn].sess = dcall[w].by
    BY Others DEF CallInv, TypeOK, HeldIsTheCalls, VoiceConn, Spare
  <1>8. CASE s = VoiceConn
    <2>1. \A w \in Accounts : dcall'[w].by = 0
      BY <1>1, <1>2, <1>7, <1>8 DEF CallInv, TypeOK, NoCall
    <2> QED
      BY <1>1, <1>2, <1>3, <1>4, <1>5, <1>6, <1>8, <2>1 DEF CallInv, HeldIsTheCalls
  <1>9. CASE s # VoiceConn
    \* both run, and the one in front closes
    <2>1. Holding /\ s = g_active /\ VoiceConn = Spare /\ Spare \in Slots /\ Spare # s
      BY <1>9, Others DEF CallInv, TypeOK, VoiceConn, Spare, Holding
    <2>2. VoiceConn' = VoiceConn /\ conn'[VoiceConn] = conn[VoiceConn]
      BY <1>1, <2>1 DEF CallInv, TypeOK, ConnType, VoiceConn, Spare, Holding
    <2>3. dcall' = dcall
      <3>1. CASE dcall[u].by = 0
        BY <1>1, <3>1 DEF CallInv, Sessions
      <3>2. CASE dcall[u].by # 0
        <4>1. conn[VoiceConn].sess = dcall[u].by
          BY <1>2, <1>7, <3>2
        <4>2. conn[VoiceConn].sess # conn[s].sess
          BY <2>1, Others DEF CallInv, Sessions, Spare
        <4>3. dcall[u].by # conn[s].sess
          BY <4>1, <4>2
        <4> QED BY <1>1, <4>3
      <3> QED BY <3>1, <3>2
    <2> QED
      BY <1>1, <1>2, <1>3, <1>4, <1>5, <1>6, <1>7, <2>2, <2>3, <1>9
      DEF CallInv, HeldIsTheCalls
  <1> QED BY <1>8, <1>9

\* The connection that is started is not the one with the call
LEMMA StartKeeps ==
    ASSUME CallInv, NEW u \in Accounts, Start(u), g_active' = g_active, dcall' = dcall
    PROVE  /\ conn' \in [Slots -> ConnType] /\ Sessions'
           /\ inbox' \in [Slots -> Seq(Message)]
           /\ st' \in StType
           /\ HeldIsTheCalls'
  <1> DEFINE s == g_active
             n == 1 + conn["a"].sess + conn["b"].sess
             new == [running |-> TRUE, dispatching |-> TRUE, user |-> u, sess |-> n]
  <1>1. s \in Slots /\ n \in Nat /\ n > conn["a"].sess /\ n > conn["b"].sess /\ new \in ConnType
    BY DEF CallInv, TypeOK, ConnType
  <1>2. st \in StType
    BY DEF CallInv, TypeOK
  <1>3. CASE conn[s].running
    <2>1. conn' = conn /\ inbox' = inbox /\ Goes("job", "none")
      BY <1>3 DEF Start
    <2>2. VoiceConn' = VoiceConn
      BY <2>1 DEF VoiceConn, Spare, Holding
    <2>3. st' \in StType
      BY <1>2, <2>1 DEF Goes, StType, Pcs
    <2> QED
      BY <2>1, <2>2, <2>3 DEF CallInv, TypeOK, Sessions, HeldIsTheCalls
  <1>4. CASE ~conn[s].running
    <2>1. /\ conn' = [conn EXCEPT ![s] = new]
          /\ Both(s, "recv", "job", "none")
          /\ \E view \in {<<>>, <<Msg("state", u, 1, dcall[u].n)>>, <<Msg("state", u, 0, 0)>>} :
                inbox' = [inbox EXCEPT ![s] = <<Msg("ready", u, 0, 0)>> \o view]
      BY <1>4 DEF Start
    <2>2. st' \in StType
      BY <1>1, <1>2, <2>1 DEF StType, Pcs, Both
    <2>3. /\ Msg("ready", u, 0, 0) \in Message /\ Msg("state", u, 0, 0) \in Message
          /\ Msg("state", u, 1, dcall[u].n) \in Message
      BY DEF CallInv, TypeOK, Msg, Message
    <2>4. inbox' \in [Slots -> Seq(Message)]
      <3>1. inbox \in [Slots -> Seq(Message)]
        BY DEF CallInv, TypeOK
      <3>2. PICK view \in {<<>>, <<Msg("state", u, 1, dcall[u].n)>>, <<Msg("state", u, 0, 0)>>} :
                inbox' = [inbox EXCEPT ![s] = <<Msg("ready", u, 0, 0)>> \o view]
        BY <2>1
      <3>3. view = <<>> \/ \E m \in Message : view = <<m>>
        BY <2>3, <3>2
      <3>4. view \in Seq(Message) /\ <<Msg("ready", u, 0, 0)>> \in Seq(Message)
        <4>1. CASE view = <<>>
          BY <2>3, <4>1
        <4>2. ASSUME NEW m \in Message, view = <<m>> PROVE view \in Seq(Message)
          BY <4>2
        <4>3. <<Msg("ready", u, 0, 0)>> \in Seq(Message)
          BY <2>3
        <4> QED BY <3>3, <4>1, <4>2, <4>3
      <3> DEFINE both == <<Msg("ready", u, 0, 0)>> \o view
      <3>5. both \in Seq(Message)
        BY <3>4
      <3>6. inbox' = [inbox EXCEPT ![s] = both]
        BY <3>2
      <3> HIDE DEF both
      <3> QED BY <3>1, <3>5, <3>6
    <2>5. conn' \in [Slots -> ConnType]
      BY <1>1, <2>1 DEF CallInv, TypeOK
    <2>6. Sessions'
      <3>1. \A t \in Slots : conn[t] \in ConnType /\ conn[t].sess \in Nat
        BY DEF CallInv, TypeOK, ConnType
      <3>2. conn'[s].sess = n /\ \A t \in Slots \ {s} : conn'[t] = conn[t]
        BY <1>1, <2>1 DEF CallInv, TypeOK
      <3>3. n # 0 /\ \A t \in Slots : n # conn[t].sess
        BY <1>1, <3>1
      <3> HIDE DEF n
      <3> QED BY <1>1, <3>2, <3>3 DEF CallInv, Sessions
    <2>7. HeldIsTheCalls'
      <3>1. VoiceConn' = VoiceConn
        BY <1>1, <2>1, Others DEF CallInv, TypeOK, VoiceConn, Spare, Holding
      <3>2. CASE VoiceConn = s
        BY <1>4, <3>2 DEF CallInv, HeldIsTheCalls
      <3>3. CASE VoiceConn # s
        <4>1. conn'[VoiceConn] = conn[VoiceConn]
          BY <1>1, <2>1, <3>3 DEF CallInv, TypeOK
        <4> QED BY <3>1, <4>1 DEF CallInv, HeldIsTheCalls
      <3> QED BY <3>2, <3>3
    <2> QED BY <2>2, <2>4, <2>5, <2>6, <2>7
  <1> QED BY <1>3, <1>4

\* A step that leaves the connections and Discord's side alone
LEMMA RestKeeps ==
    ASSUME CallInv, UNCHANGED <<conn, g_active, dcall>>
    PROVE  Sessions' /\ HeldIsTheCalls'
  <1>1. VoiceConn' = VoiceConn
    BY DEF VoiceConn, Spare, Holding
  <1> QED BY <1>1 DEF CallInv, Sessions, HeldIsTheCalls

--------------------------------------------------------------------------------
(* Steps that leave the connections and Discord's side alone                 *)

LEMMA GoesType ==
    ASSUME st \in StType, NEW t \in Threads, NEW pc \in Pcs, Goes(t, pc)
    PROVE  st' \in StType /\ \A x \in Threads \ {t} : st'[x] = st[x]
  BY DEF StType, Goes

LEMMA ThroughType ==
    ASSUME st \in StType, NEW t \in Threads, NEW pc \in Pcs, NEW next \in Pcs, NEW s \in Slots,
           Through(t, pc, next, s)
    PROVE  st' \in StType /\ \A x \in Threads \ {t} : st'[x] = st[x]
  BY DEF StType, Through

LEMMA BothType ==
    ASSUME st \in StType, NEW t \in Threads, NEW pc \in Pcs,
           NEW y \in Threads, NEW py \in Pcs, Both(t, pc, y, py)
    PROVE  st' \in StType /\ \A x \in Threads \ {t, y} : st'[x] = st[x]
  BY DEF StType, Both

LEMMA NextType ==
    ASSUME st \in StType, NEW t \in Threads
    PROVE  st[t].next \in Pcs /\ st[t].slot \in Slots
  BY DEF StType

\* A step of another thread than the job, that switches to nobody unknown
LEMMA JobStays ==
    ASSUME CallInv, st'["job"] = st["job"], login' = login,
           op' = op \/ op'.name # "switch" \/ op'.user \in Accounts
    PROVE  Logins'
  BY DEF CallInv, Logins, At

LEMMA StartVoiceKeeps ==
    ASSUME CallInv, NEW s \in Slots, StartVoice(s)
    PROVE  CallInv'
  <1>1. TypeOK'
    <2>1. st' \in StType
      BY GoesType, ThroughType, BothType, NextType DEF LifeGuard, StartVoice, CallInv, TypeOK, Pcs, Does
    <2>2. call' \in CallType
      BY DEF LifeGuard, StartVoice, CallInv, TypeOK, CallType, Someone, Does
    <2>3. QED
      BY <2>1, <2>2 DEF LifeGuard, StartVoice, MovesOn, CallInv, TypeOK, Logins, Someone, NoOp, At, Does, store, discord
  <1>2. Logins'
    <2>1. st'["job"] = st["job"]
      BY DEF LifeGuard, StartVoice, CallInv, TypeOK, StType, Goes, Through, Both, Does
    <2>2. login' = login /\ (op' = op \/ op'.name # "switch" \/ op'.user \in Accounts)
      BY DEF LifeGuard, StartVoice, Does, NoOp
    <2> QED BY <2>1, <2>2, JobStays
  <1>3. UNCHANGED <<conn, g_active, dcall>>
    BY DEF LifeGuard, StartVoice, Does, discord
  <1> QED BY <1>1, <1>2, <1>3, RestKeeps DEF CallInv

LEMMA FoldKeeps ==
    ASSUME CallInv, NEW s \in Slots, Fold(s)
    PROVE  CallInv'
  <1>1. TypeOK'
    <2>1. st' \in StType
      BY GoesType, ThroughType, BothType, NextType DEF Folded, Fold, CallInv, TypeOK, Pcs, Does
    <2>2. call' \in CallType
      BY DEF Folded, Fold, CallInv, TypeOK, CallType, Someone, Does
    <2>3. QED
      <3>1. conn[s].user \in Accounts
        BY DEF CallInv, TypeOK, ConnType
      <3> QED
        BY <2>1, <2>2, <3>1 DEF Folded, Fold, CallInv, TypeOK, Someone, discord
  <1>2. Logins'
    <2>1. st'["job"] = st["job"]
      BY DEF Folded, Fold, CallInv, TypeOK, StType, Goes, Through, Both, Does
    <2>2. login' = login /\ (op' = op \/ op'.name # "switch" \/ op'.user \in Accounts)
      BY DEF Folded, Fold, Does, NoOp
    <2> QED BY <2>1, <2>2, JobStays
  <1>3. UNCHANGED <<conn, g_active, dcall>>
    BY DEF Folded, Fold, Does, discord
  <1> QED BY <1>1, <1>2, <1>3, RestKeeps DEF CallInv

LEMMA ClearedKeeps ==
    ASSUME CallInv, NEW s \in Slots, Cleared(s)
    PROVE  CallInv'
  <1>1. TypeOK'
    <2>1. st' \in StType
      BY GoesType, ThroughType, BothType, NextType DEF Cleared, CallInv, TypeOK, Pcs, Does
    <2>2. call' \in CallType
      BY DEF Cleared, CallInv, TypeOK, CallType, Someone, Does
    <2>3. QED
      BY <2>1, <2>2 DEF Cleared, CallInv, TypeOK, Logins, Someone, NoOp, At, Does, store, discord
  <1>2. Logins'
    <2>1. st'["job"] = st["job"]
      BY DEF Cleared, CallInv, TypeOK, StType, Goes, Through, Both, Does
    <2>2. login' = login /\ (op' = op \/ op'.name # "switch" \/ op'.user \in Accounts)
      BY DEF Cleared, Does, NoOp
    <2> QED BY <2>1, <2>2, JobStays
  <1>3. UNCHANGED <<conn, g_active, dcall>>
    BY DEF Cleared, Does, discord
  <1> QED BY <1>1, <1>2, <1>3, RestKeeps DEF CallInv

LEMMA GatewayEndKeeps ==
    ASSUME CallInv, NEW s \in Slots, GatewayEnd(s)
    PROVE  CallInv'
  <1>1. TypeOK'
    <2>1. st' \in StType
      BY GoesType, ThroughType, BothType, NextType DEF GatewayEnd, CallInv, TypeOK, Pcs, Does
    <2>2. call' \in CallType
      BY DEF GatewayEnd, CallInv, TypeOK, CallType, Someone, Does
    <2>3. QED
      BY <2>1, <2>2 DEF GatewayEnd, CallInv, TypeOK, Logins, Someone, NoOp, At, Does, store, discord
  <1>2. Logins'
    <2>1. st'["job"] = st["job"]
      BY DEF GatewayEnd, CallInv, TypeOK, StType, Goes, Through, Both, Does
    <2>2. login' = login /\ (op' = op \/ op'.name # "switch" \/ op'.user \in Accounts)
      BY DEF GatewayEnd, Does, NoOp
    <2> QED BY <2>1, <2>2, JobStays
  <1>3. UNCHANGED <<conn, g_active, dcall>>
    BY DEF GatewayEnd, Does, discord
  <1> QED BY <1>1, <1>2, <1>3, RestKeeps DEF CallInv

LEMMA WsUpKeeps ==
    ASSUME CallInv, WsUp
    PROVE  CallInv'
  <1>1. TypeOK'
    <2>1. st' \in StType
      BY GoesType, ThroughType, BothType, NextType DEF WsUp, CallInv, TypeOK, Pcs, Does
    <2>2. call' \in CallType
      BY DEF WsUp, CallInv, TypeOK, CallType, Someone, Does
    <2>3. QED
      BY <2>1, <2>2 DEF WsUp, CallInv, TypeOK, Logins, Someone, NoOp, At, Does, store, discord
  <1>2. Logins'
    <2>1. st'["job"] = st["job"]
      BY DEF WsUp, CallInv, TypeOK, StType, Goes, Through, Both, Does
    <2>2. login' = login /\ (op' = op \/ op'.name # "switch" \/ op'.user \in Accounts)
      BY DEF WsUp, Does, NoOp
    <2> QED BY <2>1, <2>2, JobStays
  <1>3. UNCHANGED <<conn, g_active, dcall>>
    BY DEF WsUp, Does, discord
  <1> QED BY <1>1, <1>2, <1>3, RestKeeps DEF CallInv

LEMMA WsRefusedKeeps ==
    ASSUME CallInv, WsRefused
    PROVE  CallInv'
  <1>1. TypeOK'
    <2>1. st' \in StType
      BY GoesType, ThroughType, BothType, NextType DEF WsRefused, CallInv, TypeOK, Pcs, Does
    <2>2. call' \in CallType
      BY DEF WsRefused, CallInv, TypeOK, CallType, Someone, Does
    <2>3. QED
      BY <2>1, <2>2 DEF WsRefused, CallInv, TypeOK, Logins, Someone, NoOp, At, Does, store, discord
  <1>2. Logins'
    <2>1. st'["job"] = st["job"]
      BY DEF WsRefused, CallInv, TypeOK, StType, Goes, Through, Both, Does
    <2>2. login' = login /\ (op' = op \/ op'.name # "switch" \/ op'.user \in Accounts)
      BY DEF WsRefused, Does, NoOp
    <2> QED BY <2>1, <2>2, JobStays
  <1>3. UNCHANGED <<conn, g_active, dcall>>
    BY DEF WsRefused, Does, discord
  <1> QED BY <1>1, <1>2, <1>3, RestKeeps DEF CallInv

LEMMA WsStoppedKeeps ==
    ASSUME CallInv, WsStopped
    PROVE  CallInv'
  <1>1. TypeOK'
    <2>1. st' \in StType
      BY GoesType, ThroughType, BothType, NextType DEF WsStopped, CallInv, TypeOK, Pcs, Does
    <2>2. call' \in CallType
      BY DEF WsStopped, CallInv, TypeOK, CallType, Someone, Does
    <2>3. QED
      BY <2>1, <2>2 DEF WsStopped, CallInv, TypeOK, Logins, Someone, NoOp, At, Does, store, discord
  <1>2. Logins'
    <2>1. st'["job"] = st["job"]
      BY DEF WsStopped, CallInv, TypeOK, StType, Goes, Through, Both, Does
    <2>2. login' = login /\ (op' = op \/ op'.name # "switch" \/ op'.user \in Accounts)
      BY DEF WsStopped, Does, NoOp
    <2> QED BY <2>1, <2>2, JobStays
  <1>3. UNCHANGED <<conn, g_active, dcall>>
    BY DEF WsStopped, Does, discord
  <1> QED BY <1>1, <1>2, <1>3, RestKeeps DEF CallInv

LEMMA WsDrainedKeeps ==
    ASSUME CallInv, WsDrained
    PROVE  CallInv'
  <1>1. TypeOK'
    <2>1. st' \in StType
      BY GoesType, ThroughType, BothType, NextType DEF WsDrained, CallInv, TypeOK, Pcs, Does
    <2>2. call' \in CallType
      BY DEF WsDrained, CallInv, TypeOK, CallType, Someone, Does
    <2>3. QED
      BY <2>1, <2>2 DEF WsDrained, CallInv, TypeOK, Logins, Someone, NoOp, At, Does, store, discord
  <1>2. Logins'
    <2>1. st'["job"] = st["job"]
      BY DEF WsDrained, CallInv, TypeOK, StType, Goes, Through, Both, Does
    <2>2. login' = login /\ (op' = op \/ op'.name # "switch" \/ op'.user \in Accounts)
      BY DEF WsDrained, Does, NoOp
    <2> QED BY <2>1, <2>2, JobStays
  <1>3. UNCHANGED <<conn, g_active, dcall>>
    BY DEF WsDrained, Does, discord
  <1> QED BY <1>1, <1>2, <1>3, RestKeeps DEF CallInv

LEMMA WsEndKeeps ==
    ASSUME CallInv, WsEnd
    PROVE  CallInv'
  <1>1. TypeOK'
    <2>1. st' \in StType
      BY GoesType, ThroughType, BothType, NextType DEF WsEnd, CallInv, TypeOK, Pcs, Does
    <2>2. call' \in CallType
      BY ZenonT(40) DEF WsEnd, CallInv, TypeOK, CallType, Someone, Does
    <2>3. QED
      BY <2>1, <2>2 DEF WsEnd, CallInv, TypeOK, Logins, Someone, NoOp, At, Does, store, discord
  <1>2. Logins'
    <2>1. st'["job"] = st["job"]
      BY DEF WsEnd, CallInv, TypeOK, StType, Goes, Through, Both, Does
    <2>2. login' = login /\ (op' = op \/ op'.name # "switch" \/ op'.user \in Accounts)
      BY DEF WsEnd, Does, NoOp
    <2> QED BY <2>1, <2>2, JobStays
  <1>3. UNCHANGED <<conn, g_active, dcall>>
    BY DEF WsEnd, Does, discord
  <1> QED BY <1>1, <1>2, <1>3, RestKeeps DEF CallInv

LEMMA RjPairKeeps ==
    ASSUME CallInv, RjPair
    PROVE  CallInv'
  <1>1. TypeOK'
    <2>1. st' \in StType
      BY GoesType, ThroughType, BothType, NextType DEF RjPair, CallInv, TypeOK, Pcs, Does
    <2>2. call' \in CallType
      BY DEF RjPair, CallInv, TypeOK, CallType, Someone, Does
    <2>3. QED
      BY <2>1, <2>2 DEF RjPair, CallInv, TypeOK, Logins, Someone, NoOp, At, Does, store, discord
  <1>2. Logins'
    <2>1. st'["job"] = st["job"]
      BY DEF RjPair, CallInv, TypeOK, StType, Goes, Through, Both, Does
    <2>2. login' = login /\ (op' = op \/ op'.name # "switch" \/ op'.user \in Accounts)
      BY DEF RjPair, Does, NoOp
    <2> QED BY <2>1, <2>2, JobStays
  <1>3. UNCHANGED <<conn, g_active, dcall>>
    BY DEF RjPair, Does, discord
  <1> QED BY <1>1, <1>2, <1>3, RestKeeps DEF CallInv

LEMMA RjHeavyKeeps ==
    ASSUME CallInv, RjHeavy
    PROVE  CallInv'
  <1>1. TypeOK'
    <2>1. st' \in StType
      BY GoesType, ThroughType, BothType, NextType DEF RjHeavy, CallInv, TypeOK, Pcs, Does
    <2>2. call' \in CallType
      BY DEF RjHeavy, CallInv, TypeOK, CallType, Someone, Does
    <2>3. QED
      BY <2>1, <2>2 DEF RjHeavy, CallInv, TypeOK, Logins, Someone, NoOp, At, Does, store, discord
  <1>2. Logins'
    <2>1. st'["job"] = st["job"]
      BY DEF RjHeavy, CallInv, TypeOK, StType, Goes, Through, Both, Does
    <2>2. login' = login /\ (op' = op \/ op'.name # "switch" \/ op'.user \in Accounts)
      BY DEF RjHeavy, Does, NoOp
    <2> QED BY <2>1, <2>2, JobStays
  <1>3. UNCHANGED <<conn, g_active, dcall>>
    BY DEF RjHeavy, Does, discord
  <1> QED BY <1>1, <1>2, <1>3, RestKeeps DEF CallInv

LEMMA RjDoneKeeps ==
    ASSUME CallInv, RjDone
    PROVE  CallInv'
  <1>1. TypeOK'
    <2>1. st' \in StType
      BY GoesType, ThroughType, BothType, NextType DEF RjDone, CallInv, TypeOK, Pcs, Does
    <2>2. call' \in CallType
      BY DEF RjDone, CallInv, TypeOK, CallType, Someone, Does
    <2>3. QED
      BY <2>1, <2>2 DEF RjDone, CallInv, TypeOK, Logins, Someone, NoOp, At, Does, store, discord
  <1>2. Logins'
    <2>1. st'["job"] = st["job"]
      BY DEF RjDone, CallInv, TypeOK, StType, Goes, Through, Both, Does
    <2>2. login' = login /\ (op' = op \/ op'.name # "switch" \/ op'.user \in Accounts)
      BY DEF RjDone, Does, NoOp
    <2> QED BY <2>1, <2>2, JobStays
  <1>3. UNCHANGED <<conn, g_active, dcall>>
    BY DEF RjDone, Does, discord
  <1> QED BY <1>1, <1>2, <1>3, RestKeeps DEF CallInv

LEMMA RjJoinKeeps ==
    ASSUME CallInv, RjJoin
    PROVE  CallInv'
  <1>1. TypeOK'
    <2>1. st' \in StType
      BY GoesType, ThroughType, BothType, NextType DEF RjJoin, CallInv, TypeOK, Pcs, Does
    <2>2. call' \in CallType
      BY DEF RjJoin, CallInv, TypeOK, CallType, Someone, Does
    <2>3. QED
      BY <2>1, <2>2 DEF RjJoin, CallInv, TypeOK, Logins, Someone, NoOp, At, Does, store, discord
  <1>2. Logins'
    <2>1. st'["job"] = st["job"]
      BY DEF RjJoin, CallInv, TypeOK, StType, Goes, Through, Both, Does
    <2>2. login' = login /\ (op' = op \/ op'.name # "switch" \/ op'.user \in Accounts)
      BY DEF RjJoin, Does, NoOp
    <2> QED BY <2>1, <2>2, JobStays
  <1>3. UNCHANGED <<conn, g_active, dcall>>
    BY DEF RjJoin, Does, discord
  <1> QED BY <1>1, <1>2, <1>3, RestKeeps DEF CallInv

LEMMA EndCallKeeps ==
    ASSUME CallInv, EndCall
    PROVE  CallInv'
  <1>1. TypeOK'
    <2>1. st' \in StType
      BY GoesType, ThroughType, BothType, NextType DEF EndCall, CallInv, TypeOK, Pcs, Does
    <2>2. call' \in CallType
      BY DEF EndCall, CallInv, TypeOK, CallType, Someone, Does
    <2>3. QED
      BY <2>1, <2>2 DEF EndCall, CallInv, TypeOK, Logins, Someone, NoOp, At, Does, store, discord
  <1>2. Logins'
    <2>1. st'["job"] = st["job"]
      BY DEF EndCall, CallInv, TypeOK, StType, Goes, Through, Both, Does
    <2>2. login' = login /\ (op' = op \/ op'.name # "switch" \/ op'.user \in Accounts)
      BY DEF EndCall, Does, NoOp
    <2> QED BY <2>1, <2>2, JobStays
  <1>3. UNCHANGED <<conn, g_active, dcall>>
    BY DEF EndCall, Does, discord
  <1> QED BY <1>1, <1>2, <1>3, RestKeeps DEF CallInv

LEMMA UiDrainedKeeps ==
    ASSUME CallInv, UiDrained
    PROVE  CallInv'
  <1>1. TypeOK'
    <2>1. st' \in StType
      <3>1. st["ui"].next \in Pcs
        BY NextType DEF CallInv, TypeOK
      <3> QED BY <3>1, GoesType DEF UiDrained, CallInv, TypeOK, Pcs
    <2>2. call' \in CallType
      BY DEF UiDrained, CallInv, TypeOK, CallType, Someone, Does
    <2>3. QED
      BY <2>1, <2>2 DEF UiDrained, CallInv, TypeOK, Logins, Someone, NoOp, At, Does, store, discord
  <1>2. Logins'
    <2>1. st'["job"] = st["job"]
      BY DEF UiDrained, CallInv, TypeOK, StType, Goes, Through, Both, Does
    <2>2. login' = login /\ (op' = op \/ op'.name # "switch" \/ op'.user \in Accounts)
      BY DEF UiDrained, Does, NoOp
    <2> QED BY <2>1, <2>2, JobStays
  <1>3. UNCHANGED <<conn, g_active, dcall>>
    BY DEF UiDrained, Does, discord
  <1> QED BY <1>1, <1>2, <1>3, RestKeeps DEF CallInv

LEMMA ResetKeeps ==
    ASSUME CallInv, Reset
    PROVE  CallInv'
  <1>1. TypeOK'
    <2>1. st' \in StType
      BY GoesType, ThroughType, BothType, NextType DEF Reset, CallInv, TypeOK, Pcs, Does
    <2>2. call' \in CallType
      BY DEF Reset, CallInv, TypeOK, CallType, Someone, Does
    <2>3. QED
      BY <2>1, <2>2 DEF Reset, CallInv, TypeOK, Logins, Someone, NoOp, At, Does, store, discord
  <1>2. Logins'
    BY DEF Reset, CallInv, TypeOK, StType, Logins, At, Goes, Both
  <1>3. UNCHANGED <<conn, g_active, dcall>>
    BY DEF Reset, Does, discord
  <1> QED BY <1>1, <1>2, <1>3, RestKeeps DEF CallInv

LEMMA TokenTakenKeeps ==
    ASSUME CallInv, TokenTaken
    PROVE  CallInv'
  <1>1. TypeOK'
    <2>1. st' \in StType
      BY GoesType, ThroughType, BothType, NextType DEF TokenTaken, CallInv, TypeOK, Pcs, Does
    <2>2. call' \in CallType
      BY DEF TokenTaken, CallInv, TypeOK, CallType, Someone, Does
    <2>3. QED
      BY <2>1, <2>2 DEF TokenTaken, CallInv, TypeOK, Logins, Someone, NoOp, At, Does, store, discord
  <1>2. Logins'
    BY DEF TokenTaken, CallInv, TypeOK, StType, Logins, At, Goes, Both
  <1>3. UNCHANGED <<conn, g_active, dcall>>
    BY DEF TokenTaken, Does, discord
  <1> QED BY <1>1, <1>2, <1>3, RestKeeps DEF CallInv

LEMMA TokenRefusedKeeps ==
    ASSUME CallInv, TokenRefused
    PROVE  CallInv'
  <1>1. TypeOK'
    <2>1. st' \in StType
      BY GoesType, ThroughType, BothType, NextType DEF TokenRefused, CallInv, TypeOK, Pcs, Does
    <2>2. call' \in CallType
      BY DEF TokenRefused, CallInv, TypeOK, CallType, Someone, Does
    <2>3. QED
      BY <2>1, <2>2 DEF TokenRefused, CallInv, TypeOK, Logins, Someone, NoOp, At, Does, store, discord
  <1>2. Logins'
    BY DEF TokenRefused, CallInv, TypeOK, StType, Logins, At, Goes, Both
  <1>3. UNCHANGED <<conn, g_active, dcall>>
    BY DEF TokenRefused, Does, discord
  <1> QED BY <1>1, <1>2, <1>3, RestKeeps DEF CallInv

LEMMA JoinKeeps ==
    ASSUME CallInv, Join
    PROVE  CallInv'
  <1>1. TypeOK'
    <2>1. st' \in StType
      BY GoesType, ThroughType, BothType, NextType DEF Join, CallInv, TypeOK, Pcs, Does
    <2>2. call' \in CallType
      BY DEF Join, CallInv, TypeOK, CallType, Someone, Does
    <2>3. QED
      BY <2>1, <2>2 DEF Join, CallInv, TypeOK, Logins, Someone, NoOp, At, Does, store, discord
  <1>2. Logins'
    <2>1. st'["job"] = st["job"]
      BY DEF Join, CallInv, TypeOK, StType, Goes, Through, Both, Does
    <2>2. login' = login /\ (op' = op \/ op'.name # "switch" \/ op'.user \in Accounts)
      BY DEF Join, Does, NoOp
    <2> QED BY <2>1, <2>2, JobStays
  <1>3. UNCHANGED <<conn, g_active, dcall>>
    BY DEF Join, Does, discord
  <1> QED BY <1>1, <1>2, <1>3, RestKeeps DEF CallInv

LEMMA JoinBlockedKeeps ==
    ASSUME CallInv, JoinBlocked
    PROVE  CallInv'
  <1>1. TypeOK'
    <2>1. st' \in StType
      BY GoesType, ThroughType, BothType, NextType DEF JoinBlocked, CallInv, TypeOK, Pcs, Does
    <2>2. call' \in CallType
      BY DEF JoinBlocked, CallInv, TypeOK, CallType, Someone, Does
    <2>3. QED
      BY <2>1, <2>2 DEF JoinBlocked, CallInv, TypeOK, Logins, Someone, NoOp, At, Does, store, discord
  <1>2. Logins'
    <2>1. st'["job"] = st["job"]
      BY DEF JoinBlocked, CallInv, TypeOK, StType, Goes, Through, Both, Does
    <2>2. login' = login /\ (op' = op \/ op'.name # "switch" \/ op'.user \in Accounts)
      BY DEF JoinBlocked, Does, NoOp
    <2> QED BY <2>1, <2>2, JobStays
  <1>3. UNCHANGED <<conn, g_active, dcall>>
    BY DEF JoinBlocked, Does, discord
  <1> QED BY <1>1, <1>2, <1>3, RestKeeps DEF CallInv

LEMMA LeaveKeeps ==
    ASSUME CallInv, Leave
    PROVE  CallInv'
  <1>1. TypeOK'
    <2>1. st' \in StType
      BY GoesType, ThroughType, BothType, NextType DEF Leave, CallInv, TypeOK, Pcs, Does
    <2>2. call' \in CallType
      BY DEF Leave, CallInv, TypeOK, CallType, Someone, Does
    <2>3. QED
      BY <2>1, <2>2 DEF Leave, CallInv, TypeOK, Logins, Someone, NoOp, At, Does, store, discord
  <1>2. Logins'
    <2>1. st'["job"] = st["job"]
      BY DEF Leave, CallInv, TypeOK, StType, Goes, Through, Both, Does
    <2>2. login' = login /\ (op' = op \/ op'.name # "switch" \/ op'.user \in Accounts)
      BY DEF Leave, Does, NoOp
    <2> QED BY <2>1, <2>2, JobStays
  <1>3. UNCHANGED <<conn, g_active, dcall>>
    BY DEF Leave, Does, discord
  <1> QED BY <1>1, <1>2, <1>3, RestKeeps DEF CallInv

LEMMA LogoutKeeps ==
    ASSUME CallInv, Logout
    PROVE  CallInv'
  <1>1. TypeOK'
    <2>1. st' \in StType
      BY GoesType, ThroughType, BothType, NextType DEF Logout, CallInv, TypeOK, Pcs, Does
    <2>2. call' \in CallType
      BY DEF Logout, CallInv, TypeOK, CallType, Someone, Does
    <2>3. QED
      BY <2>1, <2>2 DEF Logout, CallInv, TypeOK, Logins, Someone, NoOp, At, Does, store, discord
  <1>2. Logins'
    <2>1. st'["job"] = st["job"]
      BY DEF Logout, CallInv, TypeOK, StType, Goes, Through, Both, Does
    <2>2. login' = login /\ (op' = op \/ op'.name # "switch" \/ op'.user \in Accounts)
      BY DEF Logout, Does, NoOp
    <2> QED BY <2>1, <2>2, JobStays
  <1>3. UNCHANGED <<conn, g_active, dcall>>
    BY DEF Logout, Does, discord
  <1> QED BY <1>1, <1>2, <1>3, RestKeeps DEF CallInv

LEMMA StopBeginKeeps ==
    ASSUME CallInv, NEW t \in Slots \union {"ui", "rj"}, StopBegin(t)
    PROVE  CallInv'
  <1>1. TypeOK'
    <2>1. st' \in StType
      <3>1. st[t].next \in Pcs /\ "wait" \in Pcs
        BY NextType DEF CallInv, TypeOK, Pcs
      <3>2. Goes(t, "wait") \/ Goes(t, st[t].next)
        BY DEF LifeGuard, StopBegin
      <3> QED BY <3>1, <3>2, GoesType DEF CallInv, TypeOK
    <2>2. call' \in CallType
      BY ZenonT(40) DEF LifeGuard, StopBegin, CallInv, TypeOK, CallType, Someone, Does
    <2>3. QED
      BY <2>1, <2>2 DEF LifeGuard, StopBegin, MovesOn, CallInv, TypeOK, Logins, Someone, NoOp, At, Does, store, discord
  <1>2. Logins'
    <2>1. st'["job"] = st["job"]
      BY DEF LifeGuard, StopBegin, CallInv, TypeOK, StType, Goes, Through, Both, Does
    <2>2. login' = login /\ (op' = op \/ op'.name # "switch" \/ op'.user \in Accounts)
      BY DEF LifeGuard, StopBegin, Does, NoOp
    <2> QED BY <2>1, <2>2, JobStays
  <1>3. UNCHANGED <<conn, g_active, dcall>>
    BY DEF LifeGuard, StopBegin, Does, discord
  <1> QED BY <1>1, <1>2, <1>3, RestKeeps DEF CallInv

LEMMA StopEndKeeps ==
    ASSUME CallInv, NEW t \in Slots \union {"ui", "rj"}, StopEnd(t)
    PROVE  CallInv'
  <1>1. TypeOK'
    <2>1. st' \in StType
      <3>1. st[t].next \in Pcs
        BY NextType DEF CallInv, TypeOK
      <3> QED BY <3>1, GoesType DEF StopEnd, CallInv, TypeOK, Pcs
    <2>2. call' \in CallType
      BY DEF StopEnd, CallInv, TypeOK, CallType, Someone, Does
    <2>3. QED
      BY <2>1, <2>2 DEF StopEnd, CallInv, TypeOK, Logins, Someone, NoOp, At, Does, store, discord
  <1>2. Logins'
    <2>1. st'["job"] = st["job"]
      BY DEF StopEnd, CallInv, TypeOK, StType, Goes, Through, Both, Does
    <2>2. login' = login /\ (op' = op \/ op'.name # "switch" \/ op'.user \in Accounts)
      BY DEF StopEnd, Does, NoOp
    <2> QED BY <2>1, <2>2, JobStays
  <1>3. UNCHANGED <<conn, g_active, dcall>>
    BY DEF StopEnd, Does, discord
  <1> QED BY <1>1, <1>2, <1>3, RestKeeps DEF CallInv

LEMMA SwitchKeeps ==
    ASSUME CallInv, NEW u \in Accounts, Switch(u)
    PROVE  CallInv'
  <1>1. TypeOK'
    <2>1. st' \in StType
      BY GoesType, ThroughType, BothType, NextType DEF Switch, CallInv, TypeOK, Pcs, Does
    <2>2. call' \in CallType
      BY DEF Switch, CallInv, TypeOK, CallType, Someone, Does
    <2>3. QED
      BY <2>1, <2>2 DEF Switch, CallInv, TypeOK, Logins, Someone, NoOp, At, Does, store, discord
  <1>2. Logins'
    <2>1. st'["job"] = st["job"]
      BY DEF Switch, CallInv, TypeOK, StType, Goes, Through, Both, Does
    <2>2. login' = login /\ (op' = op \/ op'.name # "switch" \/ op'.user \in Accounts)
      BY DEF Switch, Does, NoOp
    <2> QED BY <2>1, <2>2, JobStays
  <1>3. UNCHANGED <<conn, g_active, dcall>>
    BY DEF Switch, Does, discord
  <1> QED BY <1>1, <1>2, <1>3, RestKeeps DEF CallInv

LEMMA SignInKeeps ==
    ASSUME CallInv, NEW u \in Accounts, SignIn(u)
    PROVE  CallInv'
  <1>1. TypeOK'
    <2>1. st' \in StType
      BY GoesType, ThroughType, BothType, NextType DEF SignIn, CallInv, TypeOK, Pcs, Does
    <2>2. call' \in CallType
      BY DEF SignIn, CallInv, TypeOK, CallType, Someone, Does
    <2>3. QED
      BY <2>1, <2>2 DEF SignIn, CallInv, TypeOK, Logins, Someone, NoOp, At, Does, store, discord
  <1>2. Logins'
    BY DEF SignIn, CallInv, TypeOK, StType, Logins, At, Goes, Both
  <1>3. UNCHANGED <<conn, g_active, dcall>>
    BY DEF SignIn, Does, discord
  <1> QED BY <1>1, <1>2, <1>3, RestKeeps DEF CallInv

--------------------------------------------------------------------------------
(* Steps that speak to Discord                                               *)

LEMMA ReceiveKeeps ==
    ASSUME CallInv, NEW s \in Slots, Receive(s)
    PROVE  CallInv'
  <1> DEFINE m == Head(inbox[s])
  <1>1. /\ inbox \in [Slots -> Seq(Message)] /\ inbox[s] # <<>> /\ st \in StType
        /\ call \in CallType
    BY DEF CallInv, TypeOK, Receive
  <1>2. m \in Message /\ Tail(inbox[s]) \in Seq(Message)
    BY <1>1
  <1>3. inbox' \in [Slots -> Seq(Message)]
    BY <1>1, <1>2 DEF Receive
  <1>4. \/ UNCHANGED <<st, call>>
        \/ UNCHANGED call /\ (\E pc \in Pcs : Goes(s, pc))
        \/ VoiceState(s, m) \/ VoiceServer(s)
    BY DEF Receive, Pcs
  <1>5. st' \in StType /\ st'["job"] = st["job"] /\ call' \in CallType
    <2>1. CASE UNCHANGED <<st, call>>
      BY <1>1, <2>1
    <2>2. CASE UNCHANGED call /\ (\E pc \in Pcs : Goes(s, pc))
      BY <1>1, <2>2, GoesType
    <2>3. CASE VoiceState(s, m)
      <3>1. \/ Goes(s, "recv") \/ Goes(s, "start")
            \/ Through(s, "stop", "cleared", s)
        BY <2>3 DEF VoiceState
      <3>2. st' \in StType /\ st'["job"] = st["job"]
        <4>1. ASSUME NEW pc \in Pcs, Goes(s, pc)
              PROVE  st' \in StType /\ st'["job"] = st["job"]
          <5>1. st' \in StType /\ \A x \in Threads \ {s} : st'[x] = st[x]
            BY <1>1, <4>1, GoesType
          <5> QED BY <5>1
        <4>2. ASSUME Through(s, "stop", "cleared", s)
              PROVE  st' \in StType /\ st'["job"] = st["job"]
          BY <1>1, <4>2 DEF StType, Through, Pcs
        <4>3. "recv" \in Pcs /\ "start" \in Pcs
          BY DEF Pcs
        <4> QED BY <3>1, <4>1, <4>2, <4>3
      <3>3. m.sess \in Nat
        BY <1>2 DEF Message
      <3>4. call' \in CallType
        <4> HIDE DEF m
        <4> QED BY ZenonT(40), <1>1, <2>3, <3>3 DEF VoiceState, CallType
      <3> QED BY <3>2, <3>4
    <2>4. CASE VoiceServer(s)
      <3>1. Goes(s, "recv") \/ Goes(s, "start")
        BY <2>4 DEF VoiceServer
      <3>2. st' \in StType /\ st'["job"] = st["job"]
        BY <1>1, <3>1, GoesType DEF Pcs
      <3>3. call' \in CallType
        BY <1>1, <2>4 DEF VoiceServer, CallType
      <3> QED BY <3>2, <3>3
    <2> QED BY <1>4, <2>1, <2>2, <2>3, <2>4
  <1>6. UNCHANGED <<conn, g_active, store, login, life, op, moved, dcall, given>>
    BY DEF Receive
  <1>7. TypeOK'
    BY <1>3, <1>5, <1>6 DEF CallInv, TypeOK, store
  <1>8. Logins'
    BY <1>5, <1>6, JobStays
  <1> QED BY <1>6, <1>7, <1>8, RestKeeps DEF CallInv

\* A step that sends op 4 on voice_conn(): what is left to show of it
LEMMA Op4Step ==
    ASSUME CallInv, NEW c \in {0, 1}, Op4(VoiceConn, c) \/ UNCHANGED discord,
           UNCHANGED <<conn, g_active, self, data, login, life, op, moved>>,
           st' \in StType, st'["job"] = st["job"], call' \in CallType
    PROVE  CallInv'
  <1>1. /\ inbox' \in [Slots -> Seq(Message)]
        /\ dcall' \in [Accounts -> [by : Nat, n : Nat]] /\ given' \in Nat
        /\ HeldIsTheCalls'
    <2>1. CASE Op4(VoiceConn, c)
      BY <2>1, Op4Keeps
    <2>2. CASE UNCHANGED discord
      BY <2>2, RestKeeps DEF discord, CallInv, TypeOK
    <2> QED BY <2>1, <2>2
  <1>2. TypeOK'
    BY <1>1 DEF CallInv, TypeOK
  <1>3. Logins'
    BY JobStays
  <1> QED BY <1>1, <1>2, <1>3 DEF CallInv, Sessions

LEMMA DeadType ==
    ASSUME NEW c \in CallType, NEW n \in Nat,
           NEW d, d = [c EXCEPT !.ready = FALSE, !.sess = n]
    PROVE  d \in CallType
  BY DEF CallType

LEMMA WsDiesKeeps ==
    ASSUME CallInv, NEW code, WsDies(code)
    PROVE  CallInv'
  <1>1. st \in StType /\ call \in CallType
    BY DEF CallInv, TypeOK
  <1>2. st' \in StType /\ st'["job"] = st["job"]
    BY <1>1 DEF WsDies, StType, Goes, Through, Pcs
  <1>3. call' \in CallType
    <2>1. call' = [call EXCEPT !.ready = FALSE, !.sess = IF code = 4006 THEN 0 ELSE @]
      BY DEF WsDies
    <2>2. call.sess \in Nat
      BY <1>1 DEF CallType
    <2>3. CASE code = 4006
      <3>1. call' = [call EXCEPT !.ready = FALSE, !.sess = 0]
        BY <2>1, <2>3
      <3> QED BY <1>1, <3>1, DeadType
    <2>4. CASE code # 4006
      <3>1. call' = [call EXCEPT !.ready = FALSE, !.sess = call.sess]
        BY <2>1, <2>4
      <3> QED BY <1>1, <2>2, <3>1, DeadType
    <2> QED BY <2>3, <2>4
  <1>4. Op4(VoiceConn, 0) \/ UNCHANGED discord
    BY DEF WsDies
  <1>5. UNCHANGED <<conn, g_active, self, data, login, life, op, moved>>
    BY DEF WsDies, store
  <1> QED BY <1>2, <1>3, <1>4, <1>5, Op4Step

LEMMA RjAskKeeps ==
    ASSUME CallInv, RjAsk
    PROVE  CallInv'
  <1>1. st \in StType /\ call \in CallType
    BY DEF CallInv, TypeOK
  <1>2. st' \in StType /\ st'["job"] = st["job"]
    BY <1>1 DEF RjAsk, StType, Goes, Through, Pcs
  <1>3. call' \in CallType
    BY <1>1 DEF RjAsk, CallType
  <1>4. Op4(VoiceConn, 1) \/ UNCHANGED discord
    BY DEF RjAsk
  <1>5. UNCHANGED <<conn, g_active, self, data, login, life, op, moved>>
    BY DEF RjAsk, store
  <1> QED BY <1>2, <1>3, <1>4, <1>5, Op4Step

LEMMA RjOutKeeps ==
    ASSUME CallInv, RjOut
    PROVE  CallInv'
  <1>1. st \in StType /\ call \in CallType
    BY DEF CallInv, TypeOK
  <1>2. st' \in StType /\ st'["job"] = st["job"]
    BY <1>1 DEF RjOut, StType, Goes, Through, Pcs
  <1>3. call' \in CallType
    BY <1>1 DEF RjOut, CallType
  <1>4. Op4(VoiceConn, 0) \/ UNCHANGED discord
    BY DEF RjOut
  <1>5. UNCHANGED <<conn, g_active, self, data, login, life, op, moved>>
    BY DEF RjOut, store
  <1> QED BY <1>2, <1>3, <1>4, <1>5, Op4Step

LEMMA JoinAskKeeps ==
    ASSUME CallInv, NEW t \in {"ui", "rj"}, JoinAsk(t)
    PROVE  CallInv'
  <1>1. st \in StType /\ call \in CallType
    BY DEF CallInv, TypeOK
  <1>2. st' \in StType /\ st'["job"] = st["job"]
    BY <1>1, GoesType, ThroughType DEF JoinAsk, Pcs
  <1>3. call' \in CallType
    BY <1>1 DEF JoinAsk, CallType
  <1>4. Op4(VoiceConn, 1) \/ UNCHANGED discord
    BY DEF JoinAsk
  <1>5. UNCHANGED <<conn, g_active, self, data, login, life, op, moved>>
    BY DEF JoinAsk, store
  <1> QED BY <1>2, <1>3, <1>4, <1>5, Op4Step

LEMMA LeftKeeps ==
    ASSUME CallInv, Left
    PROVE  CallInv'
  <1>1. st \in StType /\ call \in CallType
    BY DEF CallInv, TypeOK
  <1>2. st' \in StType /\ st'["job"] = st["job"]
    BY <1>1 DEF Left, StType, Goes, Through, Pcs
  <1>3. call' \in CallType
    BY <1>1 DEF Left, CallType
  <1>4. Op4(VoiceConn, 0) \/ UNCHANGED discord
    BY DEF Left
  <1>5. UNCHANGED <<conn, g_active, self, data, login, life, op, moved>>
    BY DEF Left, store
  <1> QED BY <1>2, <1>3, <1>4, <1>5, Op4Step

--------------------------------------------------------------------------------
(* Steps that close, step aside or start a connection                        *)

\* What is left to show of a step that closes a connection, or none
LEMMA CloseStep ==
    ASSUME CallInv, NEW s \in Slots,
           (conn[s].running /\ Close(s)) \/ UNCHANGED <<conn, discord>>,
           UNCHANGED <<g_active, self, data, login, call, life, op, moved>>,
           st' \in StType, st'["job"] = st["job"]
    PROVE  CallInv'
  <1>1. /\ conn' \in [Slots -> ConnType] /\ Sessions'
        /\ inbox' \in [Slots -> Seq(Message)]
        /\ dcall' \in [Accounts -> [by : Nat, n : Nat]] /\ given' \in Nat
        /\ HeldIsTheCalls'
    <2>1. CASE conn[s].running /\ Close(s)
      BY <2>1, CloseKeeps
    <2>2. CASE UNCHANGED <<conn, discord>>
      BY <2>2, RestKeeps DEF discord, CallInv, TypeOK
    <2> QED BY <2>1, <2>2
  <1>2. TypeOK'
    BY <1>1 DEF CallInv, TypeOK
  <1>3. Logins'
    BY JobStays
  <1> QED BY <1>1, <1>2, <1>3 DEF CallInv

LEMMA SpareInSlots == CallInv => Spare \in Slots /\ g_active \in Slots /\ st \in StType
  BY Others DEF CallInv, TypeOK, Spare

LEMMA WsReleaseKeeps ==
    ASSUME CallInv, WsRelease
    PROVE  CallInv'
  <1>1. Spare \in Slots /\ st \in StType
    BY SpareInSlots
  <1>2. (conn[Spare].running /\ Close(Spare)) \/ UNCHANGED <<conn, discord>>
    BY DEF WsRelease, Holding
  <1>3. st' \in StType /\ st'["job"] = st["job"]
    BY <1>1 DEF WsRelease, StType, Goes, Through, Pcs
  <1>4. UNCHANGED <<g_active, self, data, login, call, life, op, moved>>
    BY DEF WsRelease, store
  <1> QED BY <1>1, <1>2, <1>3, <1>4, CloseStep

LEMMA UiReleaseKeeps ==
    ASSUME CallInv, UiRelease
    PROVE  CallInv'
  <1>1. Spare \in Slots /\ st \in StType
    BY SpareInSlots
  <1>2. (conn[Spare].running /\ Close(Spare)) \/ UNCHANGED <<conn, discord>>
    BY DEF UiRelease, Holding
  <1>3. \E pc \in Pcs : Goes("ui", pc) \/ Through("ui", "drain", pc, Spare)
    BY DEF UiRelease, Pcs
  <1>4. st' \in StType /\ st'["job"] = st["job"]
    BY <1>1, <1>3 DEF StType, Goes, Through, Pcs
  <1>5. UNCHANGED <<g_active, self, data, login, call, life, op, moved>>
    BY DEF UiRelease, store
  <1> QED BY <1>1, <1>2, <1>4, <1>5, CloseStep

\* The connection that steps aside becomes the one voice_conn() gives
LEMMA AsideKeeps ==
    ASSUME CallInv, Aside
    PROVE  CallInv' /\ (op.up => UNCHANGED dcall)
  <1>1. Spare \in Slots /\ g_active \in Slots /\ st \in StType
    BY SpareInSlots
  <1>2. \E pc \in Pcs : Goes("ui", pc) \/ Through("ui", "drain", pc, g_active)
    BY DEF Aside, StepsAside, Pcs
  <1>3. st' \in StType /\ st'["job"] = st["job"]
    BY <1>1, <1>2 DEF StType, Goes, Through, Pcs
  <1>4. UNCHANGED <<self, data, login, call, life, op, moved>>
    BY DEF Aside, StepsAside, store
  <1>5. \/ UNCHANGED <<conn, g_active, discord>>
        \/ /\ conn[g_active].running /\ ~Holding
           /\ conn' = [conn EXCEPT ![g_active].dispatching = FALSE]
           /\ g_active' = Spare /\ UNCHANGED discord
        \/ /\ conn[g_active].running /\ ~(op.up /\ ~Holding)
           /\ Close(g_active) /\ UNCHANGED g_active
    BY DEF Aside, StepsAside
  <1>6. CASE UNCHANGED <<conn, g_active, discord>>
    BY <1>1, <1>3, <1>4, <1>6, CloseStep DEF discord
  <1>7. CASE /\ conn[g_active].running /\ ~Holding
             /\ conn' = [conn EXCEPT ![g_active].dispatching = FALSE]
             /\ g_active' = Spare /\ UNCHANGED discord
    <2>1. conn \in [Slots -> ConnType]
      BY DEF CallInv, TypeOK
    <2>2. /\ conn' \in [Slots -> ConnType]
          /\ \A t \in Slots : /\ conn'[t].running = conn[t].running
                              /\ conn'[t].user = conn[t].user
                              /\ conn'[t].sess = conn[t].sess
      BY <1>1, <1>7, <2>1 DEF ConnType
    <2>3. VoiceConn = g_active /\ VoiceConn' = g_active
      BY <1>1, <1>7, <2>2, Others DEF VoiceConn, Spare, Holding
    <2>4. Sessions' /\ HeldIsTheCalls'
      BY <1>1, <1>7, <2>2, <2>3 DEF CallInv, Sessions, HeldIsTheCalls, discord
    <2>5. TypeOK'
      BY <1>1, <1>3, <1>4, <1>7, <2>2 DEF CallInv, TypeOK, discord
    <2>6. Logins'
      BY <1>3, <1>4, JobStays
    <2> QED BY <1>7, <2>4, <2>5, <2>6 DEF CallInv, discord
  <1>8. CASE /\ conn[g_active].running /\ ~(op.up /\ ~Holding)
             /\ Close(g_active) /\ UNCHANGED g_active
    <2>1. CallInv'
      BY <1>1, <1>3, <1>4, <1>8, CloseStep
    <2>2. ASSUME op.up PROVE g_active # VoiceConn
      BY <1>1, <1>8, <2>2, Others DEF VoiceConn, Spare, Holding
    <2> QED BY <1>1, <1>8, <2>1, <2>2, CloseKeeps
  <1> QED BY <1>5, <1>6, <1>7, <1>8

LEMMA JobStartKeeps ==
    ASSUME CallInv, JobStart
    PROVE  CallInv'
  <1>1. login \in Accounts /\ Start(login)
    BY DEF JobStart, CallInv, Logins
  <1>2. UNCHANGED <<g_active, self, data, call, life, op, moved, dcall, given>> /\ login' = NoOne
    BY DEF JobStart, store
  <1>3. /\ conn' \in [Slots -> ConnType] /\ Sessions'
        /\ inbox' \in [Slots -> Seq(Message)] /\ st' \in StType /\ HeldIsTheCalls'
    BY <1>1, <1>2, StartKeeps
  <1>4. TypeOK'
    BY <1>2, <1>3 DEF CallInv, TypeOK, Someone
  <1>5. ~At("job", "check")' /\ ~At("job", "start")'
    <2>1. st \in StType /\ g_active \in Slots
      BY DEF CallInv, TypeOK
    <2>2. Goes("job", "none") \/ Both(g_active, "recv", "job", "none")
      BY <1>1 DEF Start
    <2> QED BY <2>1, <2>2 DEF StType, Goes, Both, At
  <1>6. Logins'
    BY <1>2, <1>5 DEF CallInv, Logins
  <1> QED BY <1>3, <1>4, <1>6 DEF CallInv

LEMMA KickKeeps ==
    ASSUME CallInv, NEW u \in Accounts, Kick(u)
    PROVE  CallInv'
  <1>1. UNCHANGED <<conn, g_active, self, data, login, call, life, st, op, moved, given>>
    BY DEF Kick, store
  <1>2. dcall' = [dcall EXCEPT ![u] = NoCall] /\ inbox' \in {inbox, Tell(inbox, u, 0, 0, conn)}
    BY DEF Kick
  <1>3. inbox' \in [Slots -> Seq(Message)]
    <2>1. inbox \in [Slots -> Seq(Message)] /\ conn \in [Slots -> ConnType]
      BY DEF CallInv, TypeOK
    <2>2. Tell(inbox, u, 0, 0, conn) \in [Slots -> Seq(Message)]
      BY <2>1, TellType
    <2> QED BY <1>2, <2>1, <2>2
  <1>4. TypeOK'
    BY <1>1, <1>2, <1>3 DEF CallInv, TypeOK, NoCall
  <1>5. VoiceConn' = VoiceConn
    BY <1>1 DEF VoiceConn, Spare, Holding
  <1>6. HeldIsTheCalls'
    BY <1>1, <1>2, <1>5 DEF CallInv, TypeOK, HeldIsTheCalls, NoCall
  <1> QED BY <1>1, <1>4, <1>6 DEF CallInv, Sessions, Logins, At

--------------------------------------------------------------------------------
(* The invariant of every step, and what follows                             *)

LEMMA CallInvStep == CallInv /\ [Next]_vars => CallInv'
  <1> SUFFICES ASSUME CallInv, [Next]_vars PROVE CallInv'
    OBVIOUS
  <1>1. CASE PersonActs
    BY <1>1, JoinKeeps, JoinBlockedKeeps, LeaveKeeps, LogoutKeeps, SwitchKeeps, SignInKeeps
    DEF PersonActs
  <1>2. CASE UiStep
    BY <1>2, AsideKeeps, EndCallKeeps, UiDrainedKeeps, UiReleaseKeeps, LeftKeeps, ResetKeeps
    DEF UiStep
  <1>3. CASE Stops
    BY <1>3, StopBeginKeeps, StopEndKeeps DEF Stops
  <1>4. CASE Asks
    BY <1>4, JoinAskKeeps DEF Asks
  <1>5. CASE Jobs
    BY <1>5, TokenTakenKeeps, TokenRefusedKeeps, JobStartKeeps DEF Jobs
  <1>6. ASSUME NEW s \in Slots, GatewayStep(s) PROVE CallInv'
    BY <1>6, ReceiveKeeps, FoldKeeps, ClearedKeeps, GatewayEndKeeps, StartVoiceKeeps
    DEF GatewayStep
  <1>7. CASE WsStep \/ WsRefused
    BY <1>7, WsUpKeeps, WsDiesKeeps, WsStoppedKeeps, WsReleaseKeeps, WsDrainedKeeps, WsEndKeeps,
       WsRefusedKeeps DEF WsStep
  <1>8. CASE RjStep
    BY <1>8, RjAskKeeps, RjPairKeeps, RjHeavyKeeps, RjDoneKeeps, RjOutKeeps, RjJoinKeeps
    DEF RjStep
  <1>9. ASSUME NEW u \in Accounts, Kick(u) PROVE CallInv'
    BY <1>9, KickKeeps
  <1>10. CASE UNCHANGED vars
    <2>1. UNCHANGED <<conn, g_active, inbox, self, data, login, call, life, st, op, moved,
                      dcall, given>>
      BY <1>10 DEF vars, store, discord
    <2>2. VoiceConn' = VoiceConn
      BY <2>1 DEF VoiceConn, Spare, Holding
    <2> QED
      BY <2>1, <2>2 DEF CallInv, TypeOK, Logins, Sessions, HeldIsTheCalls, At
  <1> QED
    BY <1>1, <1>2, <1>3, <1>4, <1>5, <1>6, <1>7, <1>8, <1>9, <1>10 DEF Next

LEMMA CallInvHolds == Spec => []CallInv
  BY InitCallInv, CallInvStep, PTL DEF Spec

\* The state keeps its types (discord/gateway.cpp, discord/voice.cpp, ui/ui.cpp).
THEOREM TypeCorrect == Spec => []TypeOK
  <1>1. CallInv => TypeOK
    BY DEF CallInv
  <1> QED BY <1>1, CallInvHolds, PTL

\* gateway::voice_conn() is always the connection whose session has the call: the
\* question, the leave and the answers of a call never go to another account's.
THEOREM VoiceConnHasTheCall == Spec => []HeldIsTheCalls
  <1>1. CallInv => HeldIsTheCalls
    BY DEF CallInv
  <1> QED BY <1>1, CallInvHolds, PTL

\* tear_down_session with a call up leaves every call where it is, whatever was
\* switched from, to and back before.
THEOREM SwitchLeavesCalls == Spec => SwitchSparesCall
  <1>1. CallInv /\ [Next]_vars =>
            [At("ui", "aside") /\ op.up /\ Aside => UNCHANGED dcall]_vars
    BY AsideKeeps
  <1> QED BY <1>1, CallInvHolds, PTL DEF Spec, SwitchSparesCall

--------------------------------------------------------------------------------
(* One thread at a time takes a call apart, and nobody starts one meanwhile. *)
(* A sign-in that is over before the old thread of its slot is would put a   *)
(* new thread in the place of one that waits; so Hasty is FALSE here.        *)

\* Who holds g_life_lock is at its wait, with the call stopped; who is at that
\* wait holds it; and nobody gets there from another wait
LockInv ==
    /\ life # "free" => life \in Threads /\ At(life, "wait") /\ ~call.running
    /\ \A t \in Threads : At(t, "wait") => life = t
    /\ \A t \in Threads : st[t].next # "wait"
    /\ ~At("job", "wait")

\* A step of threads that are not at that wait, and do not go there
Aloof ==
    /\ life' = life /\ (call'.running => call.running)
    /\ \A x \in Threads :
        \/ st'[x] = st[x]
        \/ st[x].pc # "wait" /\ st'[x].pc # "wait" /\ st'[x].next # "wait"

LEMMA AloofKeeps == LockInv /\ Aloof => LockInv'
  BY DEF LockInv, Aloof, At

LEMMA LockTypes ==
    CallInv => /\ st \in StType /\ call \in CallType
               /\ g_active \in Slots /\ Spare \in Slots
  BY SpareInSlots DEF CallInv, TypeOK

\* The interface and the sign-in job
LEMMA PersonAloof ==
    ASSUME CallInv, LockInv, ~Hasty,
           Join \/ JoinBlocked \/ Leave \/ Logout \/ (\E u \in Accounts :
               Switch(u)) \/ (\E u \in Accounts : SignIn(u)) \/ Aside \/ EndCall \/
               UiDrained \/ UiRelease \/ Left \/ Reset \/ TokenTaken \/ TokenRefused
               \/ JobStart \/ (\E t \in {"ui", "rj"} : JoinAsk(t))
    PROVE  Aloof
  <1>1. st \in StType /\ call \in CallType /\ g_active \in Slots
    BY LockTypes
  <1>2. CASE Join
    BY <1>1, <1>2 DEF Join, Does, Goes, Through, Both, At, Aloof, LockInv, StType, CallType
  <1>3. CASE JoinBlocked
    BY <1>1, <1>3 DEF JoinBlocked, Does, Goes, Through, Both, At, Aloof, LockInv, StType, CallType
  <1>4. CASE Leave
    BY <1>1, <1>4 DEF Leave, Does, Goes, Through, Both, At, Aloof, LockInv, StType, CallType
  <1>5. CASE Logout
    BY <1>1, <1>5 DEF Logout, Does, Goes, Through, Both, At, Aloof, LockInv, StType, CallType
  <1>6. ASSUME NEW u \in Accounts, Switch(u) PROVE Aloof
    BY <1>1, <1>6 DEF Switch, Does, Goes, Through, Both, At, Aloof, LockInv, StType, CallType
  <1>7. ASSUME NEW u \in Accounts, SignIn(u) PROVE Aloof
    BY <1>1, <1>7 DEF SignIn, Goes, Through, Both, At, Aloof, LockInv, StType, CallType
  <1>8. CASE Aside
    BY <1>1, <1>8 DEF Aside, Goes, Through, Both, At, Aloof, LockInv, StType, CallType
  <1>9. CASE EndCall
    BY <1>1, <1>9 DEF EndCall, Goes, Through, Both, At, Aloof, LockInv, StType, CallType
  <1>10. CASE UiDrained
    BY <1>1, <1>10 DEF UiDrained, Goes, Through, Both, At, Aloof, LockInv, StType, CallType
  <1>11. CASE UiRelease
    BY <1>1, <1>11 DEF UiRelease, Goes, Through, Both, At, Aloof, LockInv, StType, CallType
  <1>12. CASE Left
    BY <1>1, <1>12 DEF Left, Goes, Through, Both, At, Aloof, LockInv, StType, CallType
  <1>13. CASE Reset
    BY <1>1, <1>13 DEF Reset, Goes, Through, Both, At, Aloof, LockInv, StType, CallType
  <1>14. CASE TokenTaken
    BY <1>1, <1>14 DEF TokenTaken, Goes, Through, Both, At, Aloof, LockInv, StType, CallType
  <1>15. CASE TokenRefused
    BY <1>1, <1>15 DEF TokenRefused, Goes, Through, Both, At, Aloof, LockInv, StType, CallType
  <1>16. CASE JobStart
    BY <1>1, <1>16 DEF JobStart, Start, Vacant, Gone, Goes, Through, Both, At, Aloof, LockInv, StType, CallType
  <1>17. ASSUME NEW t \in {"ui", "rj"}, JoinAsk(t) PROVE Aloof
    BY <1>1, <1>17 DEF JoinAsk, Goes, Through, Both, At, Aloof, LockInv, StType, CallType
  <1> QED BY <1>2, <1>3, <1>4, <1>5, <1>6, <1>7, <1>8, <1>9, <1>10, <1>11, <1>12, <1>13, <1>14, <1>15, <1>16, <1>17

\* The websocket's thread and the rejoin thread
LEMMA CallAloof ==
    ASSUME CallInv, LockInv, ~Hasty,
           WsUp \/ WsRefused \/ (\E c \in {4014, 4006} : WsDies(c)) \/ WsStopped
               \/ WsRelease \/ WsDrained \/ WsEnd \/ RjAsk \/ RjHeavy \/ RjDone \/
               RjOut \/ RjJoin
    PROVE  Aloof
  <1>1. st \in StType /\ call \in CallType /\ g_active \in Slots
    BY LockTypes
  <1>2. CASE WsUp
    BY <1>1, <1>2 DEF WsUp, Goes, Through, Both, At, Aloof, LockInv, StType, CallType
  <1>3. CASE WsRefused
    BY <1>1, <1>3 DEF WsRefused, Goes, Through, Both, At, Aloof, LockInv, StType, CallType
  <1>4. ASSUME NEW c \in {4014, 4006}, WsDies(c) PROVE Aloof
    BY <1>1, <1>4 DEF WsDies, Goes, Through, Both, At, Aloof, LockInv, StType, CallType
  <1>5. CASE WsStopped
    BY <1>1, <1>5 DEF WsStopped, Goes, Through, Both, At, Aloof, LockInv, StType, CallType
  <1>6. CASE WsRelease
    BY <1>1, <1>6 DEF WsRelease, Goes, Through, Both, At, Aloof, LockInv, StType, CallType
  <1>7. CASE WsDrained
    BY <1>1, <1>7 DEF WsDrained, Goes, Through, Both, At, Aloof, LockInv, StType, CallType
  <1>8. CASE WsEnd
    BY <1>1, <1>8 DEF WsEnd, Gone, Goes, Through, Both, At, Aloof, LockInv, StType, CallType
  <1>9. CASE RjAsk
    <2>1. life' = life /\ (call'.running => call.running)
      BY ZenonT(40), <1>1, <1>9 DEF RjAsk, CallType
    <2>2. At("rj", "ask") /\ (Goes("rj", "pair") \/ Goes("rj", "none"))
      BY <1>9 DEF RjAsk
    <2> QED BY <1>1, <2>1, <2>2 DEF Goes, At, Aloof, LockInv, StType
  <1>10. CASE RjHeavy
    BY <1>1, <1>10 DEF RjHeavy, Goes, Through, Both, At, Aloof, LockInv, StType, CallType
  <1>11. CASE RjDone
    BY <1>1, <1>11 DEF RjDone, Goes, Through, Both, At, Aloof, LockInv, StType, CallType
  <1>12. CASE RjOut
    BY <1>1, <1>12 DEF RjOut, Goes, Through, Both, At, Aloof, LockInv, StType, CallType
  <1>13. CASE RjJoin
    BY <1>1, <1>13 DEF RjJoin, Goes, Through, Both, At, Aloof, LockInv, StType, CallType
  <1> QED BY <1>2, <1>3, <1>4, <1>5, <1>6, <1>7, <1>8, <1>9, <1>10, <1>11, <1>12, <1>13

\* The gateway threads, but for the start of a call's connection, and Discord
LEMMA GatewayAloof ==
    ASSUME CallInv, LockInv, ~Hasty,
           (\E s \in Slots : Receive(s)) \/ (\E s \in Slots : Fold(s)) \/ (\E s
               \in Slots : Cleared(s)) \/ (\E s \in Slots : GatewayEnd(s)) \/ (\E u
               \in Accounts : Kick(u))
    PROVE  Aloof
  <1>1. st \in StType /\ call \in CallType /\ g_active \in Slots
    BY LockTypes
  <1>2. ASSUME NEW s \in Slots, Receive(s) PROVE Aloof
    <2> DEFINE m == Head(inbox[s])
    <2>1. At(s, "recv") /\ life' = life
      BY <1>2 DEF Receive
    <2>2. UNCHANGED <<st, call>> \/ (Goes(s, "fold") /\ UNCHANGED call)
          \/ VoiceState(s, m) \/ VoiceServer(s)
      BY <1>2 DEF Receive
    <2>3. /\ call'.running => call.running
          /\ \/ UNCHANGED st \/ Through(s, "stop", "cleared", s)
             \/ \E pc \in {"recv", "fold", "start"} : Goes(s, pc)
      <3> HIDE DEF m
      <3> QED BY <1>1, <2>2 DEF VoiceState, VoiceServer, CallType
    <2> QED BY <1>1, <2>1, <2>3 DEF Goes, Through, At, Aloof, LockInv, StType
  <1>3. ASSUME NEW s \in Slots, Fold(s) PROVE Aloof
    BY <1>1, <1>3 DEF Folded, Fold, Goes, Through, Both, At, Aloof, LockInv, StType, CallType
  <1>4. ASSUME NEW s \in Slots, Cleared(s) PROVE Aloof
    BY <1>1, <1>4 DEF Cleared, Goes, Through, Both, At, Aloof, LockInv, StType, CallType
  <1>5. ASSUME NEW s \in Slots, GatewayEnd(s) PROVE Aloof
    BY <1>1, <1>5 DEF GatewayEnd, Goes, Through, Both, At, Aloof, LockInv, StType, CallType
  <1>6. ASSUME NEW u \in Accounts, Kick(u) PROVE Aloof
    BY <1>1, <1>6 DEF Kick, Goes, Through, Both, At, Aloof, LockInv, StType, CallType
  <1> QED BY <1>2, <1>3, <1>4, <1>5, <1>6

\* What starts a call's connection has the lock
LEMMA StartVoiceLocks ==
    ASSUME CallInv, LockInv, NEW s \in Slots, StartVoice(s) PROVE LockInv'
  <1>1. st \in StType /\ call \in CallType
    BY LockTypes
  <1> QED
    BY <1>1 DEF LifeGuard, StartVoice, Goes, Through, Both, At, LockInv, StType, CallType

LEMMA RjPairLocks ==
    ASSUME CallInv, LockInv, RjPair PROVE LockInv'
  <1>1. st \in StType /\ call \in CallType
    BY LockTypes
  <1> QED
    BY <1>1 DEF RjPair, StillWanted, Goes, Through, Both, At, LockInv, StType, CallType

\* What stops it takes the lock, and gives it back
LEMMA StopBeginLocks ==
    ASSUME CallInv, LockInv, NEW t \in Slots \union {"ui", "rj"}, StopBegin(t) PROVE LockInv'
  <1>1. st \in StType /\ call \in CallType
    BY LockTypes
  <1>2. CASE call.running
    <2>1. call'.running = FALSE /\ life = "free" /\ life' = t /\ At(t, "stop")
      BY <1>1, <1>2 DEF LifeGuard, StopBegin, CallType
    <2>2. Goes(t, "wait") /\ t # "job" /\ t \in Threads
      BY <1>2 DEF StopBegin
    <2> QED BY <1>1, <2>1, <2>2 DEF Goes, At, LockInv, StType
  <1>3. CASE ~call.running
    BY <1>1, <1>3 DEF LifeGuard, StopBegin, Goes, At, LockInv, StType
  <1> QED BY <1>2, <1>3

LEMMA StopEndLocks ==
    ASSUME CallInv, LockInv, NEW t \in Slots \union {"ui", "rj"}, StopEnd(t) PROVE LockInv'
  <1>1. st \in StType /\ call \in CallType
    BY LockTypes
  <1> QED
    BY <1>1 DEF StopEnd, Goes, Through, Both, At, LockInv, StType, CallType

LEMMA InitLockInv == Init => LockInv
  BY DEF Init, LockInv, At

LEMMA LockInvStep == CallInv /\ LockInv /\ ~Hasty /\ [Next]_vars => LockInv'
  <1> SUFFICES ASSUME CallInv, LockInv, ~Hasty, [Next]_vars PROVE LockInv'
    OBVIOUS
  <1>1. CASE PersonActs \/ UiStep \/ Asks \/ Jobs
    BY <1>1, PersonAloof, AloofKeeps DEF PersonActs, UiStep, Asks, Jobs
  <1>2. CASE Stops
    BY <1>2, StopBeginLocks, StopEndLocks DEF Stops
  <1>3. ASSUME NEW s \in Slots, GatewayStep(s) PROVE LockInv'
    BY <1>3, GatewayAloof, AloofKeeps, StartVoiceLocks DEF GatewayStep
  <1>4. CASE WsStep \/ WsRefused \/ RjStep
    BY <1>4, CallAloof, AloofKeeps, RjPairLocks DEF WsStep, RjStep
  <1>5. ASSUME NEW u \in Accounts, Kick(u) PROVE LockInv'
    BY <1>5, GatewayAloof, AloofKeeps
  <1>6. CASE UNCHANGED vars
    BY <1>6 DEF vars, LockInv, At
  <1> QED BY <1>1, <1>2, <1>3, <1>4, <1>5, <1>6 DEF Next

\* stop_voice_connection and start_voice_connection exclude each other, over the
\* wait for the old thread included, as long as no slot gets a second thread.
THEOREM OneTakesItApart == ASSUME ~Hasty PROVE Spec => []StopsAlone
  <1>1. LockInv => StopsAlone
    BY DEF LockInv, StopsAlone
  <1>2. CallInv /\ LockInv /\ [Next]_vars => LockInv'
    BY LockInvStep
  <1> QED BY <1>1, <1>2, InitLockInv, CallInvHolds, PTL DEF Spec

--------------------------------------------------------------------------------
(* A call that is up is never taken for over: what is on its way to          *)
(* voice_conn() about it ends with the state that says that it is there.     *)

Ends(m) == m.kind = "state" /\ m.chan = 0
Says(m, n) == m.kind = "state" /\ m.chan = 1 /\ m.sess = n

\* What is on its way to voice_conn() about a call: whatever says there is none
\* comes before the one state that says it is there
AnswerOf(box, n) ==
    /\ \A i \in 1 .. Len(box) :
          Ends(box[i]) => \E j \in 1 .. Len(box) : i < j /\ Says(box[j], n)
    /\ \A i \in 1 .. Len(box) : \A j \in 1 .. Len(box) :
          Says(box[i], n) /\ Says(box[j], n) => i = j

\* No voice session is told of before Discord has given it
Numbered ==
    /\ call.sess <= given
    /\ \A u \in Accounts : dcall[u].n <= given
    /\ \A s \in Slots : \A i \in 1 .. Len(inbox[s]) : inbox[s][i].sess <= given

\* Unread in full: the state that says so is still to come, and the client does
\* not have its session yet
Unread(box, n) ==
    /\ AnswerOf(box, n)
    /\ \A i \in 1 .. Len(box) : Says(box[i], n) => call.sess # n

AnswerInv ==
    /\ Numbered
    /\ \A u \in Accounts : dcall[u].by # 0 => Unread(inbox[VoiceConn], dcall[u].n)

LEMMA InitAnswerInv == Init => AnswerInv
  <1> SUFFICES ASSUME Init PROVE AnswerInv
    OBVIOUS
  <1>1. /\ \A u \in Accounts : dcall[u].by = 0 /\ dcall[u].n = 0
        /\ call.sess = 0 /\ given = 0
    BY DEF Init, NoCall
  <1>2. \A s \in Slots : \A i \in 1 .. Len(inbox[s]) : inbox[s][i].sess = 0
    BY DEF Init, Msg
  <1> QED BY <1>1, <1>2 DEF AnswerInv, Numbered

LEMMA CallTypes ==
    CallInv => /\ inbox \in [Slots -> Seq(Message)] /\ conn \in [Slots -> ConnType]
               /\ dcall \in [Accounts -> [by : Nat, n : Nat]] /\ given \in Nat
               /\ call.sess \in Nat /\ VoiceConn \in Slots
               /\ g_active \in Slots /\ Spare \in Slots
  BY SpareInSlots DEF CallInv, TypeOK, CallType, VoiceConn

\* Nothing is ever sent that tells of a session not given yet
LEMMA TellNumbers ==
    ASSUME NEW box \in [Slots -> Seq(Message)], NEW at \in [Slots -> ConnType],
           NEW u \in Accounts, NEW c \in {0, 1}, NEW n \in Nat, NEW top \in Nat, n <= top,
           \A s \in Slots : \A i \in 1 .. Len(box[s]) : box[s][i].sess <= top
    PROVE  \A s \in Slots : \A i \in 1 .. Len(Tell(box, u, c, n, at)[s]) :
               Tell(box, u, c, n, at)[s][i].sess <= top
  <1> SUFFICES ASSUME NEW s \in Slots
               PROVE  \A i \in 1 .. Len(Tell(box, u, c, n, at)[s]) :
                          Tell(box, u, c, n, at)[s][i].sess <= top
    OBVIOUS
  <1> DEFINE m == Msg("state", u, c, n)
  <1>1. box[s] \in Seq(Message) /\ m \in Message /\ m.sess = n
    BY DEF Msg, Message
  <1>2. Tell(box, u, c, n, at)[s] = box[s] \/ Tell(box, u, c, n, at)[s] = Append(box[s], m)
    BY DEF Tell
  <1>3. \A i \in 1 .. Len(Append(box[s], m)) : Append(box[s], m)[i].sess <= top
    <2> HIDE DEF m
    <2> QED BY <1>1
  <1> QED BY <1>2, <1>3

\* With no call up there is nothing to be told of
LEMMA NobodyAnswers ==
    ASSUME Numbered', \A u \in Accounts : dcall'[u].by = 0
    PROVE  AnswerInv'
  BY DEF AnswerInv

\* A step that leaves Discord's side, voice_conn() and the session alone
LEMMA RestAnswers ==
    ASSUME AnswerInv, UNCHANGED <<inbox, dcall, given>>, VoiceConn' = VoiceConn,
           call'.sess = call.sess
    PROVE  AnswerInv'
  BY DEF AnswerInv, Numbered, Unread

\* Asked to leave, Discord has no call of anybody; and what it says of that
\* numbers nothing
LEMMA ByeAnswers ==
    ASSUME CallInv, AnswerInv, Op4(VoiceConn, 0), conn' = conn, g_active' = g_active,
           call'.sess \in {call.sess, 0}
    PROVE  AnswerInv'
  <1> DEFINE s == VoiceConn
             u == conn[s].user
             box == Tell(inbox, u, 0, 0, conn)
  <1>1. /\ s \in Slots /\ conn[s] \in ConnType /\ u \in Accounts
        /\ inbox \in [Slots -> Seq(Message)] /\ conn \in [Slots -> ConnType]
        /\ dcall \in [Accounts -> [by : Nat, n : Nat]] /\ given \in Nat /\ call.sess \in Nat
    BY CallTypes DEF ConnType
  <1>2. \A w \in Accounts : dcall[w].by # 0 =>
            conn[s].running /\ conn[s].user = w /\ conn[s].sess = dcall[w].by
    BY DEF CallInv, HeldIsTheCalls
  <1>3. CASE UNCHANGED discord
    <2>1. \A w \in Accounts : dcall[w].by = 0
      <3> SUFFICES ASSUME NEW w \in Accounts, dcall[w].by # 0 PROVE FALSE
        OBVIOUS
      <3>1. conn[s].running /\ u = w /\ dcall[u].by = conn[s].sess
        BY <1>2
      <3>2. dcall' = [dcall EXCEPT ![u] = NoCall]
        BY <1>3, <3>1 DEF Op4, discord
      <3> QED BY <1>1, <1>3, <3>1, <3>2 DEF NoCall, discord
    <2>2. call'.sess <= given
      BY <1>1 DEF AnswerInv, Numbered
    <2>3. Numbered'
      BY <1>3, <2>2 DEF AnswerInv, Numbered, discord
    <2> QED BY <1>3, <2>1, <2>3, NobodyAnswers DEF discord
  <1>4. CASE ~UNCHANGED discord
    <2>1. /\ dcall[u].by = conn[s].sess /\ given' = given + 0
          /\ dcall' = [dcall EXCEPT ![u] = NoCall] /\ inbox' = box
      BY <1>4 DEF Op4
    <2>2. \A w \in Accounts : dcall'[w].by = 0
      BY <1>1, <1>2, <2>1 DEF NoCall
    <2>3. \A t \in Slots : \A i \in 1 .. Len(box[t]) : box[t][i].sess <= given
      <3>1. 0 \in Nat /\ 0 \in {0, 1} /\ 0 <= given
        BY <1>1
      <3> HIDE DEF u
      <3> QED BY <1>1, <3>1, TellNumbers DEF AnswerInv, Numbered
    <2>4. \A w \in Accounts : dcall'[w].n <= given'
      BY <1>1, <2>1 DEF NoCall, AnswerInv, Numbered
    <2>5. Numbered'
      <3>1. given' = given /\ inbox' = box /\ call'.sess <= given
        BY <1>1, <2>1 DEF AnswerInv, Numbered
      <3> HIDE DEF box, u
      <3> QED BY <2>3, <2>4, <3>1 DEF Numbered
    <2> QED BY <2>2, <2>5, NobodyAnswers
  <1> QED BY <1>3, <1>4

\* Asked to join, Discord hands out a new session, and says so to voice_conn()
\* after everything it said before
LEMMA AskAnswers ==
    ASSUME CallInv, AnswerInv, Op4(VoiceConn, 1), conn' = conn, g_active' = g_active,
           call'.sess = call.sess
    PROVE  AnswerInv'
  <1> DEFINE s == VoiceConn
             u == conn[s].user
             n == given + 1
             box == Tell(inbox, u, 1, n, conn)
             told == Msg("state", u, 1, n)
             pair == Msg("server", u, 1, 0)
  <1>1. /\ s \in Slots /\ conn[s] \in ConnType /\ u \in Accounts
        /\ inbox \in [Slots -> Seq(Message)] /\ conn \in [Slots -> ConnType]
        /\ dcall \in [Accounts -> [by : Nat, n : Nat]] /\ given \in Nat /\ call.sess \in Nat
    BY CallTypes DEF ConnType
  <1>2. \A w \in Accounts : dcall[w].by # 0 =>
            conn[s].running /\ conn[s].user = w /\ conn[s].sess = dcall[w].by
    BY DEF CallInv, HeldIsTheCalls
  <1>3. VoiceConn' = s
    BY DEF VoiceConn, Spare, Holding
  <1>4. CASE UNCHANGED discord
    BY <1>3, <1>4, RestAnswers DEF discord
  <1>5. CASE ~UNCHANGED discord
    <2>1. /\ conn[s].running /\ dcall[u].by # conn[s].sess /\ given' = n
          /\ dcall' = [dcall EXCEPT ![u] = [by |-> conn[s].sess, n |-> n]]
          /\ inbox' = [box EXCEPT ![s] = Append(@, pair)]
      BY <1>5 DEF Op4
    <2>2. box \in [Slots -> Seq(Message)] /\ told \in Message /\ pair \in Message
      <3>1. told \in Message /\ pair \in Message
        BY <1>1 DEF Msg, Message
      <3>2. n \in Nat /\ 1 \in {0, 1}
        BY <1>1
      <3>3. box \in [Slots -> Seq(Message)]
        <4> HIDE DEF n, u, s
        <4> QED BY <1>1, <3>2, TellType
      <3> QED BY <3>1, <3>3
    <2>3. \A t \in Slots : \A i \in 1 .. Len(box[t]) : box[t][i].sess <= n
      <3>1. \A t \in Slots : \A i \in 1 .. Len(inbox[t]) : inbox[t][i].sess <= n
        <4> SUFFICES ASSUME NEW t \in Slots, NEW i \in 1 .. Len(inbox[t])
                     PROVE  inbox[t][i].sess <= n
          OBVIOUS
        <4>1. inbox[t] \in Seq(Message)
          BY <1>1
        <4>2. inbox[t][i] \in Message
          BY <4>1
        <4>3. inbox[t][i].sess \in Nat /\ inbox[t][i].sess <= given
          BY <4>2 DEF AnswerInv, Numbered, Message
        <4> QED BY <1>1, <4>3
      <3>2. n \in Nat /\ n <= n
        BY <1>1
      <3> HIDE DEF n
      <3> QED BY <1>1, <3>1, <3>2, TellNumbers
    <2>4. pair.sess = 0 /\ pair.kind = "server"
      BY DEF Msg
    <2>5. \A t \in Slots : \A i \in 1 .. Len(inbox'[t]) : inbox'[t][i].sess <= n
      <3> SUFFICES ASSUME NEW t \in Slots
                   PROVE  \A i \in 1 .. Len(inbox'[t]) : inbox'[t][i].sess <= n
        OBVIOUS
      <3>1. box[t] \in Seq(Message) /\ (inbox'[t] = box[t] \/ inbox'[t] = Append(box[t], pair))
        <4> HIDE DEF box, pair, u, s, Slots
        <4> QED BY <1>1, <2>1, <2>2
      <3>2. n \in Nat
        BY <1>1
      <3>3. pair \in Message /\ \A i \in 1 .. Len(box[t]) : box[t][i].sess <= n
        BY <2>2, <2>3
      <3> HIDE DEF box, pair, n
      <3>4. \A i \in 1 .. Len(Append(box[t], pair)) : Append(box[t], pair)[i].sess <= n
        BY <2>4, <3>1, <3>2, <3>3
      <3> QED BY <3>1, <3>3, <3>4
    <2>6. Numbered'
      <3>1. \A w \in Accounts : dcall'[w].n <= n
        BY <1>1, <2>1 DEF AnswerInv, Numbered
      <3>2. call.sess <= n
        BY <1>1 DEF AnswerInv, Numbered
      <3> HIDE DEF n
      <3> QED BY <2>1, <2>5, <3>1, <3>2 DEF Numbered
    <2>7. \A w \in Accounts : dcall'[w].by # 0 => w = u /\ dcall'[w].n = n
      BY <1>1, <1>2, <2>1
    <2>9. inbox'[s] = Append(Append(inbox[s], told), pair)
      <3>1. box[s] = Append(inbox[s], told)
        BY <1>1, <2>1 DEF Tell
      <3>2. inbox'[s] = Append(box[s], pair)
        BY <1>1, <2>1, <2>2
      <3> QED BY <3>1, <3>2
    <2>10. \A i \in 1 .. Len(inbox[s]) : inbox[s][i].sess # n
      BY SMTT(30), <1>1 DEF AnswerInv, Numbered, Message
    <2>11. Says(told, n) /\ ~Ends(told) /\ ~Ends(pair) /\ ~Says(pair, n)
      BY DEF Msg, Says, Ends
    <2> DEFINE new == inbox'[s]
               k == Len(inbox[s]) + 1
    <2>12. /\ inbox[s] \in Seq(Message) /\ k \in Nat /\ Len(new) = k + 1 /\ new[k] = told
           /\ new[k + 1] = pair
           /\ \A i \in 1 .. Len(inbox[s]) : new[i] = inbox[s][i]
      <3>1. inbox[s] \in Seq(Message)
        BY <1>1
      <3> HIDE DEF told, pair, s
      <3> QED BY <2>2, <2>9, <3>1
    <2>13. \A i \in 1 .. Len(new) : Says(new[i], n) <=> i = k
      <3> SUFFICES ASSUME NEW i \in 1 .. Len(new) PROVE Says(new[i], n) <=> i = k
        OBVIOUS
      <3>1. i \in 1 .. Len(inbox[s]) \/ i = k \/ i = k + 1
        BY <2>12
      <3>2. i \in 1 .. Len(inbox[s]) => ~Says(new[i], n) /\ i # k
        BY <2>10, <2>12 DEF Says
      <3>3. Says(new[k], n) /\ ~Says(new[k + 1], n) /\ k # k + 1
        BY <2>11, <2>12
      <3> QED BY <3>1, <3>2, <3>3
    <2>14. \A i \in 1 .. Len(new) : Ends(new[i]) => i < k
      <3> SUFFICES ASSUME NEW i \in 1 .. Len(new), Ends(new[i]) PROVE i < k
        OBVIOUS
      <3>1. i # k /\ i # k + 1
        BY <2>11, <2>12
      <3> HIDE DEF new, k
      <3> QED BY <2>12, <3>1
    <2>15. AnswerOf(new, n)
      <3>1. k \in 1 .. Len(new)
        BY <2>12
      <3> HIDE DEF new, k, n
      <3> QED BY <2>13, <2>14, <3>1 DEF AnswerOf
    <2>16. call'.sess # n
      BY <1>1 DEF AnswerInv, Numbered
    <2> QED
      <3> HIDE DEF n, k
      <3>1. \A w \in Accounts : dcall'[w].by # 0 =>
                /\ AnswerOf(inbox'[VoiceConn'], dcall'[w].n)
                /\ call'.sess # dcall'[w].n
        BY <1>3, <2>7, <2>15, <2>16
      <3> QED BY <2>6, <3>1 DEF AnswerInv, Unread
  <1> QED BY <1>4, <1>5

\* A connection that closes has the call, which is then over, or is the other
LEMMA CloseAnswers ==
    ASSUME CallInv, AnswerInv, NEW s \in Slots, Close(s), conn[s].running,
           g_active' = g_active, call' = call
    PROVE  AnswerInv'
  <1> DEFINE u == conn[s].user
             shut == [conn EXCEPT ![s].running = FALSE]
             dead == [inbox EXCEPT ![s] = <<>>]
  <1>1. /\ s \in Slots /\ conn[s] \in ConnType /\ u \in Accounts
        /\ inbox \in [Slots -> Seq(Message)] /\ conn \in [Slots -> ConnType]
        /\ dcall \in [Accounts -> [by : Nat, n : Nat]] /\ given \in Nat /\ call.sess \in Nat
        /\ VoiceConn \in Slots
    BY CallTypes DEF ConnType
  <1>2. /\ conn' = shut /\ given' = given
        /\ dcall' = IF dcall[u].by = conn[s].sess THEN [dcall EXCEPT ![u] = NoCall] ELSE dcall
        /\ inbox' = IF dcall[u].by = conn[s].sess THEN Tell(dead, u, 0, 0, shut) ELSE dead
    BY DEF Close
  <1>3. \A w \in Accounts : dcall[w].by # 0 =>
            /\ conn[VoiceConn].running /\ conn[VoiceConn].user = w
            /\ conn[VoiceConn].sess = dcall[w].by
    BY DEF CallInv, HeldIsTheCalls
  <1>4. dead \in [Slots -> Seq(Message)] /\ shut \in [Slots -> ConnType]
    <2>1. [conn[s] EXCEPT !.running = FALSE] \in ConnType
      BY <1>1 DEF ConnType
    <2> QED BY <1>1, <2>1
  <1>5. \A t \in Slots : \A i \in 1 .. Len(dead[t]) : dead[t][i].sess <= given
    <2> SUFFICES ASSUME NEW t \in Slots, NEW i \in 1 .. Len(dead[t])
                 PROVE  dead[t][i].sess <= given
      OBVIOUS
    <2>1. t # s /\ dead[t] = inbox[t]
      BY <1>1
    <2> QED BY <2>1 DEF AnswerInv, Numbered
  <1>6. Numbered'
    <2>1. \A t \in Slots : \A i \in 1 .. Len(inbox'[t]) : inbox'[t][i].sess <= given
      <3>1. 0 \in Nat /\ 0 \in {0, 1} /\ 0 <= given
        BY <1>1
      <3>2. \A t \in Slots : \A i \in 1 .. Len(Tell(dead, u, 0, 0, shut)[t]) :
                Tell(dead, u, 0, 0, shut)[t][i].sess <= given
        <4> HIDE DEF u, dead, shut
        <4> QED BY <1>1, <1>4, <1>5, <3>1, TellNumbers
      <3> HIDE DEF u, dead, shut
      <3> QED BY <1>2, <1>5, <3>2
    <2>2. \A w \in Accounts : dcall'[w].n <= given
      BY <1>1, <1>2 DEF NoCall, AnswerInv, Numbered
    <2> QED BY <1>2, <2>1, <2>2 DEF AnswerInv, Numbered
  <1>7. CASE s = VoiceConn
    <2>1. \A w \in Accounts : dcall'[w].by = 0
      <3>1. \A w \in Accounts : dcall[w].by # 0 => w = u /\ dcall[w].by = conn[s].sess
        BY <1>3, <1>7
      <3>2. dcall' = dcall \/ dcall' = [dcall EXCEPT ![u] = NoCall]
        BY <1>2
      <3>3. dcall[u].by = conn[s].sess => dcall'[u].by = 0
        BY <1>1, <1>2 DEF NoCall
      <3>4. \A w \in Accounts \ {u} : dcall'[w] = dcall[w]
        BY <1>1, <3>2
      <3>5. dcall[u].by # conn[s].sess => dcall' = dcall
        BY <1>2
      <3> SUFFICES ASSUME NEW w \in Accounts PROVE dcall'[w].by = 0
        OBVIOUS
      <3>6. CASE w # u
        BY <3>1, <3>4, <3>6
      <3>7. CASE w = u
        BY <1>1, <3>1, <3>3, <3>5, <3>7
      <3> QED BY <3>6, <3>7
    <2> QED BY <1>6, <2>1, NobodyAnswers
  <1>8. CASE s # VoiceConn
    <2>1. Holding /\ s = g_active /\ VoiceConn = Spare /\ Spare # s
      BY <1>8, Others DEF CallInv, TypeOK, VoiceConn, Spare, Holding
    <2>2. VoiceConn' = VoiceConn
      <3>1. conn'[Spare].running = conn[Spare].running
        <4>1. Spare \in Slots \ {s}
          BY <1>1, <2>1
        <4> HIDE DEF u
        <4> QED BY <1>1, <1>2, <4>1
      <3>2. Spare' = Spare
        BY DEF Spare
      <3> QED BY <2>1, <3>1, <3>2 DEF VoiceConn, Holding
    <2>3. dcall[u].by # conn[s].sess
      <3>1. conn[s].sess # 0 /\ conn[VoiceConn].sess # conn[s].sess
        BY <1>1, <1>8 DEF CallInv, Sessions
      <3>2. dcall[u].by # 0 => dcall[u].by = conn[VoiceConn].sess
        BY <1>1, <1>3
      <3> QED BY <3>1, <3>2
    <2>4. dcall' = dcall /\ inbox'[VoiceConn] = inbox[VoiceConn]
      BY <1>1, <1>2, <1>8, <2>3
    <2> QED BY <1>6, <2>2, <2>4 DEF AnswerInv, Unread
  <1> QED BY <1>7, <1>8

\* The connection that is started is not the one with the call, and its READY
\* tells of no other session than the account's
LEMMA StartAnswers ==
    ASSUME CallInv, AnswerInv, NEW u \in Accounts, Start(u), g_active' = g_active,
           call' = call, dcall' = dcall, given' = given
    PROVE  AnswerInv'
  <1> DEFINE s == g_active
             hello == <<Msg("ready", u, 0, 0)>>
             views == {<<>>, <<Msg("state", u, 1, dcall[u].n)>>, <<Msg("state", u, 0, 0)>>}
  <1>1. /\ s \in Slots /\ conn[s] \in ConnType /\ VoiceConn \in Slots
        /\ inbox \in [Slots -> Seq(Message)] /\ conn \in [Slots -> ConnType]
        /\ dcall \in [Accounts -> [by : Nat, n : Nat]] /\ given \in Nat /\ call.sess \in Nat
    BY CallTypes
  <1>2. CASE conn[s].running
    <2>1. conn' = conn /\ inbox' = inbox
      BY <1>2 DEF Start
    <2>2. VoiceConn' = VoiceConn
      BY <2>1 DEF VoiceConn, Spare, Holding
    <2> QED BY <2>1, <2>2, RestAnswers
  <1>3. CASE ~conn[s].running
    <2>1. /\ conn' = [conn EXCEPT ![s] =
                [running |-> TRUE, dispatching |-> TRUE, user |-> u,
                 sess |-> 1 + conn["a"].sess + conn["b"].sess]]
          /\ \E view \in views : inbox' = [inbox EXCEPT ![s] = hello \o view]
      BY <1>3 DEF Start
    <2>2. VoiceConn' = VoiceConn
      BY <1>1, <2>1, Others DEF CallInv, TypeOK, VoiceConn, Spare, Holding
    <2>3. PICK view \in views : inbox' = [inbox EXCEPT ![s] = hello \o view]
      BY <2>1
    <2>4. \A i \in 1 .. Len(hello \o view) : (hello \o view)[i].sess <= given
      <3>1. \A n \in Nat : \A m : n <= given /\ m.sess = n =>
                \A i \in 1 .. Len(hello \o <<m>>) : (hello \o <<m>>)[i].sess <= given
        BY <1>1 DEF Msg
      <3>2. CASE view = <<>>
        BY <1>1, <3>2 DEF Msg
      <3>3. CASE view = <<Msg("state", u, 1, dcall[u].n)>>
        <4>1. dcall[u].n \in Nat /\ dcall[u].n <= given
          BY <1>1 DEF AnswerInv, Numbered
        <4>2. Msg("state", u, 1, dcall[u].n).sess = dcall[u].n
          BY DEF Msg
        <4> HIDE DEF hello
        <4> QED BY <3>1, <3>3, <4>1, <4>2
      <3>4. CASE view = <<Msg("state", u, 0, 0)>>
        <4>1. Msg("state", u, 0, 0).sess = 0 /\ 0 \in Nat /\ 0 <= given
          BY <1>1 DEF Msg
        <4> HIDE DEF hello
        <4> QED BY <3>1, <3>4, <4>1
      <3> QED BY <3>2, <3>3, <3>4
    <2>5. Numbered'
      <3> DEFINE both == hello \o view
      <3>1. \A t \in Slots : \A i \in 1 .. Len(inbox'[t]) : inbox'[t][i].sess <= given
        <4>1. \A t \in Slots : inbox'[t] = both \/ inbox'[t] = inbox[t]
          <5>1. inbox' = [inbox EXCEPT ![s] = both]
            BY <2>3
          <5> HIDE DEF both
          <5> QED BY <1>1, <5>1
        <4>2. \A i \in 1 .. Len(both) : both[i].sess <= given
          BY <2>4
        <4> HIDE DEF both
        <4> QED BY <4>1, <4>2 DEF AnswerInv, Numbered
      <3> QED BY <3>1 DEF AnswerInv, Numbered
    <2>6. CASE VoiceConn = s
      <3>1. \A w \in Accounts : dcall'[w].by = 0
        BY <1>3, <2>6 DEF CallInv, HeldIsTheCalls
      <3> QED BY <2>5, <3>1, NobodyAnswers
    <2>7. CASE VoiceConn # s
      <3>1. inbox'[VoiceConn] = inbox[VoiceConn]
        BY <1>1, <2>3, <2>7
      <3> QED BY <2>2, <2>5, <3>1 DEF AnswerInv, Unread
    <2> QED BY <2>6, <2>7
  <1> QED BY <1>2, <1>3

\* Whoever is taken out of the channel was the one with the call
LEMMA KickAnswers ==
    ASSUME CallInv, AnswerInv, NEW u \in Accounts, Kick(u)
    PROVE  AnswerInv'
  <1>1. /\ inbox \in [Slots -> Seq(Message)] /\ conn \in [Slots -> ConnType]
        /\ dcall \in [Accounts -> [by : Nat, n : Nat]] /\ given \in Nat
    BY CallTypes
  <1>2. /\ dcall[u].by # 0 /\ dcall' = [dcall EXCEPT ![u] = NoCall]
        /\ inbox' \in {inbox, Tell(inbox, u, 0, 0, conn)} /\ given' = given /\ call' = call
    BY DEF Kick
  <1>3. \A w \in Accounts : dcall'[w].by = 0
    BY <1>1, <1>2 DEF CallInv, HeldIsTheCalls, NoCall
  <1>4. \A s \in Slots : \A i \in 1 .. Len(inbox'[s]) : inbox'[s][i].sess <= given
    <2>1. 0 \in Nat /\ 0 \in {0, 1} /\ 0 <= given
      BY <1>1
    <2>2. \A s \in Slots : \A i \in 1 .. Len(Tell(inbox, u, 0, 0, conn)[s]) :
              Tell(inbox, u, 0, 0, conn)[s][i].sess <= given
      BY <1>1, <2>1, TellNumbers DEF AnswerInv, Numbered
    <2> QED BY <1>2, <2>2 DEF AnswerInv, Numbered
  <1>5. Numbered'
    <2>1. \A w \in Accounts : dcall'[w].n <= given
      BY <1>1, <1>2 DEF NoCall, AnswerInv, Numbered
    <2> QED BY <1>2, <1>4, <2>1 DEF AnswerInv, Numbered
  <1> QED BY <1>3, <1>5, NobodyAnswers

\* What is left to read after the first message
LEMMA RestOf ==
    ASSUME NEW box \in Seq(Message), box # <<>>
    PROVE  /\ Tail(box) \in Seq(Message) /\ Len(Tail(box)) = Len(box) - 1 /\ Len(box) \in Nat
           /\ Len(box) > 0 /\ Head(box) = box[1] /\ box[1] \in Message
           /\ \A i \in 1 .. Len(Tail(box)) : Tail(box)[i] = box[i + 1] /\ i + 1 \in 1 .. Len(box)
  <1>1. Len(box) \in Nat /\ Len(box) > 0
    OBVIOUS
  <1>2. Tail(box) \in Seq(Message) /\ Len(Tail(box)) = Len(box) - 1
    BY <1>1
  <1>3. Head(box) = box[1] /\ box[1] \in Message
    BY <1>1
  <1>4. \A i \in 1 .. Len(Tail(box)) : Tail(box)[i] = box[i + 1] /\ i + 1 \in 1 .. Len(box)
    BY <1>1, <1>2
  <1> QED BY <1>1, <1>2, <1>3, <1>4

LEMMA ReadOn ==
    ASSUME NEW box \in Seq(Message), box # <<>>, NEW n \in Nat, AnswerOf(box, n)
    PROVE  /\ AnswerOf(Tail(box), n)
           /\ Says(Head(box), n) =>
                  \A i \in 1 .. Len(Tail(box)) : ~Says(Tail(box)[i], n)
  <1> DEFINE rest == Tail(box)
  <1>1. /\ Len(rest) = Len(box) - 1 /\ Len(box) \in Nat /\ Len(box) > 0 /\ Head(box) = box[1]
        /\ \A i \in 1 .. Len(rest) : rest[i] = box[i + 1] /\ i + 1 \in 1 .. Len(box)
    BY RestOf
  <1> HIDE DEF rest
  <1>2. ASSUME NEW i \in 1 .. Len(rest), Ends(rest[i])
        PROVE  \E j \in 1 .. Len(rest) : i < j /\ Says(rest[j], n)
    <2>1. PICK j \in 1 .. Len(box) : i + 1 < j /\ Says(box[j], n)
      BY <1>1, <1>2 DEF AnswerOf
    <2>2. j - 1 \in 1 .. Len(rest) /\ i < j - 1 /\ (j - 1) + 1 = j
      BY <1>1, <2>1
    <2>3. rest[j - 1] = box[j]
      BY <1>1, <2>2
    <2> QED BY <2>1, <2>2, <2>3
  <1>3. ASSUME NEW i \in 1 .. Len(rest), NEW j \in 1 .. Len(rest), Says(rest[i], n),
               Says(rest[j], n)
        PROVE  i = j
    <2>1. i + 1 = j + 1
      BY <1>1, <1>3 DEF AnswerOf
    <2> QED BY <2>1
  <1>4. ASSUME Says(box[1], n), NEW i \in 1 .. Len(rest), Says(rest[i], n) PROVE FALSE
    <2>1. 1 \in 1 .. Len(box) /\ i + 1 \in 1 .. Len(box) /\ Says(box[i + 1], n)
      BY <1>1, <1>4
    <2>2. 1 = i + 1
      BY <1>4, <2>1 DEF AnswerOf
    <2> QED BY <2>2
  <1>5. AnswerOf(rest, n)
    BY <1>2, <1>3 DEF AnswerOf
  <1> QED BY <1>1, <1>4, <1>5 DEF rest

\* The session a dispatch gives the client is that of the state it reads, and
\* voice_conn() alone gives it one; what ends a call leaves it
LEMMA ReceiveGives ==
    ASSUME CallInv, NEW s \in Slots, Receive(s)
    PROVE  LET m == Head(inbox[s])
           IN /\ \/ call'.sess = call.sess
                 \/ /\ s = VoiceConn /\ Says(m, m.sess) /\ call'.sess = m.sess
              /\ At(s, "stop")' => s = VoiceConn /\ Ends(m)
  <1> DEFINE m == Head(inbox[s])
  <1>1. /\ inbox[s] \in Seq(Message) /\ inbox[s] # <<>>
        /\ st \in StType /\ call \in CallType /\ At(s, "recv")
    BY LockTypes DEF Receive, CallInv, TypeOK
  <1>2. m \in Message
    BY <1>1, RestOf
  <1>3. \/ UNCHANGED <<st, call>> \/ (Goes(s, "fold") /\ UNCHANGED call)
        \/ /\ s = VoiceConn
           /\ (m.kind = "state" /\ VoiceState(s, m)) \/ VoiceServer(s)
    BY DEF Receive, ForTheCall
  <1> HIDE DEF m
  <1>4. CASE UNCHANGED <<st, call>> \/ (Goes(s, "fold") /\ UNCHANGED call)
    BY <1>1, <1>4 DEF Goes, At, StType
  <1>5. CASE s = VoiceConn /\ m.kind = "state" /\ VoiceState(s, m)
    <2>1. CASE m.chan = 0
      <3>1. call'.sess = call.sess
        <4>1. call' = call \/ call' = [call EXCEPT !.kind = "idle"]
          BY <1>5, <2>1 DEF VoiceState
        <4> QED BY <1>1, <4>1 DEF CallType
      <3> QED BY <1>5, <2>1, <3>1 DEF Ends, m
    <2>2. CASE m.chan # 0
      <3>1. ~At(s, "stop")'
        BY <1>1, <1>5, <2>2 DEF VoiceState, Goes, At, StType
      <3>2. m.chan = 1
        BY <1>2, <2>2 DEF Message
      <3>3. call'.sess = call.sess \/ call'.sess = m.sess
        <4>1. \/ call' = call \/ call' = [call EXCEPT !.chan = 1]
              \/ call' = [call EXCEPT !.chan = 1, !.sess = m.sess, !.state = TRUE]
          BY <1>5, <2>2 DEF VoiceState
        <4> QED BY <1>1, <4>1 DEF CallType
      <3> QED BY <1>5, <3>1, <3>2, <3>3 DEF Says, m
    <2> QED BY <2>1, <2>2
  <1>6. CASE VoiceServer(s)
    <2>1. call'.sess = call.sess
      BY <1>1, <1>6 DEF VoiceServer, CallType
    <2>2. ~At(s, "stop")'
      BY <1>1, <1>6 DEF VoiceServer, Goes, At, StType
    <2> QED BY <2>1, <2>2
  <1> QED BY <1>3, <1>4, <1>5, <1>6 DEF m

LEMMA ReceiveAnswers ==
    ASSUME CallInv, AnswerInv, NEW s \in Slots, Receive(s)
    PROVE  AnswerInv'
  <1> DEFINE box == inbox[s]
             m == Head(box)
             rest == Tail(box)
  <1>1. /\ inbox \in [Slots -> Seq(Message)] /\ given \in Nat /\ VoiceConn \in Slots
        /\ dcall \in [Accounts -> [by : Nat, n : Nat]] /\ call.sess \in Nat
    BY CallTypes
  <1>2. /\ box # <<>> /\ inbox' = [inbox EXCEPT ![s] = rest]
        /\ UNCHANGED <<conn, g_active, dcall, given>>
    BY DEF Receive
  <1>3. VoiceConn' = VoiceConn
    BY <1>2 DEF VoiceConn, Spare, Holding
  <1>4. \/ call'.sess = call.sess
        \/ s = VoiceConn /\ Says(m, m.sess) /\ call'.sess = m.sess
    BY ReceiveGives
  <1>5. /\ Len(rest) = Len(box) - 1 /\ Len(box) \in Nat /\ Len(box) > 0
        /\ m = box[1] /\ m \in Message
        /\ \A i \in 1 .. Len(rest) : rest[i] = box[i + 1] /\ i + 1 \in 1 .. Len(box)
    BY <1>1, <1>2, RestOf
  <1>6. \A i \in 1 .. Len(box) : box[i].sess <= given
    BY DEF AnswerInv, Numbered
  <1>7. inbox'[s] = rest /\ \A t \in Slots : t # s => inbox'[t] = inbox[t]
    <2> HIDE DEF rest, box, Slots
    <2> QED BY <1>1, <1>2
  <1>8. Numbered'
    <2>1. call'.sess <= given
      <3>1. m.sess <= given
        BY <1>5, <1>6
      <3> QED BY <1>4, <3>1 DEF AnswerInv, Numbered
    <2>2. \A i \in 1 .. Len(rest) : rest[i].sess <= given
      BY <1>5, <1>6
    <2>3. \A t \in Slots : \A i \in 1 .. Len(inbox'[t]) : inbox'[t][i].sess <= given
      <3> SUFFICES ASSUME NEW t \in Slots
                   PROVE  \A i \in 1 .. Len(inbox'[t]) : inbox'[t][i].sess <= given
        OBVIOUS
      <3>1. CASE t = s
        BY <1>7, <2>2, <3>1
      <3>2. CASE t # s
        BY <1>7, <3>2 DEF AnswerInv, Numbered
      <3> QED BY <3>1, <3>2
    <2> QED BY <1>2, <2>1, <2>3 DEF AnswerInv, Numbered
  <1>9. ASSUME NEW u \in Accounts, dcall[u].by # 0
        PROVE  Unread(inbox[VoiceConn], dcall[u].n)'
    <2> DEFINE n == dcall[u].n
    <2>1. n \in Nat /\ AnswerOf(inbox[VoiceConn], n)
          /\ \A i \in 1 .. Len(inbox[VoiceConn]) : Says(inbox[VoiceConn][i], n) => call.sess # n
      BY <1>1, <1>9 DEF AnswerInv, Unread
    <2>2. n' = n
      BY <1>2
    <2>3. CASE s # VoiceConn
      <3>1. inbox'[VoiceConn] = inbox[VoiceConn] /\ call'.sess = call.sess
        BY <1>1, <1>4, <1>7, <2>3
      <3> HIDE DEF n
      <3> QED BY <1>3, <2>1, <2>2, <3>1 DEF Unread, n
    <2>4. CASE s = VoiceConn
      <3>1. AnswerOf(rest, n) /\ (Says(m, n) => \A i \in 1 .. Len(rest) : ~Says(rest[i], n))
        <4>1. box \in Seq(Message) /\ AnswerOf(box, n) /\ box # <<>>
          BY <1>1, <1>2, <2>1, <2>4
        <4> HIDE DEF box, n
        <4> QED BY <2>1, <4>1, ReadOn
      <3>2. ASSUME NEW i \in 1 .. Len(rest), Says(rest[i], n) PROVE call'.sess # n
        <4>1. call.sess # n
          BY <1>5, <2>1, <2>4, <3>2
        <4>2. ~Says(m, n)
          BY <3>1, <3>2
        <4>3. Says(m, m.sess) => m.sess # n
          BY <4>2
        <4> HIDE DEF m, n
        <4> QED BY <1>4, <4>1, <4>3
      <3> HIDE DEF rest
      <3> QED BY <1>3, <1>7, <2>2, <2>4, <3>1, <3>2 DEF Unread
    <2> QED BY <2>3, <2>4
  <1> QED BY <1>2, <1>8, <1>9 DEF AnswerInv

LEMMA AsideAnswers ==
    ASSUME CallInv, AnswerInv, Aside
    PROVE  AnswerInv'
  <1>1. /\ Spare \in Slots /\ g_active \in Slots /\ call' = call
        /\ conn \in [Slots -> ConnType]
    BY CallTypes DEF Aside
  <1>2. \/ UNCHANGED <<conn, g_active, discord>>
        \/ /\ conn[g_active].running /\ ~Holding
           /\ conn' = [conn EXCEPT ![g_active].dispatching = FALSE]
           /\ g_active' = Spare /\ UNCHANGED discord
        \/ conn[g_active].running /\ Close(g_active) /\ g_active' = g_active
    BY DEF Aside, StepsAside
  <1>3. CASE UNCHANGED <<conn, g_active, discord>>
    <2>1. VoiceConn' = VoiceConn
      BY <1>3 DEF VoiceConn, Spare, Holding
    <2> QED BY <1>1, <1>3, <2>1, RestAnswers DEF discord
  <1>4. CASE /\ conn[g_active].running /\ ~Holding
             /\ conn' = [conn EXCEPT ![g_active].dispatching = FALSE]
             /\ g_active' = Spare /\ UNCHANGED discord
    <2>1. \A t \in Slots : conn'[t].running = conn[t].running
      BY <1>1, <1>4 DEF ConnType
    <2>2. VoiceConn = g_active /\ VoiceConn' = g_active
      BY <1>1, <1>4, <2>1, Others DEF VoiceConn, Spare, Holding
    <2> QED BY <1>1, <1>4, <2>2, RestAnswers DEF discord
  <1>5. CASE conn[g_active].running /\ Close(g_active) /\ g_active' = g_active
    BY <1>1, <1>5, CloseAnswers
  <1> QED BY <1>2, <1>3, <1>4, <1>5

\* A step that has to do with neither the connections nor Discord
Apart == UNCHANGED <<conn, g_active, inbox, dcall, given>> /\ call'.sess = call.sess

LEMMA ApartAnswers == AnswerInv /\ Apart => AnswerInv'
  <1>1. Apart => VoiceConn' = VoiceConn
    BY DEF Apart, VoiceConn, Spare, Holding
  <1> QED BY <1>1, RestAnswers DEF Apart

\* No gateway thread goes on to stop the call
Away == \A s \in Slots : ~(At(s, "recv") /\ At(s, "stop")')

LEMMA PersonApart ==
    ASSUME CallInv, Join \/ JoinBlocked \/ Leave \/ Logout
               \/ (\E u \in Accounts : Switch(u)) \/ (\E u \in Accounts : SignIn(u))
               \/ EndCall \/ UiDrained \/ Reset \/ TokenTaken \/ TokenRefused
    PROVE  Apart /\ Away
  <1>1. st \in StType /\ call \in CallType
    BY LockTypes
  <1>2. CASE Join
    BY <1>1, <1>2 DEF Join, Does, Through, At, Apart, Away, StType, CallType, discord
  <1>3. CASE JoinBlocked
    BY <1>1, <1>3 DEF JoinBlocked, Does, At, Apart, Away, StType, CallType, discord
  <1>4. CASE Leave
    BY <1>1, <1>4 DEF Leave, Does, Through, At, Apart, Away, StType, CallType, discord
  <1>5. CASE Logout
    BY <1>1, <1>5 DEF Logout, Does, Goes, At, Apart, Away, StType, CallType, discord
  <1>6. ASSUME NEW u \in Accounts, Switch(u) PROVE Apart /\ Away
    BY <1>1, <1>6 DEF Switch, Does, Goes, At, Apart, Away, StType, CallType, discord
  <1>7. ASSUME NEW u \in Accounts, SignIn(u) PROVE Apart /\ Away
    BY <1>1, <1>7 DEF SignIn, Goes, At, Apart, Away, StType, CallType, discord
  <1>8. CASE EndCall
    BY <1>1, <1>8 DEF EndCall, Through, At, Apart, Away, StType, CallType, discord
  <1>9. CASE UiDrained
    BY <1>1, <1>9 DEF UiDrained, Goes, At, Apart, Away, StType, CallType, discord
  <1>10. CASE Reset
    BY <1>1, <1>10 DEF Reset, Goes, Both, At, Apart, Away, StType, CallType, discord
  <1>11. CASE TokenTaken
    BY <1>1, <1>11 DEF TokenTaken, Goes, At, Apart, Away, StType, CallType, discord
  <1>12. CASE TokenRefused
    BY <1>1, <1>12 DEF TokenRefused, Goes, At, Apart, Away, StType, CallType, discord
  <1> QED BY <1>2, <1>3, <1>4, <1>5, <1>6, <1>7, <1>8, <1>9, <1>10, <1>11, <1>12

LEMMA CallApart ==
    ASSUME CallInv, WsUp \/ WsRefused \/ WsStopped \/ WsDrained \/ WsEnd
               \/ RjPair \/ RjHeavy \/ RjDone \/ RjJoin
    PROVE  Apart /\ Away
  <1>1. st \in StType /\ call \in CallType
    BY LockTypes
  <1>2. CASE WsUp
    BY <1>1, <1>2 DEF WsUp, Goes, At, Apart, Away, StType, CallType, discord
  <1>3. CASE WsRefused
    BY <1>1, <1>3 DEF WsRefused, Through, At, Apart, Away, StType, CallType, discord
  <1>4. CASE WsStopped
    BY <1>1, <1>4 DEF WsStopped, Through, At, Apart, Away, StType, CallType, discord
  <1>5. CASE WsDrained
    BY <1>1, <1>5 DEF WsDrained, Goes, At, Apart, Away, StType, CallType, discord
  <1>6. CASE WsEnd
    BY <1>1, <1>6 DEF WsEnd, Goes, Both, At, Apart, Away, StType, CallType, discord
  <1>7. CASE RjPair
    BY <1>1, <1>7 DEF RjPair, Both, At, Apart, Away, StType, CallType, discord
  <1>8. CASE RjHeavy
    BY <1>1, <1>8 DEF RjHeavy, Through, At, Apart, Away, StType, CallType, discord
  <1>9. CASE RjDone
    BY <1>1, <1>9 DEF RjDone, Goes, At, Apart, Away, StType, CallType, discord
  <1>10. CASE RjJoin
    BY <1>1, <1>10 DEF RjJoin, Goes, Through, At, Apart, Away, StType, CallType, discord
  <1> QED BY <1>2, <1>3, <1>4, <1>5, <1>6, <1>7, <1>8, <1>9, <1>10

\* A gateway thread but for what it receives, and every stop
LEMMA ThreadsApart ==
    ASSUME CallInv,
           \/ \E s \in Slots : Fold(s) \/ Cleared(s) \/ GatewayEnd(s) \/ StartVoice(s)
           \/ \E t \in Slots \union {"ui", "rj"} : StopBegin(t) \/ StopEnd(t)
    PROVE  Apart /\ Away
  <1>1. st \in StType /\ call \in CallType
    BY LockTypes
  <1>2. ASSUME NEW s \in Slots, Fold(s) PROVE Apart /\ Away
    BY <1>1, <1>2 DEF Fold, Goes, At, Apart, Away, StType, CallType, discord
  <1>3. ASSUME NEW s \in Slots, Cleared(s) PROVE Apart /\ Away
    BY <1>1, <1>3 DEF Cleared, Goes, At, Apart, Away, StType, CallType, discord
  <1>4. ASSUME NEW s \in Slots, GatewayEnd(s) PROVE Apart /\ Away
    BY <1>1, <1>4 DEF GatewayEnd, Goes, At, Apart, Away, StType, CallType, discord
  <1>5. ASSUME NEW s \in Slots, StartVoice(s) PROVE Apart /\ Away
    BY <1>1, <1>5 DEF StartVoice, Goes, Both, At, Apart, Away, StType, CallType, discord
  <1>6. ASSUME NEW t \in Slots \union {"ui", "rj"}, StopBegin(t) PROVE Apart /\ Away
    BY <1>1, <1>6 DEF StopBegin, Goes, At, Apart, Away, StType, CallType, discord
  <1>7. ASSUME NEW t \in Slots \union {"ui", "rj"}, StopEnd(t) PROVE Apart /\ Away
    BY <1>1, <1>7 DEF StopEnd, Goes, At, Apart, Away, StType, CallType, discord
  <1> QED BY <1>2, <1>3, <1>4, <1>5, <1>6, <1>7

\* What speaks to Discord on voice_conn()
LEMMA SpeaksAnswers ==
    ASSUME CallInv, AnswerInv, (\E c \in {4014, 4006} : WsDies(c)) \/ RjAsk \/ RjOut
               \/ (\E t \in {"ui", "rj"} : JoinAsk(t)) \/ Left
    PROVE  AnswerInv' /\ Away
  <1>1. st \in StType /\ call \in CallType
    BY LockTypes
  <1>2. ASSUME NEW c \in {4014, 4006}, WsDies(c) PROVE AnswerInv' /\ Away
    <2>1. Away
      BY <1>1, <1>2 DEF WsDies, Through, At, Away, StType
    <2>2. conn' = conn /\ g_active' = g_active
      BY <1>2 DEF WsDies
    <2>3. CASE c = 4006
      <3>1. Op4(VoiceConn, 0)
        BY <1>2, <2>3 DEF WsDies
      <3>2. call' = [call EXCEPT !.ready = FALSE, !.sess = 0]
        BY <1>2, <2>3 DEF WsDies
      <3>3. call'.sess = 0
        BY <1>1, <3>2 DEF CallType
      <3> QED BY <2>1, <2>2, <3>1, <3>3, ByeAnswers
    <2>4. CASE c # 4006
      <3>1. UNCHANGED discord /\ call' = [call EXCEPT !.ready = FALSE, !.sess = @]
        BY <1>2, <2>4 DEF WsDies
      <3>2. call'.sess = call.sess
        BY <1>1, <3>1 DEF CallType
      <3>3. Apart
        BY <2>2, <3>1, <3>2 DEF Apart, discord
      <3> QED BY <2>1, <3>3, ApartAnswers
    <2> QED BY <2>3, <2>4
  <1>3. CASE RjAsk
    <2>1. /\ conn' = conn /\ g_active' = g_active
          /\ Op4(VoiceConn, 1) \/ UNCHANGED discord
      BY <1>3 DEF RjAsk
    <2>2. call' = call \/ call' = [call EXCEPT !.server = FALSE, !.state = FALSE]
      BY <1>3 DEF RjAsk
    <2>3. call'.sess = call.sess
      BY <1>1, <2>2 DEF CallType
    <2>4. Goes("rj", "pair") \/ Goes("rj", "none")
      BY <1>3 DEF RjAsk
    <2>5. Away
      BY <1>1, <2>4 DEF Goes, At, Away, StType
    <2>6. CASE UNCHANGED discord
      <3>1. Apart
        BY <2>1, <2>3, <2>6 DEF Apart, discord
      <3> QED BY <2>5, <3>1, ApartAnswers
    <2> QED BY <2>1, <2>3, <2>5, <2>6, AskAnswers
  <1>4. CASE RjOut
    <2>1. /\ conn' = conn /\ g_active' = g_active /\ Op4(VoiceConn, 0)
          /\ call' = [call EXCEPT !.sess = 0]
      BY <1>4 DEF RjOut
    <2>2. call'.sess = 0
      BY <1>1, <2>1 DEF CallType
    <2>3. Away
      BY <1>1, <1>4 DEF RjOut, Goes, At, Away, StType
    <2> QED BY <2>1, <2>2, <2>3, ByeAnswers
  <1>5. ASSUME NEW t \in {"ui", "rj"}, JoinAsk(t) PROVE AnswerInv' /\ Away
    <2>1. /\ conn' = conn /\ g_active' = g_active /\ Op4(VoiceConn, 1)
          /\ call' = [call EXCEPT !.chan = 1, !.kind = "connecting"]
      BY <1>5 DEF JoinAsk
    <2>2. call'.sess = call.sess
      BY <1>1, <2>1 DEF CallType
    <2>3. Away
      BY <1>1, <1>5 DEF JoinAsk, Goes, At, Away, StType
    <2> QED BY <2>1, <2>2, <2>3, AskAnswers
  <1>6. CASE Left
    <2>1. /\ conn' = conn /\ g_active' = g_active /\ Op4(VoiceConn, 0)
          /\ call' = [call EXCEPT !.chan = 0, !.kind = "idle"]
      BY <1>6 DEF Left
    <2>2. call'.sess = call.sess
      BY <1>1, <2>1 DEF CallType
    <2>3. Away
      BY <1>1, <1>6 DEF Left, Goes, At, Away, StType
    <2> QED BY <2>1, <2>2, <2>3, ByeAnswers
  <1> QED BY <1>2, <1>3, <1>4, <1>5, <1>6

\* What opens, closes and moves the connections
LEMMA ConnectionsAnswer ==
    ASSUME CallInv, AnswerInv, WsRelease \/ UiRelease \/ Aside \/ JobStart
               \/ (\E u \in Accounts : Kick(u))
    PROVE  AnswerInv' /\ Away
  <1>1. st \in StType /\ call \in CallType /\ Spare \in Slots /\ g_active \in Slots
    BY LockTypes
  <1>2. ASSUME (Holding /\ Close(Spare)) \/ UNCHANGED <<conn, discord>>,
               g_active' = g_active, call' = call
        PROVE  AnswerInv'
    <2>1. CASE Holding /\ Close(Spare)
      BY <1>1, <1>2, <2>1, CloseAnswers DEF Holding
    <2>2. CASE UNCHANGED <<conn, discord>>
      BY <1>2, <2>2, ApartAnswers DEF Apart, discord
    <2> QED BY <1>2, <2>1, <2>2
  <1>3. CASE WsRelease
    <2>1. Away
      BY <1>1, <1>3 DEF WsRelease, Goes, Through, At, Away, StType
    <2> QED BY <1>2, <1>3, <2>1 DEF WsRelease
  <1>4. CASE UiRelease
    <2>1. Away
      BY <1>1, <1>4 DEF UiRelease, Goes, Through, At, Away, StType
    <2> QED BY <1>2, <1>4, <2>1 DEF UiRelease
  <1>5. CASE Aside
    <2>1. Away
      BY <1>1, <1>5 DEF Aside, Goes, Through, At, Away, StType
    <2> QED BY <1>5, <2>1, AsideAnswers
  <1>6. CASE JobStart
    <2>1. /\ login \in Accounts /\ Start(login)
          /\ UNCHANGED <<g_active, call, dcall, given>>
      BY <1>6 DEF JobStart, CallInv, Logins
    <2>2. Goes("job", "none") \/ Both(g_active, "recv", "job", "none")
      BY <2>1 DEF Start
    <2>3. Away
      BY <1>1, <2>2 DEF Goes, Both, At, Away, StType
    <2> QED BY <2>1, <2>3, StartAnswers
  <1>7. ASSUME NEW u \in Accounts, Kick(u) PROVE AnswerInv' /\ Away
    BY <1>7, KickAnswers DEF Kick, At, Away
  <1> QED BY <1>3, <1>4, <1>5, <1>6, <1>7

LEMMA AnswerInvStep ==
    ASSUME CallInv, AnswerInv, [Next]_vars
    PROVE  AnswerInv' /\ (Away \/ \E s \in Slots : Receive(s))
  <1>1. CASE PersonActs \/ UiStep \/ Asks \/ Jobs
    BY <1>1, PersonApart, ApartAnswers, SpeaksAnswers, ConnectionsAnswer
    DEF PersonActs, UiStep, Asks, Jobs
  <1>2. CASE Stops
    BY <1>2, ThreadsApart, ApartAnswers DEF Stops
  <1>3. ASSUME NEW s \in Slots, GatewayStep(s)
        PROVE  AnswerInv' /\ (Away \/ \E x \in Slots : Receive(x))
    BY <1>3, ThreadsApart, ApartAnswers, ReceiveAnswers DEF GatewayStep
  <1>4. CASE WsStep \/ WsRefused \/ RjStep
    BY <1>4, CallApart, ApartAnswers, SpeaksAnswers, ConnectionsAnswer DEF WsStep, RjStep
  <1>5. ASSUME NEW u \in Accounts, Kick(u) PROVE AnswerInv' /\ Away
    BY <1>5, ConnectionsAnswer
  <1>6. CASE UNCHANGED vars
    <2>1. Apart /\ Away
      BY <1>6 DEF vars, discord, Apart, Away, At
    <2> QED BY <2>1, ApartAnswers
  <1> QED BY <1>1, <1>2, <1>3, <1>4, <1>5, <1>6 DEF Next

\* What voice_conn() reads of a call that is up never ends it
LEMMA ReceiveSpares ==
    ASSUME CallInv, AnswerInv, NEW x \in Slots, Receive(x), NEW s \in Slots,
           At(s, "recv"), At(s, "stop")', NEW u \in Accounts, Live(u)
    PROVE  FALSE
  <1> DEFINE box == inbox[x]
             n == dcall[u].n
  <1>1. s = x
    <2>1. st \in StType /\ call \in CallType
      BY LockTypes
    <2>2. s # x => st'[s] = st[s]
      <3>1. UNCHANGED st \/ (\E pc \in Pcs : Goes(x, pc)) \/ Through(x, "stop", "cleared", x)
        BY DEF Receive, VoiceState, VoiceServer, Pcs
      <3> QED BY <2>1, <3>1 DEF Goes, Through, StType
    <2> QED BY <2>2 DEF At
  <1>2. x = VoiceConn /\ Ends(Head(box))
    BY <1>1, ReceiveGives
  <1>3. box \in Seq(Message) /\ box # <<>>
    BY CallTypes DEF Receive
  <1>4. Head(box) = box[1] /\ 1 \in 1 .. Len(box)
    BY <1>3, RestOf
  <1>5. Unread(box, n) /\ n = call.sess
    BY <1>2 DEF Live, AnswerInv
  <1>6. PICK j \in 1 .. Len(box) : Says(box[j], n)
    BY <1>2, <1>4, <1>5 DEF Unread, AnswerOf
  <1> QED BY <1>5, <1>6 DEF Unread

\* A gateway thread takes it that the call has ended only when Discord says that
\* the running call is over: while it is up, whatever its account's connection is
\* still to read that ends a call comes before the state that gives the client
\* the session it does not have yet.
THEOREM OnlyItsOwnEndsIt == Spec => LiveCallIsKept
  <1>1. CallInv /\ AnswerInv /\ [Next]_vars =>
            [\A s \in Slots : At(s, "recv") /\ (At(s, "stop"))' =>
                \A u \in Accounts : ~Live(u)]_vars
    BY AnswerInvStep, ReceiveSpares DEF Away
  <1>2. CallInv /\ AnswerInv /\ [Next]_vars => AnswerInv'
    BY AnswerInvStep
  <1> QED BY <1>1, <1>2, InitAnswerInv, CallInvHolds, PTL DEF Spec, LiveCallIsKept
===============================================================================
