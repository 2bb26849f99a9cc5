------------------------- MODULE GatewaySession_proofs -------------------------
(***************************************************************************)
(* Proofs about GatewaySession, for every bound and every combination of   *)
(* its flags; the results about the store and the call are for a           *)
(* connection that is never left holding a call (MayHold = FALSE), because *)
(* a held one breaks them.                                                 *)
(*                                                                         *)
(* The argument goes session_id first.  It is 0 or the session Discord was *)
(* last seen serving, a resume asks for exactly it and for exactly the     *)
(* sequence received, and it is only forgotten once Discord expired it     *)
(* (SessionInv).  So what is on the wire continues what the thread holds,  *)
(* and what the thread holds continues the store (StoreInv).               *)
(***************************************************************************)
EXTENDS GatewaySession, TLAPS

Served == phase \in {"replay", "serve"}

\* Where the two threads may be, and what a read socket implies.
ThreadInv ==
    /\ phase # "none" => pc \in {"recv", "fold"} /\ running /\ close_status = 0
    /\ phase \in {"greet", "asked"} => pc = "recv"
    /\ running => pc \notin {"off", "exited"}
    /\ pc = "fold" => /\ taken \in Sessions
                      /\ sequence >= 1
                      /\ close_status = 0
    /\ Served => bound \in Sessions /\ next >= 1

\* Sessions are numbered in the order they are issued.
IssueInv ==
    /\ \A s \in live \union named : s <= issued
    /\ session_id <= issued /\ taken <= issued /\ bound <= issued
    /\ store_session <= issued

SessionInv ==
    \* a session is worth resuming, and at the node its READY named
    /\ session_id # 0 => sequence >= 1 /\ resume_url = Home(session_id)
    /\ pc \in {"connect", "wait"} /\ session_id # 0 => want_resume
    /\ phase = "greet" /\ session_id # 0 => want_resume
    /\ phase \in {"greet", "asked"} /\ session_id # 0 => at = resume_url
    \* what HELLO was answered with
    /\ phase = "asked" => /\ req_session = session_id
                          /\ session_id # 0 => req_seq = sequence
    \* the dispatch in hand, and the one after it
    /\ pc = "fold" => session_id = IF sequence = 1 THEN 0 ELSE taken
    /\ Served /\ pc = "fold" => bound = taken /\ next = sequence + 1
    /\ Served /\ pc = "recv" =>
         \/ next = 1 /\ session_id = 0
         \/ session_id # 0 /\ bound = session_id /\ next = sequence + 1
         \/ ~dispatching /\ session_id = 0
    \* a session is forgotten only when it is over
    /\ phase = "refused" =>
         session_id \notin live /\ (pc = "fold" => taken \notin live)
    /\ close_status = 4014 => session_id = 0

StoreInv ==
    dispatching /\ pc # "off" =>
        /\ pc = "fold" => IF sequence = 1
                          THEN store_session < taken
                          ELSE store_session = taken /\ sequence = store_seq + 1
        /\ pc # "fold" /\ session_id # 0 =>
             session_id = store_session /\ sequence = store_seq
        /\ Served /\ next = 1 => store_session < bound
        /\ session_id = 0 => store_session \notin live

SessionIndInv == TypeOK /\ ThreadInv /\ IssueInv /\ SessionInv /\ StoreInv

\* Of a connection that is never held.
MediaInv ==
    /\ pc # "off" => dispatching
    /\ pc = "off" => media = "none"
    /\ phase = "asked" \/ (Served /\ next = 1) => state = "IDENTIFYING"
    /\ phase = "replay" => next > 1
    /\ hold_media => media = "none" /\ ~running
    /\ media = "live" =>
         IF session_id # 0
         THEN call_session = session_id
         ELSE /\ call_session \notin live
              /\ pc = "recv" /\ phase = "none" /\ ~want_resume
    /\ phase = "serve" /\ (IF pc = "fold" THEN sequence > 1 ELSE next > 1)
         => backoff_ms = 1000

--------------------------------------------------------------------------------
(* Types, one lemma for each part of TypeOK *)

\* Every step assigns flags truth values.
LEMMA FlagsTypeStep ==
    ASSUME FlagsTypeOK, Next \/ UNCHANGED vars
    PROVE  FlagsTypeOK'
<1> USE BoundsAssumption, FlagsAssumption
        DEF FlagsTypeOK, threadVars, beatVars, flagVars, storeVars,
            mediaVars, wireVars, serverVars
<1>1. CASE Start
      BY Zenon, <1>1 DEF Start
<1>2. ASSUME NEW keep \in BOOLEAN, Stop(keep) PROVE FlagsTypeOK'
      BY Zenon, <1>2 DEF Stop, Hangup, Fault
<1>3. CASE StopEnd
      BY Zenon, <1>3 DEF StopEnd, EndMedia
<1>4. CASE Detach
      BY Zenon, <1>4 DEF Detach
<1>5. CASE LoginDone
      BY Zenon, <1>5 DEF LoginDone
<1>6. CASE ConnectOk
      BY Zenon, <1>6 DEF ConnectOk, Where
<1>7. CASE ConnectFail
      BY Zenon, <1>7 DEF ConnectFail, Fault
<1>8. CASE WaitDone
      BY Zenon, <1>8 DEF WaitDone
<1>9. CASE ThreadExit
      BY Zenon, <1>9 DEF ThreadExit
<1>10. CASE LoopEnd
  <2>1. want_resume' \in BOOLEAN /\ intents_denied' \in BOOLEAN
    BY ZenonT(40), <1>10 DEF LoopEnd, WantsResume
  <2>2. UNCHANGED <<running, had_session, dispatching, acked, silent, hold_media>>
    BY ZenonT(40), <1>10 DEF LoopEnd
  <2> QED BY Zenon, <2>1, <2>2
<1>11. CASE RecvHello
      BY Zenon, <1>11 DEF RecvHello, Reading, Answer, ResumeFrom
<1>12. CASE TakeDispatch
      BY Zenon, <1>12 DEF TakeDispatch, Reading
<1>13. CASE FoldDispatch
      BY Zenon, <1>13 DEF FoldDispatch, HandleReady, OwnsMedia, EndMedia, BackoffReset
<1>14. CASE RecvResumed
      BY Zenon, <1>14 DEF RecvResumed, Reading, BackoffReset
<1>15. CASE RecvReconnect
      BY Zenon, <1>15 DEF RecvReconnect, Reading, Fault, Hangup
<1>16. ASSUME NEW d \in BOOLEAN, RecvInvalid(d) PROVE FlagsTypeOK'
      BY Zenon, <1>16 DEF RecvInvalid, Reading, Fault, Hangup, SessionAfterInvalid,
              BackoffReset
<1>17. CASE RecvAck
      BY Zenon, <1>17 DEF RecvAck, Reading
<1>18. CASE HbArm
      BY Zenon, <1>18 DEF HbArm
<1>19. CASE HbTimeout
      BY Zenon, <1>19 DEF HbTimeout, Fault, Unanswered
<1>20. CASE HbClose
      BY Zenon, <1>20 DEF HbClose, Hangup
<1>21. CASE StartCall
      BY Zenon, <1>21 DEF StartCall
<1>22. CASE HangUpCall
      BY Zenon, <1>22 DEF HangUpCall, EndMedia
<1>23. CASE SrvIdentify
      BY Zenon, <1>23 DEF SrvIdentify
<1>24. CASE SrvDeny
      BY Zenon, <1>24 DEF SrvDeny, Hangup
<1>25. CASE SrvResume
      BY Zenon, <1>25 DEF SrvResume
<1>26. CASE SrvRefuse
      BY Zenon, <1>26 DEF SrvRefuse
<1>27. ASSUME NEW s \in Sessions, SrvEvent(s) PROVE FlagsTypeOK'
      BY Zenon, <1>27 DEF SrvEvent
<1>28. ASSUME NEW s \in Sessions, SrvExpire(s) PROVE FlagsTypeOK'
      BY Zenon, <1>28 DEF SrvExpire, Fault
<1>29. CASE LinkDrop
      BY Zenon, <1>29 DEF LinkDrop, Fault, Hangup
<1>30. CASE LinkSilent
      BY Zenon, <1>30 DEF LinkSilent, Fault
<1>31. CASE UNCHANGED vars
      BY <1>31 DEF vars
<1> HIDE DEF FlagsTypeOK, threadVars, beatVars, flagVars, storeVars,
            mediaVars, wireVars, serverVars
<1> QED
  BY <1>1, <1>2, <1>3, <1>4, <1>5, <1>6, <1>7, <1>8, <1>9,
     <1>10, <1>11, <1>12, <1>13, <1>14, <1>15, <1>16, <1>17,
     <1>18, <1>19, <1>20, <1>21, <1>22, <1>23, <1>24, <1>25,
     <1>26, <1>27, <1>28, <1>29, <1>30, <1>31
     DEF Next, GatewayThread, HeartbeatThread, Discord

\* gw_conn's own fields stay in range: the sequence is one of a dispatch that
\* exists, the backoff one of its steps.
LEMMA ConnTypeStep ==
    ASSUME ConnTypeOK, WireTypeOK, DiscordTypeOK, ThreadInv, Next \/ UNCHANGED vars
    PROVE  ConnTypeOK'
<1> USE BoundsAssumption, FlagsAssumption
        DEF ConnTypeOK, threadVars, beatVars, flagVars, storeVars,
            mediaVars, wireVars, serverVars
<1>1. CASE Start
      BY <1>1 DEF Start, BackoffSteps
<1>2. ASSUME NEW keep \in BOOLEAN, Stop(keep) PROVE ConnTypeOK'
      BY <1>2 DEF Stop, Hangup, Fault
<1>3. CASE StopEnd
      BY <1>3 DEF StopEnd, EndMedia
<1>4. CASE Detach
      BY <1>4 DEF Detach
<1>5. CASE LoginDone
      BY <1>5 DEF LoginDone
<1>6. CASE ConnectOk
      BY <1>6 DEF ConnectOk, Where
<1>7. CASE ConnectFail
      BY <1>7 DEF ConnectFail, Fault
<1>8. CASE WaitDone
      BY <1>8 DEF WaitDone, NextBackoff, BackoffSteps
<1>9. CASE ThreadExit
      BY <1>9 DEF ThreadExit
<1>10. CASE LoopEnd
      BY <1>10 DEF LoopEnd, WantsResume, OwnsMedia, EndMedia
<1>11. CASE RecvHello
      BY <1>11 DEF RecvHello, Reading, Answer, ResumeFrom
<1>12. CASE TakeDispatch
      BY <1>12 DEF TakeDispatch, Reading, ThreadInv, WireTypeOK,
              DiscordTypeOK, Served
<1>13. CASE FoldDispatch
      BY <1>13 DEF FoldDispatch, HandleReady, OwnsMedia, EndMedia,
              BackoffReset, BackoffSteps, Home, ThreadInv
<1>14. CASE RecvResumed
      BY <1>14 DEF RecvResumed, Reading, BackoffReset, BackoffSteps
<1>15. CASE RecvReconnect
      BY <1>15 DEF RecvReconnect, Reading, Fault, Hangup
<1>16. ASSUME NEW d \in BOOLEAN, RecvInvalid(d) PROVE ConnTypeOK'
      BY <1>16 DEF RecvInvalid, Reading, Fault, Hangup, SessionAfterInvalid,
              BackoffReset, BackoffSteps
<1>17. CASE RecvAck
      BY <1>17 DEF RecvAck, Reading
<1>18. CASE HbArm
      BY <1>18 DEF HbArm
<1>19. CASE HbTimeout
      BY <1>19 DEF HbTimeout, Fault, Unanswered
<1>20. CASE HbClose
      BY <1>20 DEF HbClose, Hangup
<1>21. CASE StartCall
      BY <1>21 DEF StartCall
<1>22. CASE HangUpCall
      BY <1>22 DEF HangUpCall, EndMedia
<1>23. CASE SrvIdentify
      BY <1>23 DEF SrvIdentify
<1>24. CASE SrvDeny
      BY <1>24 DEF SrvDeny, Hangup
<1>25. CASE SrvResume
      BY <1>25 DEF SrvResume
<1>26. CASE SrvRefuse
      BY <1>26 DEF SrvRefuse
<1>27. ASSUME NEW s \in Sessions, SrvEvent(s) PROVE ConnTypeOK'
      BY <1>27 DEF SrvEvent
<1>28. ASSUME NEW s \in Sessions, SrvExpire(s) PROVE ConnTypeOK'
      BY <1>28 DEF SrvExpire, Fault
<1>29. CASE LinkDrop
      BY <1>29 DEF LinkDrop, Fault, Hangup
<1>30. CASE LinkSilent
      BY <1>30 DEF LinkSilent, Fault
<1>31. CASE UNCHANGED vars
      BY <1>31 DEF vars
<1> HIDE DEF ConnTypeOK, threadVars, beatVars, flagVars, storeVars,
            mediaVars, wireVars, serverVars
<1> QED
  BY <1>1, <1>2, <1>3, <1>4, <1>5, <1>6, <1>7, <1>8, <1>9,
     <1>10, <1>11, <1>12, <1>13, <1>14, <1>15, <1>16, <1>17,
     <1>18, <1>19, <1>20, <1>21, <1>22, <1>23, <1>24, <1>25,
     <1>26, <1>27, <1>28, <1>29, <1>30, <1>31
     DEF Next, GatewayThread, HeartbeatThread, Discord

\* The heartbeat, the status, the store and the call stay in range.
LEMMA ClientTypeStep ==
    ASSUME ConnTypeOK, ClientTypeOK, ThreadInv, Next \/ UNCHANGED vars
    PROVE  ClientTypeOK'
<1> USE BoundsAssumption, FlagsAssumption
        DEF ClientTypeOK, threadVars, beatVars, flagVars, storeVars,
            mediaVars, wireVars, serverVars
<1>1. CASE Start
      BY <1>1 DEF Start
<1>2. ASSUME NEW keep \in BOOLEAN, Stop(keep) PROVE ClientTypeOK'
      BY <1>2 DEF Stop, Hangup, Fault
<1>3. CASE StopEnd
      BY <1>3 DEF StopEnd, EndMedia
<1>4. CASE Detach
      BY <1>4 DEF Detach
<1>5. CASE LoginDone
      BY <1>5 DEF LoginDone
<1>6. CASE ConnectOk
      BY <1>6 DEF ConnectOk, Where
<1>7. CASE ConnectFail
      BY <1>7 DEF ConnectFail, Fault
<1>8. CASE WaitDone
      BY <1>8 DEF WaitDone, NextBackoff
<1>9. CASE ThreadExit
      BY <1>9 DEF ThreadExit
<1>10. CASE LoopEnd
      BY <1>10 DEF LoopEnd, WantsResume, OwnsMedia, EndMedia
<1>11. CASE RecvHello
      BY <1>11 DEF RecvHello, Reading, Answer, ResumeFrom
<1>12. CASE TakeDispatch
      BY <1>12 DEF TakeDispatch, Reading
<1>13. CASE FoldDispatch
      BY <1>13 DEF FoldDispatch, HandleReady, OwnsMedia, EndMedia,
              BackoffReset, ThreadInv, ConnTypeOK
<1>14. CASE RecvResumed
      BY <1>14 DEF RecvResumed, Reading, BackoffReset
<1>15. CASE RecvReconnect
      BY <1>15 DEF RecvReconnect, Reading, Fault, Hangup
<1>16. ASSUME NEW d \in BOOLEAN, RecvInvalid(d) PROVE ClientTypeOK'
      BY <1>16 DEF RecvInvalid, Reading, Fault, Hangup, SessionAfterInvalid,
              BackoffReset
<1>17. CASE RecvAck
      BY <1>17 DEF RecvAck, Reading
<1>18. CASE HbArm
      BY <1>18 DEF HbArm
<1>19. CASE HbTimeout
      BY <1>19 DEF HbTimeout, Fault, Unanswered
<1>20. CASE HbClose
      BY <1>20 DEF HbClose, Hangup
<1>21. CASE StartCall
      BY <1>21 DEF StartCall, ConnTypeOK
<1>22. CASE HangUpCall
      BY <1>22 DEF HangUpCall, EndMedia
<1>23. CASE SrvIdentify
      BY <1>23 DEF SrvIdentify
<1>24. CASE SrvDeny
      BY <1>24 DEF SrvDeny, Hangup
<1>25. CASE SrvResume
      BY <1>25 DEF SrvResume
<1>26. CASE SrvRefuse
      BY <1>26 DEF SrvRefuse
<1>27. ASSUME NEW s \in Sessions, SrvEvent(s) PROVE ClientTypeOK'
      BY <1>27 DEF SrvEvent
<1>28. ASSUME NEW s \in Sessions, SrvExpire(s) PROVE ClientTypeOK'
      BY <1>28 DEF SrvExpire, Fault
<1>29. CASE LinkDrop
      BY <1>29 DEF LinkDrop, Fault, Hangup
<1>30. CASE LinkSilent
      BY <1>30 DEF LinkSilent, Fault
<1>31. CASE UNCHANGED vars
      BY <1>31 DEF vars
<1> HIDE DEF ClientTypeOK, threadVars, beatVars, flagVars, storeVars,
            mediaVars, wireVars, serverVars
<1> QED
  BY <1>1, <1>2, <1>3, <1>4, <1>5, <1>6, <1>7, <1>8, <1>9,
     <1>10, <1>11, <1>12, <1>13, <1>14, <1>15, <1>16, <1>17,
     <1>18, <1>19, <1>20, <1>21, <1>22, <1>23, <1>24, <1>25,
     <1>26, <1>27, <1>28, <1>29, <1>30, <1>31
     DEF Next, GatewayThread, HeartbeatThread, Discord

\* The socket and Discord's view of it stay in range.
LEMMA WireTypeStep ==
    ASSUME ConnTypeOK, WireTypeOK, DiscordTypeOK, ThreadInv, Next \/ UNCHANGED vars
    PROVE  WireTypeOK'
<1> USE BoundsAssumption, FlagsAssumption
        DEF WireTypeOK, threadVars, beatVars, flagVars, storeVars,
            mediaVars, wireVars, serverVars
<1>1. CASE Start
      BY <1>1 DEF Start
<1>2. ASSUME NEW keep \in BOOLEAN, Stop(keep) PROVE WireTypeOK'
      BY <1>2 DEF Stop, Hangup, Fault
<1>3. CASE StopEnd
      BY <1>3 DEF StopEnd, EndMedia
<1>4. CASE Detach
      BY <1>4 DEF Detach
<1>5. CASE LoginDone
      BY <1>5 DEF LoginDone
<1>6. CASE ConnectOk
      BY <1>6 DEF ConnectOk, Where, ConnTypeOK
<1>7. CASE ConnectFail
      BY <1>7 DEF ConnectFail, Fault
<1>8. CASE WaitDone
      BY <1>8 DEF WaitDone, NextBackoff
<1>9. CASE ThreadExit
      BY <1>9 DEF ThreadExit
<1>10. CASE LoopEnd
      BY <1>10 DEF LoopEnd, WantsResume, OwnsMedia, EndMedia
<1>11. CASE RecvHello
      BY <1>11 DEF RecvHello, Reading, Answer, ResumeFrom, ConnTypeOK
<1>12. CASE TakeDispatch
      BY <1>12 DEF TakeDispatch, Reading, ThreadInv, DiscordTypeOK, Served
<1>13. CASE FoldDispatch
      BY <1>13 DEF FoldDispatch, HandleReady, OwnsMedia, EndMedia, BackoffReset
<1>14. CASE RecvResumed
      BY <1>14 DEF RecvResumed, Reading, BackoffReset
<1>15. CASE RecvReconnect
      BY <1>15 DEF RecvReconnect, Reading, Fault, Hangup
<1>16. ASSUME NEW d \in BOOLEAN, RecvInvalid(d) PROVE WireTypeOK'
      BY <1>16 DEF RecvInvalid, Reading, Fault, Hangup, SessionAfterInvalid,
              BackoffReset
<1>17. CASE RecvAck
      BY <1>17 DEF RecvAck, Reading
<1>18. CASE HbArm
      BY <1>18 DEF HbArm
<1>19. CASE HbTimeout
      BY <1>19 DEF HbTimeout, Fault, Unanswered
<1>20. CASE HbClose
      BY <1>20 DEF HbClose, Hangup
<1>21. CASE StartCall
      BY <1>21 DEF StartCall
<1>22. CASE HangUpCall
      BY <1>22 DEF HangUpCall, EndMedia
<1>23. CASE SrvIdentify
      BY <1>23 DEF SrvIdentify, DiscordTypeOK
<1>24. CASE SrvDeny
      BY <1>24 DEF SrvDeny, Hangup
<1>25. CASE SrvResume
      BY <1>25 DEF SrvResume, DiscordTypeOK
<1>26. CASE SrvRefuse
      BY <1>26 DEF SrvRefuse
<1>27. ASSUME NEW s \in Sessions, SrvEvent(s) PROVE WireTypeOK'
      BY <1>27 DEF SrvEvent
<1>28. ASSUME NEW s \in Sessions, SrvExpire(s) PROVE WireTypeOK'
      BY <1>28 DEF SrvExpire, Fault
<1>29. CASE LinkDrop
      BY <1>29 DEF LinkDrop, Fault, Hangup
<1>30. CASE LinkSilent
      BY <1>30 DEF LinkSilent, Fault
<1>31. CASE UNCHANGED vars
      BY <1>31 DEF vars
<1> HIDE DEF WireTypeOK, threadVars, beatVars, flagVars, storeVars,
            mediaVars, wireVars, serverVars
<1> QED
  BY <1>1, <1>2, <1>3, <1>4, <1>5, <1>6, <1>7, <1>8, <1>9,
     <1>10, <1>11, <1>12, <1>13, <1>14, <1>15, <1>16, <1>17,
     <1>18, <1>19, <1>20, <1>21, <1>22, <1>23, <1>24, <1>25,
     <1>26, <1>27, <1>28, <1>29, <1>30, <1>31
     DEF Next, GatewayThread, HeartbeatThread, Discord

\* Discord's sessions stay in range.
LEMMA DiscordTypeStep ==
    ASSUME DiscordTypeOK, Next \/ UNCHANGED vars
    PROVE  DiscordTypeOK'
<1> USE BoundsAssumption, FlagsAssumption
        DEF DiscordTypeOK, threadVars, beatVars, flagVars, storeVars,
            mediaVars, wireVars, serverVars
<1>1. CASE Start
      BY <1>1 DEF Start
<1>2. ASSUME NEW keep \in BOOLEAN, Stop(keep) PROVE DiscordTypeOK'
      BY <1>2 DEF Stop, Hangup, Fault
<1>3. CASE StopEnd
      BY <1>3 DEF StopEnd, EndMedia
<1>4. CASE Detach
      BY <1>4 DEF Detach
<1>5. CASE LoginDone
      BY <1>5 DEF LoginDone
<1>6. CASE ConnectOk
      BY <1>6 DEF ConnectOk, Where
<1>7. CASE ConnectFail
      BY <1>7 DEF ConnectFail, Fault
<1>8. CASE WaitDone
      BY <1>8 DEF WaitDone, NextBackoff
<1>9. CASE ThreadExit
      BY <1>9 DEF ThreadExit
<1>10. CASE LoopEnd
      BY <1>10 DEF LoopEnd, WantsResume, OwnsMedia, EndMedia
<1>11. CASE RecvHello
      BY <1>11 DEF RecvHello, Reading, Answer, ResumeFrom
<1>12. CASE TakeDispatch
      BY <1>12 DEF TakeDispatch, Reading
<1>13. CASE FoldDispatch
      BY <1>13 DEF FoldDispatch, HandleReady, OwnsMedia, EndMedia, BackoffReset
<1>14. CASE RecvResumed
      BY <1>14 DEF RecvResumed, Reading, BackoffReset
<1>15. CASE RecvReconnect
      BY <1>15 DEF RecvReconnect, Reading, Fault, Hangup
<1>16. ASSUME NEW d \in BOOLEAN, RecvInvalid(d) PROVE DiscordTypeOK'
      BY <1>16 DEF RecvInvalid, Reading, Fault, Hangup, SessionAfterInvalid,
              BackoffReset
<1>17. CASE RecvAck
      BY <1>17 DEF RecvAck, Reading
<1>18. CASE HbArm
      BY <1>18 DEF HbArm
<1>19. CASE HbTimeout
      BY <1>19 DEF HbTimeout, Fault, Unanswered
<1>20. CASE HbClose
      BY <1>20 DEF HbClose, Hangup
<1>21. CASE StartCall
      BY <1>21 DEF StartCall
<1>22. CASE HangUpCall
      BY <1>22 DEF HangUpCall, EndMedia
<1>23. CASE SrvIdentify
  <2>1. issued + 1 \in Sessions /\ 1 \in 0..MaxSeq
    BY <1>23 DEF SrvIdentify, Sessions
  <2>2. live' \in SUBSET Sessions /\ named' \in SUBSET Sessions
    BY <1>23, <2>1 DEF SrvIdentify
  <2>3. log' \in [Sessions -> 0..MaxSeq]
    BY <1>23, <2>1 DEF SrvIdentify
  <2>4. issued' \in 0..(MaxFaults + 1) /\ faults' \in 0..MaxFaults
    BY <1>23, <2>1 DEF SrvIdentify, Sessions
  <2> QED
    BY <2>2, <2>3, <2>4
<1>24. CASE SrvDeny
      BY <1>24 DEF SrvDeny, Hangup
<1>25. CASE SrvResume
      BY <1>25 DEF SrvResume
<1>26. CASE SrvRefuse
      BY <1>26 DEF SrvRefuse
<1>27. ASSUME NEW s \in Sessions, SrvEvent(s) PROVE DiscordTypeOK'
      BY <1>27 DEF SrvEvent
<1>28. ASSUME NEW s \in Sessions, SrvExpire(s) PROVE DiscordTypeOK'
      BY <1>28 DEF SrvExpire, Fault
<1>29. CASE LinkDrop
      BY <1>29 DEF LinkDrop, Fault, Hangup
<1>30. CASE LinkSilent
      BY <1>30 DEF LinkSilent, Fault
<1>31. CASE UNCHANGED vars
      BY <1>31 DEF vars
<1> HIDE DEF DiscordTypeOK, threadVars, beatVars, flagVars, storeVars,
            mediaVars, wireVars, serverVars
<1> QED
  BY <1>1, <1>2, <1>3, <1>4, <1>5, <1>6, <1>7, <1>8, <1>9,
     <1>10, <1>11, <1>12, <1>13, <1>14, <1>15, <1>16, <1>17,
     <1>18, <1>19, <1>20, <1>21, <1>22, <1>23, <1>24, <1>25,
     <1>26, <1>27, <1>28, <1>29, <1>30, <1>31
     DEF Next, GatewayThread, HeartbeatThread, Discord

--------------------------------------------------------------------------------
(* The invariant, one lemma for each part *)

\* The threads are where an open socket says they are.
LEMMA ThreadStep ==
    ASSUME ConnTypeOK, WireTypeOK, DiscordTypeOK, ThreadInv, Next \/ UNCHANGED vars
    PROVE  ThreadInv'
<1> USE BoundsAssumption, FlagsAssumption
        DEF ThreadInv, Served, threadVars, beatVars, flagVars,
            storeVars, mediaVars, wireVars, serverVars
<1>1. CASE Start
      BY <1>1 DEF Start
<1>2. ASSUME NEW keep \in BOOLEAN, Stop(keep) PROVE ThreadInv'
      BY <1>2 DEF Stop, Hangup, Fault
<1>3. CASE StopEnd
      BY <1>3 DEF StopEnd, EndMedia
<1>4. CASE Detach
      BY <1>4 DEF Detach
<1>5. CASE LoginDone
      BY <1>5 DEF LoginDone
<1>6. CASE ConnectOk
      BY <1>6 DEF ConnectOk, Where
<1>7. CASE ConnectFail
      BY <1>7 DEF ConnectFail, Fault
<1>8. CASE WaitDone
      BY <1>8 DEF WaitDone, NextBackoff
<1>9. CASE ThreadExit
      BY <1>9 DEF ThreadExit
<1>10. CASE LoopEnd
      BY <1>10 DEF LoopEnd, WantsResume, OwnsMedia, EndMedia
<1>11. CASE RecvHello
      BY <1>11 DEF RecvHello, Reading, Answer, ResumeFrom
<1>12. CASE TakeDispatch
      BY <1>12 DEF TakeDispatch, Reading, WireTypeOK
<1>13. CASE FoldDispatch
      BY <1>13 DEF FoldDispatch, HandleReady, OwnsMedia, EndMedia,
              BackoffReset, ConnTypeOK
<1>14. CASE RecvResumed
      BY <1>14 DEF RecvResumed, Reading, BackoffReset
<1>15. CASE RecvReconnect
      BY <1>15 DEF RecvReconnect, Reading, Fault, Hangup
<1>16. ASSUME NEW d \in BOOLEAN, RecvInvalid(d) PROVE ThreadInv'
      BY <1>16 DEF RecvInvalid, Reading, Fault, Hangup, SessionAfterInvalid,
              BackoffReset
<1>17. CASE RecvAck
      BY <1>17 DEF RecvAck, Reading
<1>18. CASE HbArm
      BY <1>18 DEF HbArm
<1>19. CASE HbTimeout
      BY <1>19 DEF HbTimeout, Fault, Unanswered
<1>20. CASE HbClose
      BY <1>20 DEF HbClose, Hangup
<1>21. CASE StartCall
      BY <1>21 DEF StartCall
<1>22. CASE HangUpCall
      BY <1>22 DEF HangUpCall, EndMedia
<1>23. CASE SrvIdentify
      BY <1>23 DEF SrvIdentify
<1>24. CASE SrvDeny
      BY <1>24 DEF SrvDeny, Hangup
<1>25. CASE SrvResume
      BY <1>25 DEF SrvResume, WireTypeOK, DiscordTypeOK
<1>26. CASE SrvRefuse
      BY <1>26 DEF SrvRefuse
<1>27. ASSUME NEW s \in Sessions, SrvEvent(s) PROVE ThreadInv'
      BY <1>27 DEF SrvEvent
<1>28. ASSUME NEW s \in Sessions, SrvExpire(s) PROVE ThreadInv'
      BY <1>28 DEF SrvExpire, Fault
<1>29. CASE LinkDrop
      BY <1>29 DEF LinkDrop, Fault, Hangup
<1>30. CASE LinkSilent
      BY <1>30 DEF LinkSilent, Fault
<1>31. CASE UNCHANGED vars
      BY <1>31 DEF vars
<1> HIDE DEF ThreadInv, Served, threadVars, beatVars, flagVars,
            storeVars, mediaVars, wireVars, serverVars
<1> QED
  BY <1>1, <1>2, <1>3, <1>4, <1>5, <1>6, <1>7, <1>8, <1>9,
     <1>10, <1>11, <1>12, <1>13, <1>14, <1>15, <1>16, <1>17,
     <1>18, <1>19, <1>20, <1>21, <1>22, <1>23, <1>24, <1>25,
     <1>26, <1>27, <1>28, <1>29, <1>30, <1>31
     DEF Next, GatewayThread, HeartbeatThread, Discord

\* No session is known before it was issued.
LEMMA IssueStep ==
    ASSUME ConnTypeOK, ClientTypeOK, WireTypeOK, DiscordTypeOK, ThreadInv, IssueInv, Next \/ UNCHANGED vars
    PROVE  IssueInv'
<1> USE BoundsAssumption, FlagsAssumption
        DEF IssueInv, threadVars, beatVars, flagVars, storeVars,
            mediaVars, wireVars, serverVars
<1>1. CASE Start
      BY <1>1 DEF Start, DiscordTypeOK
<1>2. ASSUME NEW keep \in BOOLEAN, Stop(keep) PROVE IssueInv'
      BY <1>2 DEF Stop, Hangup, Fault
<1>3. CASE StopEnd
      BY <1>3 DEF StopEnd, EndMedia, DiscordTypeOK
<1>4. CASE Detach
      BY <1>4 DEF Detach, DiscordTypeOK
<1>5. CASE LoginDone
      BY <1>5 DEF LoginDone
<1>6. CASE ConnectOk
      BY <1>6 DEF ConnectOk, Where, DiscordTypeOK
<1>7. CASE ConnectFail
      BY <1>7 DEF ConnectFail, Fault
<1>8. CASE WaitDone
      BY <1>8 DEF WaitDone, NextBackoff
<1>9. CASE ThreadExit
      BY <1>9 DEF ThreadExit
<1>10. CASE LoopEnd
      BY <1>10 DEF LoopEnd, WantsResume, OwnsMedia, EndMedia, DiscordTypeOK
<1>11. CASE RecvHello
      BY <1>11 DEF RecvHello, Reading, Answer, ResumeFrom
<1>12. CASE TakeDispatch
      BY <1>12 DEF TakeDispatch, Reading
<1>13. CASE FoldDispatch
      BY <1>13 DEF FoldDispatch, HandleReady, OwnsMedia, EndMedia, BackoffReset
<1>14. CASE RecvResumed
      BY <1>14 DEF RecvResumed, Reading, BackoffReset
<1>15. CASE RecvReconnect
      BY <1>15 DEF RecvReconnect, Reading, Fault, Hangup
<1>16. ASSUME NEW d \in BOOLEAN, RecvInvalid(d) PROVE IssueInv'
      BY <1>16 DEF RecvInvalid, Reading, Fault, Hangup, SessionAfterInvalid,
              BackoffReset, DiscordTypeOK
<1>17. CASE RecvAck
      BY <1>17 DEF RecvAck, Reading
<1>18. CASE HbArm
      BY <1>18 DEF HbArm
<1>19. CASE HbTimeout
      BY <1>19 DEF HbTimeout, Fault, Unanswered
<1>20. CASE HbClose
      BY <1>20 DEF HbClose, Hangup
<1>21. CASE StartCall
      BY <1>21 DEF StartCall
<1>22. CASE HangUpCall
      BY <1>22 DEF HangUpCall, EndMedia
<1>23. CASE SrvIdentify
      BY <1>23 DEF SrvIdentify, DiscordTypeOK, ConnTypeOK, WireTypeOK,
              ClientTypeOK, Sessions
<1>24. CASE SrvDeny
      BY <1>24 DEF SrvDeny, Hangup
<1>25. CASE SrvResume
      BY <1>25 DEF SrvResume
<1>26. CASE SrvRefuse
      BY <1>26 DEF SrvRefuse
<1>27. ASSUME NEW s \in Sessions, SrvEvent(s) PROVE IssueInv'
      BY <1>27 DEF SrvEvent
<1>28. ASSUME NEW s \in Sessions, SrvExpire(s) PROVE IssueInv'
      BY <1>28 DEF SrvExpire, Fault
<1>29. CASE LinkDrop
      BY <1>29 DEF LinkDrop, Fault, Hangup
<1>30. CASE LinkSilent
      BY <1>30 DEF LinkSilent, Fault
<1>31. CASE UNCHANGED vars
      BY <1>31 DEF vars
<1> HIDE DEF IssueInv, threadVars, beatVars, flagVars, storeVars,
            mediaVars, wireVars, serverVars
<1> QED
  BY <1>1, <1>2, <1>3, <1>4, <1>5, <1>6, <1>7, <1>8, <1>9,
     <1>10, <1>11, <1>12, <1>13, <1>14, <1>15, <1>16, <1>17,
     <1>18, <1>19, <1>20, <1>21, <1>22, <1>23, <1>24, <1>25,
     <1>26, <1>27, <1>28, <1>29, <1>30, <1>31
     DEF Next, GatewayThread, HeartbeatThread, Discord

\* What the thread holds of its session is what Discord will continue from.
LEMMA SessionStep ==
    ASSUME ConnTypeOK, WireTypeOK, DiscordTypeOK, ThreadInv, IssueInv, SessionInv, Next \/ UNCHANGED vars
    PROVE  SessionInv'
<1> USE BoundsAssumption, FlagsAssumption
        DEF SessionInv, ThreadInv, Served, Home, threadVars, beatVars,
            flagVars, storeVars, mediaVars, wireVars, serverVars
<1>1. CASE Start
      BY <1>1 DEF Start
<1>2. ASSUME NEW keep \in BOOLEAN, Stop(keep) PROVE SessionInv'
      BY <1>2 DEF Stop, Hangup, Fault
<1>3. CASE StopEnd
      BY <1>3 DEF StopEnd, EndMedia
<1>4. CASE Detach
      BY <1>4 DEF Detach
<1>5. CASE LoginDone
      BY <1>5 DEF LoginDone
<1>6. CASE ConnectOk
      BY <1>6 DEF ConnectOk, Where, ConnTypeOK, WireTypeOK, DiscordTypeOK,
              IssueInv, Sessions
<1>7. CASE ConnectFail
      BY <1>7 DEF ConnectFail, Fault
<1>8. CASE WaitDone
      BY <1>8 DEF WaitDone, NextBackoff
<1>9. CASE ThreadExit
      BY <1>9 DEF ThreadExit
<1>10. CASE LoopEnd
  <2>1. UNCHANGED <<resume_url, sequence, dispatching, taken, close_status, wireVars,
                    serverVars>>
    BY <1>10 DEF LoopEnd
  <2>2. session_id' = 0 \/ session_id' = session_id
    BY <1>10 DEF LoopEnd
  <2>3. session_id' # 0 => want_resume'
    <3>1. session_id' # 0 => session_id' = session_id /\ sequence > 0
      BY <1>10, <2>2 DEF ConnTypeOK
    <3>2. want_resume' = WantsResume(session_id')
      BY <1>10 DEF LoopEnd
    <3> QED
      BY <3>1, <3>2 DEF WantsResume
  <2>4. pc = "recv" /\ phase = "none" /\ pc' \in {"wait", "exited"}
    BY <1>10 DEF LoopEnd
  <2> QED
    BY <2>1, <2>2, <2>3, <2>4
<1>11. CASE RecvHello
      BY <1>11 DEF RecvHello, Reading, Answer, ResumeFrom, ConnTypeOK,
              WireTypeOK, DiscordTypeOK, IssueInv, Sessions
<1>12. CASE TakeDispatch
      BY <1>12 DEF TakeDispatch, Reading, ConnTypeOK, WireTypeOK,
              DiscordTypeOK, IssueInv, Sessions
<1>13. CASE FoldDispatch
      BY <1>13 DEF FoldDispatch, HandleReady, OwnsMedia, EndMedia,
              BackoffReset, ConnTypeOK, WireTypeOK, DiscordTypeOK,
              IssueInv, Sessions
<1>14. CASE RecvResumed
      BY <1>14 DEF RecvResumed, Reading, BackoffReset
<1>15. CASE RecvReconnect
      BY <1>15 DEF RecvReconnect, Reading, Fault, Hangup
<1>16. ASSUME NEW d \in BOOLEAN, RecvInvalid(d) PROVE SessionInv'
      BY <1>16 DEF RecvInvalid, Reading, Fault, Hangup, SessionAfterInvalid,
              BackoffReset, ConnTypeOK, WireTypeOK, DiscordTypeOK,
              IssueInv, Sessions
<1>17. CASE RecvAck
      BY <1>17 DEF RecvAck, Reading
<1>18. CASE HbArm
      BY <1>18 DEF HbArm
<1>19. CASE HbTimeout
      BY <1>19 DEF HbTimeout, Fault, Unanswered
<1>20. CASE HbClose
      BY <1>20 DEF HbClose, Hangup
<1>21. CASE StartCall
      BY <1>21 DEF StartCall
<1>22. CASE HangUpCall
      BY <1>22 DEF HangUpCall, EndMedia
<1>23. CASE SrvIdentify
      BY <1>23 DEF SrvIdentify, ConnTypeOK, WireTypeOK, DiscordTypeOK,
              IssueInv, Sessions
<1>24. CASE SrvDeny
      BY <1>24 DEF SrvDeny, Hangup
<1>25. CASE SrvResume
      BY <1>25 DEF SrvResume, ConnTypeOK, WireTypeOK, DiscordTypeOK, IssueInv,
              Sessions
<1>26. CASE SrvRefuse
      BY <1>26 DEF SrvRefuse, ConnTypeOK, WireTypeOK, DiscordTypeOK, IssueInv,
              Sessions
<1>27. ASSUME NEW s \in Sessions, SrvEvent(s) PROVE SessionInv'
      BY <1>27 DEF SrvEvent
<1>28. ASSUME NEW s \in Sessions, SrvExpire(s) PROVE SessionInv'
      BY <1>28 DEF SrvExpire, Fault, ConnTypeOK, WireTypeOK, DiscordTypeOK,
              IssueInv, Sessions
<1>29. CASE LinkDrop
      BY <1>29 DEF LinkDrop, Fault, Hangup
<1>30. CASE LinkSilent
      BY <1>30 DEF LinkSilent, Fault
<1>31. CASE UNCHANGED vars
      BY <1>31 DEF vars
<1> HIDE DEF SessionInv, ThreadInv, Served, Home, threadVars, beatVars,
            flagVars, storeVars, mediaVars, wireVars, serverVars
<1> QED
  BY <1>1, <1>2, <1>3, <1>4, <1>5, <1>6, <1>7, <1>8, <1>9,
     <1>10, <1>11, <1>12, <1>13, <1>14, <1>15, <1>16, <1>17,
     <1>18, <1>19, <1>20, <1>21, <1>22, <1>23, <1>24, <1>25,
     <1>26, <1>27, <1>28, <1>29, <1>30, <1>31
     DEF Next, GatewayThread, HeartbeatThread, Discord

\* The dispatch in hand is the one the store expects next.
LEMMA StoreStep ==
    ASSUME ConnTypeOK, ClientTypeOK, WireTypeOK, DiscordTypeOK, ThreadInv, IssueInv, SessionInv, StoreInv, Next \/ UNCHANGED vars
    PROVE  StoreInv'
<1> USE BoundsAssumption, FlagsAssumption
        DEF StoreInv, SessionInv, ThreadInv, Served, threadVars,
            beatVars, flagVars, storeVars, mediaVars, wireVars,
            serverVars
<1>1. CASE Start
      BY <1>1 DEF Start, ConnTypeOK, ClientTypeOK, WireTypeOK, DiscordTypeOK,
              IssueInv, Sessions
<1>2. ASSUME NEW keep \in BOOLEAN, Stop(keep) PROVE StoreInv'
      BY <1>2 DEF Stop, Hangup, Fault
<1>3. CASE StopEnd
      BY <1>3 DEF StopEnd, EndMedia, ConnTypeOK, ClientTypeOK, WireTypeOK,
              DiscordTypeOK, IssueInv, Sessions
<1>4. CASE Detach
      BY <1>4 DEF Detach, ConnTypeOK, ClientTypeOK, WireTypeOK,
              DiscordTypeOK, IssueInv, Sessions
<1>5. CASE LoginDone
      BY <1>5 DEF LoginDone
<1>6. CASE ConnectOk
      BY <1>6 DEF ConnectOk, Where
<1>7. CASE ConnectFail
      BY <1>7 DEF ConnectFail, Fault
<1>8. CASE WaitDone
      BY <1>8 DEF WaitDone, NextBackoff
<1>9. CASE ThreadExit
      BY <1>9 DEF ThreadExit
<1>10. CASE LoopEnd
      BY <1>10 DEF LoopEnd, WantsResume, OwnsMedia, EndMedia, ConnTypeOK,
              ClientTypeOK, WireTypeOK, DiscordTypeOK, IssueInv, Sessions
<1>11. CASE RecvHello
      BY <1>11 DEF RecvHello, Reading, Answer, ResumeFrom
<1>12. CASE TakeDispatch
      BY <1>12 DEF TakeDispatch, Reading, ConnTypeOK, ClientTypeOK,
              WireTypeOK, DiscordTypeOK, IssueInv, Sessions
<1>13. CASE FoldDispatch
      BY <1>13 DEF FoldDispatch, HandleReady, OwnsMedia, EndMedia,
              BackoffReset, ConnTypeOK, ClientTypeOK, WireTypeOK,
              DiscordTypeOK, IssueInv, Sessions
<1>14. CASE RecvResumed
      BY <1>14 DEF RecvResumed, Reading, BackoffReset
<1>15. CASE RecvReconnect
      BY <1>15 DEF RecvReconnect, Reading, Fault, Hangup
<1>16. ASSUME NEW d \in BOOLEAN, RecvInvalid(d) PROVE StoreInv'
      BY <1>16 DEF RecvInvalid, Reading, Fault, Hangup, SessionAfterInvalid,
              BackoffReset, ConnTypeOK, ClientTypeOK, WireTypeOK,
              DiscordTypeOK, IssueInv, Sessions
<1>17. CASE RecvAck
      BY <1>17 DEF RecvAck, Reading
<1>18. CASE HbArm
      BY <1>18 DEF HbArm
<1>19. CASE HbTimeout
      BY <1>19 DEF HbTimeout, Fault, Unanswered
<1>20. CASE HbClose
      BY <1>20 DEF HbClose, Hangup
<1>21. CASE StartCall
      BY <1>21 DEF StartCall
<1>22. CASE HangUpCall
      BY <1>22 DEF HangUpCall, EndMedia
<1>23. CASE SrvIdentify
      BY <1>23 DEF SrvIdentify, ConnTypeOK, ClientTypeOK, WireTypeOK,
              DiscordTypeOK, IssueInv, Sessions
<1>24. CASE SrvDeny
      BY <1>24 DEF SrvDeny, Hangup
<1>25. CASE SrvResume
      BY <1>25 DEF SrvResume, ConnTypeOK, ClientTypeOK, WireTypeOK,
              DiscordTypeOK, IssueInv, Sessions
<1>26. CASE SrvRefuse
      BY <1>26 DEF SrvRefuse, ConnTypeOK, ClientTypeOK, WireTypeOK,
              DiscordTypeOK, IssueInv, Sessions
<1>27. ASSUME NEW s \in Sessions, SrvEvent(s) PROVE StoreInv'
      BY <1>27 DEF SrvEvent, ConnTypeOK, ClientTypeOK, WireTypeOK,
              DiscordTypeOK, IssueInv, Sessions
<1>28. ASSUME NEW s \in Sessions, SrvExpire(s) PROVE StoreInv'
      BY <1>28 DEF SrvExpire, Fault, ConnTypeOK, ClientTypeOK, WireTypeOK,
              DiscordTypeOK, IssueInv, Sessions
<1>29. CASE LinkDrop
      BY <1>29 DEF LinkDrop, Fault, Hangup
<1>30. CASE LinkSilent
      BY <1>30 DEF LinkSilent, Fault
<1>31. CASE UNCHANGED vars
      BY <1>31 DEF vars
<1> HIDE DEF StoreInv, SessionInv, ThreadInv, Served, threadVars,
            beatVars, flagVars, storeVars, mediaVars, wireVars,
            serverVars
<1> QED
  BY <1>1, <1>2, <1>3, <1>4, <1>5, <1>6, <1>7, <1>8, <1>9,
     <1>10, <1>11, <1>12, <1>13, <1>14, <1>15, <1>16, <1>17,
     <1>18, <1>19, <1>20, <1>21, <1>22, <1>23, <1>24, <1>25,
     <1>26, <1>27, <1>28, <1>29, <1>30, <1>31
     DEF Next, GatewayThread, HeartbeatThread, Discord

\* The call belongs to the session the thread holds, or that session is over.
LEMMA MediaStep ==
    ASSUME ~MayHold, ConnTypeOK, ClientTypeOK, WireTypeOK, DiscordTypeOK, ThreadInv, IssueInv, SessionInv, StoreInv, MediaInv, Next \/ UNCHANGED vars
    PROVE  MediaInv'
<1> USE BoundsAssumption, FlagsAssumption
        DEF MediaInv, SessionInv, ThreadInv, Served, threadVars,
            beatVars, flagVars, storeVars, mediaVars, wireVars,
            serverVars
<1>1. CASE Start
      BY <1>1 DEF Start
<1>2. ASSUME NEW keep \in BOOLEAN, Stop(keep) PROVE MediaInv'
      BY <1>2 DEF Stop, Hangup, Fault
<1>3. CASE StopEnd
      BY <1>3 DEF StopEnd, EndMedia
<1>4. CASE Detach
      BY <1>4 DEF Detach
<1>5. CASE LoginDone
      BY <1>5 DEF LoginDone
<1>6. CASE ConnectOk
      BY <1>6 DEF ConnectOk, Where
<1>7. CASE ConnectFail
      BY <1>7 DEF ConnectFail, Fault
<1>8. CASE WaitDone
      BY <1>8 DEF WaitDone, NextBackoff
<1>9. CASE ThreadExit
      BY <1>9 DEF ThreadExit
<1>10. CASE LoopEnd
      BY <1>10 DEF LoopEnd, WantsResume, OwnsMedia, EndMedia, ConnTypeOK,
              ClientTypeOK, WireTypeOK, DiscordTypeOK, IssueInv, Sessions
<1>11. CASE RecvHello
      BY <1>11 DEF RecvHello, Reading, Answer, ResumeFrom
<1>12. CASE TakeDispatch
      BY <1>12 DEF TakeDispatch, Reading, ConnTypeOK, ClientTypeOK,
              WireTypeOK, DiscordTypeOK, IssueInv, Sessions
<1>13. CASE FoldDispatch
      BY <1>13 DEF FoldDispatch, HandleReady, OwnsMedia, EndMedia,
              BackoffReset, ConnTypeOK, ClientTypeOK, WireTypeOK,
              DiscordTypeOK, IssueInv, Sessions
<1>14. CASE RecvResumed
      BY <1>14 DEF RecvResumed, Reading, BackoffReset, ConnTypeOK,
              ClientTypeOK, WireTypeOK, DiscordTypeOK, IssueInv, Sessions
<1>15. CASE RecvReconnect
      BY <1>15 DEF RecvReconnect, Reading, Fault, Hangup
<1>16. ASSUME NEW d \in BOOLEAN, RecvInvalid(d) PROVE MediaInv'
      BY <1>16 DEF RecvInvalid, Reading, Fault, Hangup, SessionAfterInvalid,
              BackoffReset, ConnTypeOK, ClientTypeOK, WireTypeOK,
              DiscordTypeOK, IssueInv, Sessions
<1>17. CASE RecvAck
      BY <1>17 DEF RecvAck, Reading
<1>18. CASE HbArm
      BY <1>18 DEF HbArm
<1>19. CASE HbTimeout
      BY <1>19 DEF HbTimeout, Fault, Unanswered
<1>20. CASE HbClose
      BY <1>20 DEF HbClose, Hangup
<1>21. CASE StartCall
      BY <1>21 DEF StartCall, ConnTypeOK, ClientTypeOK, WireTypeOK,
              DiscordTypeOK, IssueInv, Sessions
<1>22. CASE HangUpCall
      BY <1>22 DEF HangUpCall, EndMedia
<1>23. CASE SrvIdentify
      BY <1>23 DEF SrvIdentify, ConnTypeOK, ClientTypeOK, WireTypeOK,
              DiscordTypeOK, IssueInv, Sessions
<1>24. CASE SrvDeny
      BY <1>24 DEF SrvDeny, Hangup
<1>25. CASE SrvResume
      BY <1>25 DEF SrvResume, ConnTypeOK, ClientTypeOK, WireTypeOK,
              DiscordTypeOK, IssueInv, Sessions
<1>26. CASE SrvRefuse
      BY <1>26 DEF SrvRefuse
<1>27. ASSUME NEW s \in Sessions, SrvEvent(s) PROVE MediaInv'
      BY <1>27 DEF SrvEvent
<1>28. ASSUME NEW s \in Sessions, SrvExpire(s) PROVE MediaInv'
      BY <1>28 DEF SrvExpire, Fault, ConnTypeOK, ClientTypeOK, WireTypeOK,
              DiscordTypeOK, IssueInv, Sessions
<1>29. CASE LinkDrop
      BY <1>29 DEF LinkDrop, Fault, Hangup
<1>30. CASE LinkSilent
      BY <1>30 DEF LinkSilent, Fault
<1>31. CASE UNCHANGED vars
      BY <1>31 DEF vars
<1> HIDE DEF MediaInv, SessionInv, ThreadInv, Served, threadVars,
            beatVars, flagVars, storeVars, mediaVars, wireVars,
            serverVars
<1> QED
  BY <1>1, <1>2, <1>3, <1>4, <1>5, <1>6, <1>7, <1>8, <1>9,
     <1>10, <1>11, <1>12, <1>13, <1>14, <1>15, <1>16, <1>17,
     <1>18, <1>19, <1>20, <1>21, <1>22, <1>23, <1>24, <1>25,
     <1>26, <1>27, <1>28, <1>29, <1>30, <1>31
     DEF Next, GatewayThread, HeartbeatThread, Discord

--------------------------------------------------------------------------------
\* Nothing is issued, served or folded at first.
LEMMA InitInv ==
    ASSUME Init
    PROVE  SessionIndInv /\ MediaInv
<1> USE BoundsAssumption DEF Init
<1>1. TypeOK
  <2>1. FlagsTypeOK
    BY Zenon DEF FlagsTypeOK
  <2>2. ConnTypeOK /\ ClientTypeOK /\ WireTypeOK
    BY DEF ConnTypeOK, ClientTypeOK, WireTypeOK, BackoffSteps
  <2>3. DiscordTypeOK
    BY DEF DiscordTypeOK, Sessions
  <2> QED
    BY <2>1, <2>2, <2>3 DEF TypeOK
<1>2. ThreadInv /\ IssueInv
  BY DEF ThreadInv, IssueInv, Served
<1>3. SessionInv /\ StoreInv /\ MediaInv
  BY DEF SessionInv, StoreInv, MediaInv, Served
<1> QED
  BY <1>1, <1>2, <1>3 DEF SessionIndInv

\* The invariant is inductive, held connection or not.
LEMMA IndStep ==
    ASSUME SessionIndInv, [Next]_vars
    PROVE  SessionIndInv'
<1> USE DEF SessionIndInv
<1>1. FlagsTypeOK' /\ ConnTypeOK' /\ ClientTypeOK' /\ WireTypeOK' /\ DiscordTypeOK'
  BY FlagsTypeStep, ConnTypeStep, ClientTypeStep, WireTypeStep, DiscordTypeStep
     DEF TypeOK
<1>2. ThreadInv' /\ IssueInv'
  BY ThreadStep, IssueStep DEF TypeOK
<1>3. SessionInv' /\ StoreInv'
  BY SessionStep, StoreStep DEF TypeOK
<1> QED
  BY <1>1, <1>2, <1>3 DEF TypeOK

\* The invariant holds in every behaviour.
LEMMA IndInvariant == Spec => []SessionIndInv
<1>1. Init => SessionIndInv
  BY InitInv
<1>2. SessionIndInv /\ [Next]_vars => SessionIndInv'
  BY IndStep
<1> QED
  BY <1>1, <1>2, PTL DEF Spec

\* gw_conn, the store, the call and the wire never leave their types: the
\* backoff of gateway_thread is always one of seven values, and a sequence is
\* never one Discord did not send.
THEOREM TypeCorrect == Spec => []TypeOK
<1>1. SessionIndInv => TypeOK
  BY DEF SessionIndInv
<1> QED
  BY IndInvariant, <1>1, PTL

\* A connection in front identifies, and so throws the store away, only when
\* Discord has given up the session the store was built from: HELLO's choice
\* between RESUME and IDENTIFY never forgets a session that is still there.
THEOREM IdentifiesOnlyWhenLost == Spec => []NeverAbandons
<1>1. SessionIndInv => NeverAbandons
  <2> SUFFICES ASSUME SessionIndInv, phase = "asked", req_session = 0, dispatching
               PROVE  store_session \notin live
    BY DEF NeverAbandons
  <2>1. session_id = 0 /\ pc # "off"
    BY DEF SessionIndInv, SessionInv, ThreadInv
  <2> QED
    BY <2>1 DEF SessionIndInv, StoreInv
<1> QED
  BY IndInvariant, <1>1, PTL

--------------------------------------------------------------------------------
(* A connection that is never left holding a call *)

\* The call's part of the invariant, where no connection is ever detached.
LEMMA MediaInvariant ==
    ASSUME ~MayHold
    PROVE  Spec => [](SessionIndInv /\ MediaInv)
<1>1. Init => SessionIndInv /\ MediaInv
  BY InitInv
<1>2. SessionIndInv /\ MediaInv /\ [Next]_vars => (SessionIndInv /\ MediaInv)'
  BY IndStep, MediaStep DEF SessionIndInv, TypeOK
<1> QED
  BY <1>1, <1>2, PTL DEF Spec

\* What a step does to the store is a step of the stream, or nothing.
LEMMA StreamStep ==
    ASSUME ~MayHold, SessionIndInv, MediaInv, [Next]_vars
    PROVE  [Stream!StreamNext]_(Stream!streamVars)
<1> USE DEF Stream!StreamNext, Stream!streamVars, storeVars
<1>1. CASE FoldDispatch
  <2>1. /\ store_session' = taken /\ store_seq' = sequence
        /\ pc = "fold" /\ taken \in Nat \ {0}
    BY <1>1 DEF FoldDispatch, SessionIndInv, ThreadInv, Sessions
  <2>2. CASE sequence = 1
    <3>1. store_session < taken
      BY <2>1, <2>2 DEF SessionIndInv, StoreInv, MediaInv
    <3>2. store_session \in Nat
      BY BoundsAssumption DEF SessionIndInv, TypeOK, ClientTypeOK, Sessions
    <3> QED
      BY <2>1, <2>2, <3>1, <3>2 DEF Stream!Begin
  <2>3. CASE sequence # 1
    <3>1. store_session = taken /\ sequence = store_seq + 1
      BY <2>1, <2>3 DEF SessionIndInv, StoreInv, MediaInv
    <3> QED
      BY <2>1, <3>1 DEF Stream!Fold
  <2> QED
    BY <2>2, <2>3
<1>2. CASE Start
  BY <1>2 DEF Start, Stream!Forget
<1>3. CASE StopEnd
  BY <1>3 DEF StopEnd, Stream!Forget
<1>4. ASSUME ~FoldDispatch, ~Start, ~StopEnd
      PROVE  UNCHANGED storeVars
  <2>1. CASE UNCHANGED vars
    BY <2>1 DEF vars
  <2>2. CASE GatewayThread
    BY <1>4, <2>2
       DEF GatewayThread, ConnectOk, WaitDone, ThreadExit, LoopEnd, RecvHello,
           TakeDispatch, RecvResumed, RecvInvalid
  <2>3. CASE HeartbeatThread \/ Discord
    BY <2>3 DEF HeartbeatThread, HbArm, HbTimeout, HbClose, Discord, SrvIdentify,
                SrvDeny, SrvResume, SrvRefuse
  <2>4. ASSUME NEW keep \in BOOLEAN, Stop(keep)
        PROVE  UNCHANGED storeVars
    BY <2>4 DEF Stop
  <2>5. ASSUME NEW s \in Sessions, SrvEvent(s) \/ SrvExpire(s)
        PROVE  UNCHANGED storeVars
    BY <2>5 DEF SrvEvent, SrvExpire
  <2>6. CASE ConnectFail \/ RecvReconnect \/ RecvInvalid(TRUE) \/ RecvAck
    BY <2>6 DEF ConnectFail, RecvReconnect, RecvInvalid, RecvAck
  <2>7. CASE LoginDone \/ StartCall \/ HangUpCall \/ LinkDrop \/ LinkSilent
    BY <2>7 DEF LoginDone, StartCall, HangUpCall, LinkDrop, LinkSilent
  <2>8. ~Detach
    BY ~MayHold DEF Detach
  <2> QED
    BY <1>4, <2>1, <2>2, <2>3, <2>4, <2>5, <2>6, <2>7, <2>8 DEF Next
<1> QED
  BY <1>1, <1>2, <1>3, <1>4

\* Connections drop, fall silent, are refused and resumed, and the store still
\* sees each dispatch of one session at a time, once and in order.
THEOREM StoreImplementsStream ==
    ASSUME ~MayHold
    PROVE  Spec => StoreFollowsStream
<1>1. Init => Stream!StreamInit
  BY DEF Init, Stream!StreamInit
<1>2. SessionIndInv /\ MediaInv /\ [Next]_vars
        => [Stream!StreamNext]_(Stream!streamVars)
  BY StreamStep
<1> QED
  BY <1>1, <1>2, MediaInvariant, PTL DEF Spec, StoreFollowsStream, Stream!StreamSpec

\* Once a session is served past its READY, a call that is up belongs to it:
\* LoopEnd and handle_ready leave no call behind on a session that is gone.
THEOREM CallBelongsToSession ==
    ASSUME ~MayHold
    PROVE  Spec => []MediaFollowsSession
<1>1. SessionIndInv /\ MediaInv => MediaFollowsSession
  <2> SUFFICES ASSUME SessionIndInv, MediaInv, phase = "serve", pc = "recv",
                      next > 1, media = "live"
               PROVE  call_session = bound
    BY DEF MediaFollowsSession
  <2>1. session_id # 0 /\ bound = session_id
    BY DEF SessionIndInv, SessionInv, MediaInv, Served
  <2> QED
    BY <2>1 DEF MediaInv
<1> QED
  BY <1>1, MediaInvariant, PTL

\* A working connection starts over from a second: whatever the backoff grew
\* to, READY and RESUMED both put it back.
THEOREM WorkingBackoff ==
    ASSUME ~MayHold
    PROVE  Spec => []WorkingMeansSecond
<1>1. SessionIndInv /\ MediaInv => WorkingMeansSecond
  BY DEF MediaInv, WorkingMeansSecond
<1> QED
  BY <1>1, MediaInvariant, PTL

\* LoopEnd and handle_ready end a call only after its session: a socket that is
\* about to be resumed takes no call with it.
THEOREM SocketLossSparesCall ==
    ASSUME ~MayHold
    PROVE  Spec => CallSurvivesSocket
<1>1. SessionIndInv /\ MediaInv /\ [Next]_vars
        => [LoopEnd \/ FoldDispatch
              => (media = "live" /\ media' = "none" => call_session \notin live)]_vars
  <2> SUFFICES ASSUME SessionIndInv, MediaInv, LoopEnd \/ FoldDispatch,
                      media = "live", media' = "none"
               PROVE  call_session \notin live
    OBVIOUS
  <2>1. CASE LoopEnd
    <3>1. session_id = 0
      <4>1. SUFFICES ASSUME session_id # 0 PROVE FALSE
        OBVIOUS
      <4>2. sequence > 0 /\ close_status # 4014
        BY <4>1 DEF SessionIndInv, SessionInv, TypeOK, ConnTypeOK
      <4>3. WantsResume(session_id)
        BY <4>1, <4>2 DEF WantsResume
      <4> QED
        BY <2>1, <4>2, <4>3 DEF LoopEnd, mediaVars
    <3> QED
      BY <3>1 DEF MediaInv
  <2>2. CASE FoldDispatch
    <3>1. pc = "fold" /\ sequence = 1
      BY <2>2 DEF FoldDispatch, mediaVars
    <3>2. session_id = 0
      BY <3>1 DEF SessionIndInv, SessionInv
    <3> QED
      BY <3>1, <3>2 DEF MediaInv
  <2> QED
    BY <2>1, <2>2
<1> QED
  BY <1>1, MediaInvariant, PTL DEF Spec, CallSurvivesSocket
================================================================================
