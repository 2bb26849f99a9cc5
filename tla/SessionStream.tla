----------------------------- MODULE SessionStream -----------------------------
(***************************************************************************)
(* What the gateway promises the rest of the client about one account: the *)
(* store sees the dispatches of one session at a time, from READY (the     *)
(* first) onwards, each exactly once and in order.  A session is left only *)
(* for another one, which again begins at its READY, or by signing out.    *)
(*                                                                         *)
(* GatewaySession implements this over connections that drop, time out and *)
(* are resumed.                                                            *)
(***************************************************************************)
EXTENDS Naturals

VARIABLES
    session,    \* the session the store was built from, 0 when it is empty
    applied     \* how many of that session's dispatches were folded into it

streamVars == <<session, applied>>

StreamInit == session = 0 /\ applied = 0

\* A READY: the store is rebuilt from another session's first dispatch.
Begin ==
    /\ session' \in Nat \ {0, session}
    /\ applied' = 1

\* The next dispatch of the session, and only the next one.
Fold ==
    /\ session # 0
    /\ applied' = applied + 1
    /\ UNCHANGED session

\* Signing out empties the store.
Forget ==
    /\ session' = 0
    /\ applied' = 0

StreamNext ==
    \/ Begin
    \/ Fold
    \/ Forget

StreamSpec == StreamInit /\ [][StreamNext]_streamVars
================================================================================
