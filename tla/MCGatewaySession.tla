--------------------------- MODULE MCGatewaySession ----------------------------
(***************************************************************************)
(* GatewaySession for TLC.  A fault is what makes a new session, a lost    *)
(* socket or a sign-out, so MaxFaults bounds the length of the story:      *)
(* three is a drop, a refused resume and one more during the recovery.     *)
(***************************************************************************)
EXTENDS GatewaySession
================================================================================
