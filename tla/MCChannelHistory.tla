--------------------------- MODULE MCChannelHistory ---------------------------
(***************************************************************************)
(* Three messages, a page of one and fills of one or two pages: the least  *)
(* with a hole between two messages that are held, a fill that stops short *)
(* of the far side and one that gets there.                                *)
(***************************************************************************)
EXTENDS ChannelHistory

MCBudgets == {1, 0}
================================================================================
