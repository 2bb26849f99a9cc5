-------------------------- MODULE MCDaveTransitions --------------------------
EXTENDS DaveTransitions
=============================================================================
