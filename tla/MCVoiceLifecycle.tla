--------------------------- MODULE MCVoiceLifecycle ---------------------------
EXTENDS VoiceLifecycle
MCChannels == {1, 2}

\* Both properties of voice_calls are about what came before: once one of these
\* has happened they say nothing more, and nothing more is explored.
StillJudged == ~overtook /\ ~leftBehind
===============================================================================
