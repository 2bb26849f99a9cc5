----------------------------- MODULE MCGroupTree -----------------------------
EXTENDS GroupTree, TLC

CONSTANTS a, b, c, d

MCUsers4 == {a, b, c, d}
Symmetry4 == Permutations(MCUsers4)

\* People who are out or wait to be let in while a member still seats them.
Away == {u \in Users \ Members : \E m \in Members : Seats(member[m].tree, u) # {}}
Waiting == {u \in Users : member[u].status = "waiting"}

\* Between two commits, so many of the people who are owed one as commits are
\* left to be made. A spoilt commit is followed to the end of its round.
StillFollowed ==
    /\ Quiet /\ ~spoilt => Cardinality(Away) + Cardinality(Waiting) <= MaxEpoch - epoch
    /\ spoilt => commit # None
=============================================================================
