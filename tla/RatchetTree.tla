------------------------------ MODULE RatchetTree ------------------------------
(***************************************************************************)
(* The left balanced tree of an MLS group: the index arithmetic of         *)
(* dave/mls_tree.cpp, and what dave/mls_group.cpp does to the tree that a  *)
(* member keeps: leaves are taken and freed, parents are rekeyed by an     *)
(* UpdatePath and remember the leaves added under them since.              *)
(*                                                                         *)
(* A tree is a record                                                      *)
(*   count   leaf_count, the allocated width, blanks included              *)
(*   leaf    per index, who sits there, or Blank                           *)
(*   parent  per node, the key it was last rekeyed with and its unmerged   *)
(*           leaves, or Blank                                              *)
(* Keys, hashes and signatures are values compared for equality; a parent  *)
(* hash follows from the keys written in the same step and is left out.    *)
(***************************************************************************)
EXTENDS Integers, Sequences, FiniteSets, SequencesExt

CONSTANTS
    MAX_MEMBERS,     \* leaves a tree can have (64 in the code)
    MAX_UNMERGED,    \* unmerged leaves a parent can list (32 in the code)
    Blank            \* an empty leaf or parent

\* What a one shifted left so often is.
Pow2[k \in Nat] == IF k = 0 THEN 1 ELSE 2 * Pow2[k - 1]

ASSUME MembersAssumption ==
    /\ MAX_MEMBERS \in Nat \ {0} /\ \E k \in 1 .. MAX_MEMBERS : MAX_MEMBERS = Pow2[k]
    /\ MAX_UNMERGED \in Nat \ {0}

MAX_NODES == 2 * MAX_MEMBERS
Leaves == 0 .. MAX_MEMBERS - 1
Nodes == 0 .. MAX_NODES - 1

-----------------------------------------------------------------------------
(* mls_tree.cpp. The exclusive ors there flip bits whose value is known, so   *)
(* they are additions and subtractions here.                                  *)

LeafToNode(leaf) == 2 * leaf
NodeToLeaf(node) == node \div 2
IsLeaf(node) == node % 2 = 0

\* The number of trailing one bits.
Level == [node \in Nodes |->
    CHOOSE k \in 0 .. node + 1 : /\ (node + 1) % Pow2[k] = 0
                                 /\ (node + 1) % Pow2[k + 1] # 0]

NodeWidth(count) == IF count = 0 THEN 0 ELSE 2 * (count - 1) + 1

Root(count) ==
    LET w == NodeWidth(count)
        k == CHOOSE j \in 0 .. w : Pow2[j] <= w /\ w < Pow2[j + 1]
    IN  Pow2[k] - 1

Left == [node \in Nodes |-> node - Pow2[Level[node] - 1]]
Right == [node \in Nodes |-> node + Pow2[Level[node] - 1]]

Parent == [node \in Nodes |->
    LET k == Level[node]
    IN  IF (node \div Pow2[k + 1]) % 2 = 0 THEN node + Pow2[k] ELSE node - Pow2[k]]

Sibling == [node \in Nodes |->
    IF node < Parent[node] THEN Right[Parent[node]] ELSE Left[Parent[node]]]

\* The walk from a node up to and including the root of so many leaves.
Climb(node, count) ==
    LET steps == Level[Root(count)] - Level[node]
        at[i \in 0 .. steps] == IF i = 0 THEN node ELSE Parent[at[i - 1]]
    IN  [i \in 1 .. steps + 1 |-> at[i - 1]]

DirectPath == [node \in Nodes |-> [count \in 1 .. MAX_MEMBERS |->
    SubSeq(Climb(node, count), 2, Len(Climb(node, count)))]]

\* The sibling of every step of the walk but the last, which is the root.
Copath == [node \in Nodes |-> [count \in 1 .. MAX_MEMBERS |->
    [i \in 1 .. Len(Climb(node, count)) - 1 |-> Sibling[Climb(node, count)[i]]]]]

\* in_subtree(): the nodes a node has below it, itself included.
Under == [node \in Nodes |->
    LET k == Level[node]
    IN  IF k = 0 THEN {node} ELSE (node + 1 - Pow2[k]) .. (node - 1 + Pow2[k])]

\* Of two leaves: both indices are shifted until they meet.
CommonAncestor(a, b) ==
    IF a = b THEN a
    ELSE LET k == CHOOSE j \in 1 .. a + b : /\ a \div Pow2[j] = b \div Pow2[j]
                                            /\ a \div Pow2[j - 1] # b \div Pow2[j - 1]
         IN  (a \div Pow2[k]) * Pow2[k] + Pow2[k - 1] - 1

-----------------------------------------------------------------------------
(* mls_group.cpp: the tree a member keeps.                                    *)

NewTree(first) ==
    [count  |-> 1,
     leaf   |-> [i \in Leaves |-> IF i = 0 THEN first ELSE Blank],
     parent |-> [n \in Nodes |-> Blank]]

\* What compute_tree_hash covers: everything under the root.
TreeHash(t) ==
    [root   |-> Root(t.count),
     leaf   |-> {<<i, t.leaf[i]>> : i \in {j \in 0 .. t.count - 1 : t.leaf[j] # Blank}},
     parent |-> {<<n, t.parent[n]>> :
                    n \in {m \in Nodes : ~IsLeaf(m) /\ t.parent[m] # Blank
                                         /\ m \in Under[Root(t.count)]}}]

\* Nobody free and nowhere to grow: allocate_leaf gives 0xFFFFFFFF.
TreeFull(t) == t.count >= MAX_MEMBERS /\ \A i \in 0 .. t.count - 1 : t.leaf[i] # Blank

\* The lowest free leaf, or one more than there were.
AllocateLeaf(t) ==
    IF \E i \in 0 .. t.count - 1 : t.leaf[i] = Blank
    THEN CHOOSE i \in 0 .. t.count - 1 :
            t.leaf[i] = Blank /\ \A j \in 0 .. i - 1 : t.leaf[j] # Blank
    ELSE t.count

AddUnmergedLeafNever(t, leaf) == t

\* Every rekeyed parent above the new leaf lists it as unmerged; a blank one
\* has no list, and a full list takes no more.
AddUnmergedLeaf(t, leaf) ==
    LET above == ToSet(DirectPath[LeafToNode(leaf)][t.count])
        lists(n) == /\ n \in above
                    /\ t.parent[n] # Blank
                    /\ Cardinality(t.parent[n].unmerged) < MAX_UNMERGED
    IN  [t EXCEPT !.parent = [n \in Nodes |->
            IF lists(n)
            THEN [t.parent[n] EXCEPT !.unmerged = @ \union {leaf}]
            ELSE t.parent[n]]]

AddLeaf(t, who) ==
    LET i == AllocateLeaf(t)
    IN  AddUnmergedLeaf([t EXCEPT !.leaf[i] = who,
                                  !.count = IF i = @ THEN @ + 1 ELSE @], i)

-----------------------------------------------------------------------------
(* TreeKEM: who is addressed by a path, and in which order.                   *)

\* The members of a set of numbers, the least first, as a loop over an index
\* meets them.
InOrder(S) ==
    [k \in 1 .. Cardinality(S) |->
        CHOOSE x \in S : Cardinality({y \in S : y < x}) = k - 1]

\* What stands for a head: the node, and after a parent its unmerged leaves.
Entry(t, n) ==
    IF IsLeaf(n) THEN <<n>>
    ELSE <<n>> \o InOrder({LeafToNode(i) : i \in t.parent[n].unmerged})

Entries(t, heads) == FlattenSeq([i \in DOMAIN heads |-> Entry(t, heads[i])])

\* resolution(): a rekeyed parent stands for its subtree, a blank one hands the
\* question down, left half first. Only the nodes of `within` are asked.
Heads(t, node, within) ==
    LET asked == Under[node] \intersect within
        open == {n \in asked : ~IsLeaf(n) /\ t.parent[n] = Blank}
        \* reached when every node from `node` down to its parent hands down
        reached == {n \in asked : \A m \in Under[node] : n \in Under[m] \ {m} => m \in open}
    IN  {n \in reached : IF IsLeaf(n) THEN t.leaf[NodeToLeaf(n)] # Blank
                                      ELSE t.parent[n] # Blank}

ResolutionIn(t, node, within) == Entries(t, InOrder(Heads(t, node, within)))

\* A node past the width of the array answers with nobody, whatever is below.
Resolution(t, node) == ResolutionIn(t, node, 0 .. NodeWidth(t.count) - 1)

AtLevels(path, copath, levels) ==
    [i \in DOMAIN levels |-> [node |-> path[levels[i]], copath |-> copath[levels[i]]]]

\* The levels of the direct path whose other side is somebody.
FilteredDirectPath(t, node) ==
    LET path == DirectPath[node][t.count]
        copath == Copath[node][t.count]
    IN  AtLevels(path, copath, InOrder({i \in DOMAIN path : Resolution(t, copath[i]) # <<>>}))
=============================================================================
