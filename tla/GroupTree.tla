------------------------------- MODULE GroupTree -------------------------------
(***************************************************************************)
(* The members of an MLS group and the tree each of them keeps, as         *)
(* dave/mls_group.cpp keeps it: proposals arrive in batches, one member    *)
(* turns them into a commit, every other member applies it to the tree it  *)
(* has, and whoever is let in rebuilds the tree from the welcome.          *)
(*                                                                         *)
(* The members share nothing. What keeps them able to hear one another is  *)
(* that each of them gets to the same tree by its own steps: the tree is   *)
(* hashed into the keys, and the confirmation tag of the commit tells a    *)
(* member whether its hash is the author's.                                *)
(*                                                                         *)
(* A commit with an UpdatePath is never written by this code, only read.   *)
(* Its author is another implementation, modelled by the rules the reader  *)
(* applies: it addresses what Resolution says.                             *)
(***************************************************************************)
EXTENDS RatchetTree

CONSTANTS
    Users,           \* the people; one leaf each, as long as all goes well
    MaxEpoch,        \* bound: commits made
    MaxBatch         \* bound: proposals in one op 27

ASSUME GroupAssumption ==
    /\ MaxEpoch \in Nat /\ MaxBatch \in Nat
    /\ Blank \notin [user : Users, package : 0 .. MaxEpoch]
    /\ Blank \notin [key : 1 .. MaxEpoch, unmerged : SUBSET Leaves]

VARIABLES
    epoch,           \* epoch of the last commit
    member,          \* per user: the group_state it holds
    proposals,       \* op 27: the batch everybody was sent, not committed yet
    commit,          \* the commit being handed round, or None
    refused,         \* users process_commit or process_welcome said no to
    spoilt           \* history: a commit was made that not everybody can follow

vars == <<epoch, member, proposals, commit, refused, spoilt>>

None == [adds |-> {}]

In(u) == member[u].status = "in"
Members == {u \in Users : In(u)}

\* A leaf is a key package: whose it is, and which of theirs. The signature
\* key in it is made once, so two packages of one person differ only in the
\* epoch that asked for them.
Leaf(u, e) == [user |-> u, package |-> e]
Seats(t, u) == {i \in Leaves : t.leaf[i] # Blank /\ t.leaf[i].user = u}

\* node_private: a key is named by the epoch that made it; nothing held is 0.
NothingHeld == [n \in Nodes |-> 0]

\* create_group clears the whole structure and starts a group of one. The
\* first of a call is in it; everybody else waits with it for a welcome.
CreateGroup(u, status, e) ==
    [status |-> status, epoch |-> 0, tree |-> NewTree(Leaf(u, e)), myLeaf |-> 0,
     private |-> NothingHeld]

\* A user without a connection: the structure is left as it was, and of that
\* only the keys of the nodes survive what happens next.
Out(held) == [status |-> "out", private |-> held]

\* A call of two: the first made the group and let the second in.
Init ==
    /\ epoch = 0
    /\ \E u, v \in Users :
          LET tree == AddLeaf(NewTree(Leaf(u, 0)), Leaf(v, 0))
          IN  /\ u # v
              /\ member = [w \in Users |->
                     CASE w = u -> [CreateGroup(u, "in", 0) EXCEPT !.tree = tree]
                       [] w = v -> [CreateGroup(v, "in", 0) EXCEPT !.tree = tree, !.myLeaf = 1]
                       [] OTHER -> Out(NothingHeld)]
    /\ proposals = <<>>
    /\ commit = None
    /\ refused = {}
    /\ spoilt = FALSE

-----------------------------------------------------------------------------
(* The server (external): it proposes who comes and who goes, to everybody at *)
(* once, and waits until a commit has gone round before the next batch.       *)

Quiet == proposals = <<>> /\ commit = None /\ refused = {}

AddOf(u) == [type |-> "add", leaf |-> member[u].tree.leaf[0]]
RemoveOf(i) == [type |-> "remove", index |-> i]

Joiners == {u \in Users : member[u].status = "waiting"}
Leavers == UNION {Seats(member[m].tree, u) : m \in Members, u \in Users}

SendKeyPackageKeepingKeys(u) ==
    /\ Quiet /\ epoch < MaxEpoch
    /\ member[u].status = "out"
    /\ member' = [member EXCEPT ![u] = [CreateGroup(u, "waiting", epoch + 1) EXCEPT
                                            !.private = member[u].private]]
    /\ UNCHANGED <<epoch, proposals, commit, refused, spoilt>>

\* send_key_package, when the external sender arrives: a package, and a group
\* of one built from it.
SendKeyPackage(u) ==
    /\ Quiet /\ epoch < MaxEpoch
    /\ member[u].status = "out"
    /\ member' = [member EXCEPT ![u] = CreateGroup(u, "waiting", epoch + 1)]
    /\ UNCHANGED <<epoch, proposals, commit, refused, spoilt>>

Propose ==
    /\ Quiet /\ epoch < MaxEpoch
    /\ LET offers == {AddOf(u) : u \in Joiners} \union {RemoveOf(i) : i \in Leavers}
       IN  \E batch \in UNION {[1 .. n -> offers] : n \in 1 .. MaxBatch} :
              /\ \A i, j \in DOMAIN batch : i # j => batch[i] # batch[j]
              /\ proposals' = batch
    /\ UNCHANGED <<epoch, member, commit, refused, spoilt>>

\* Somebody's connection ends without a word: their leaf stays until a remove
\* of it is committed.
Vanish(u) ==
    /\ Quiet
    /\ In(u) /\ Members # {u}
    /\ member' = [member EXCEPT ![u] = Out(@.private)]
    /\ UNCHANGED <<epoch, proposals, commit, refused, spoilt>>

-----------------------------------------------------------------------------
(* mls::build_commit                                                          *)

\* The proposals it names, each at its place in the batch: not the remove of a
\* leaf that is not there, and not its own.
Names(g, p) == \/ p.type = "add"
               \/ /\ p.type = "remove"
                  /\ g.tree.leaf[p.index] # Blank
                  /\ p.index # g.myLeaf

Named(g) == [i \in {j \in DOMAIN proposals : Names(g, proposals[j])} |-> proposals[i]]

\* The places of the adds among references, and the leaves they remove.
AddsOf(refs) == {i \in DOMAIN refs : refs[i].type = "add"}
Removed(refs) == {refs[i].index : i \in {j \in DOMAIN refs : refs[j].type = "remove"}}

\* The first leaf other than our own that a person being added already has.
StaleLeaf(g, u) ==
    LET theirs == Seats(g.tree, u) \ {g.myLeaf}
    IN  IF theirs = {} THEN {} ELSE {CHOOSE i \in theirs : \A j \in theirs : i <= j}

\* What is cleared: the removes it names, and the stale leaves it does not.
CommittedRemoves(g) ==
    LET named == Named(g)
    IN  Removed(named) \union UNION {StaleLeaf(g, named[i].leaf.user) : i \in AddsOf(named)}

\* One add; [ok FALSE] when the tree has no room left.
AddOne(had, leaf) ==
    IF ~had.ok \/ TreeFull(had.tree) THEN [had EXCEPT !.ok = FALSE]
    ELSE [had EXCEPT !.tree = AddLeaf(had.tree, leaf)]

\* The adds among references, one after the other; after[k] is what the first k
\* places give.
AddAll(start, refs) ==
    LET after[k \in 0 .. MaxBatch] ==
            IF k = 0 THEN [ok |-> TRUE, tree |-> start]
            ELSE IF k \in AddsOf(refs) THEN AddOne(after[k - 1], refs[k].leaf)
            ELSE after[k - 1]
    IN  after[MaxBatch]

\* Only the leaves are cleared: the parents above them and their lists stay.
RemoveAll(t, indices) ==
    [t EXCEPT !.leaf = [i \in Leaves |-> IF i \in indices THEN Blank ELSE t.leaf[i]]]

\* Removes before adds, whatever order they came in.
BuiltTree(g) == AddAll(RemoveAll(g.tree, CommittedRemoves(g)), Named(g))

NewCommit(u, tree, refs, path) ==
    [author |-> u, leaf |-> member[u].myLeaf, fresh |-> tree.leaf[member[u].myLeaf],
     epoch |-> member[u].epoch, refs |-> refs, path |-> path, hash |-> TreeHash(tree), tree |-> tree,
     adds |-> {refs[i].leaf.user : i \in AddsOf(refs)}]

\* A leaf is cleared that no reference names: whoever reads the commit still has
\* somebody there.
ClearsUnnamed(g) == CommittedRemoves(g) # Removed(Named(g))

\* Somebody is let in under a parent whose list is full.
LeavesUnlisted(g) ==
    LET before == RemoveAll(g.tree, CommittedRemoves(g))
        built == BuiltTree(g).tree
    IN  \E leaf \in Leaves, n \in Nodes :
            /\ before.leaf[leaf] = Blank /\ built.leaf[leaf] # Blank
            /\ LeafToNode(leaf) \in Under[n] /\ built.parent[n] # Blank
            /\ leaf \notin built.parent[n].unmerged
            /\ Cardinality(built.parent[n].unmerged) >= MAX_UNMERGED

\* This client's commit: references and no path. The copy it is built on is
\* where the author's group moves to; when it moves is voice.cpp's question.
BuildCommit(u) ==
    /\ In(u) /\ commit = None
    /\ Named(member[u]) # <<>>
    /\ BuiltTree(member[u]).ok
    /\ LET g == member[u]
           tree == BuiltTree(g).tree
           moved == [g EXCEPT !.epoch = @ + 1, !.tree = tree]
       IN  /\ commit' = NewCommit(u, tree, Named(g), <<>>)
           /\ member' = [member EXCEPT ![u] = moved]
           /\ spoilt' = (spoilt \/ ClearsUnnamed(g) \/ LeavesUnlisted(g))
    /\ epoch' = epoch + 1
    /\ proposals' = <<>>
    /\ UNCHANGED refused

\* A batch nobody here can turn into a commit is dropped by the server.
Withdraw ==
    /\ proposals # <<>>
    /\ \A u \in Members : Named(member[u]) = <<>> \/ ~BuiltTree(member[u]).ok
    /\ proposals' = <<>>
    /\ UNCHANGED <<epoch, member, commit, refused, spoilt>>

-----------------------------------------------------------------------------
(* An UpdatePath, written by another implementation.                          *)

\* The sender's leaf and the levels of its path get a new key; a level forgets
\* its unmerged leaves.
Rekey(t, leaf, fresh, levels, e) ==
    LET seated == [t EXCEPT !.leaf[leaf] = fresh]
        keyed == {levels[i].node : i \in DOMAIN levels}
    IN  [seated EXCEPT !.parent = [n \in Nodes |->
            IF n \in keyed THEN [key |-> e, unmerged |-> {}] ELSE seated.parent[n]]]

\* Each level is sealed to whoever covers its other side, entry by entry: what
\* a resolution is said to be, which no width of an array limits.
Covering(t, node) == ResolutionIn(t, node, Nodes)

SealedPath(t, leaf) ==
    LET path == DirectPath[LeafToNode(leaf)][t.count]
        copath == Copath[LeafToNode(leaf)][t.count]
        levels == InOrder({i \in DOMAIN path : Covering(t, copath[i]) # <<>>})
        sealed(n) == [node |-> n, key |-> IF IsLeaf(n) THEN 0 ELSE t.parent[n].key]
    IN  [i \in DOMAIN levels |->
            LET to == Covering(t, copath[levels[i]])
            IN  [node |-> path[levels[i]], to |-> [k \in DOMAIN to |-> sealed(to[k])]]]

\* A node beside the path covers somebody whom its readers, who ask no node past
\* the width of the array, do not find there.
CutShort(t, leaf) ==
    LET copath == Copath[LeafToNode(leaf)][t.count]
    IN  \E i \in DOMAIN copath : Resolution(t, copath[i]) # Covering(t, copath[i])

\* Nobody who is let in by a path is given the keys above them: process_welcome
\* takes none.
PathCommit(u) ==
    /\ In(u) /\ commit = None
    /\ Named(member[u]) # <<>>
    /\ BuiltTree(member[u]).ok
    /\ CommittedRemoves(member[u]) \subseteq Removed(proposals)
    /\ LET g == member[u]
           built == BuiltTree(g).tree
           leaf == g.myLeaf
           path == SealedPath(built, leaf)
           tree == Rekey(built, leaf, Leaf(u, epoch + 1), path, epoch + 1)
           made == {path[i].node : i \in DOMAIN path}
           moved == [g EXCEPT !.epoch = @ + 1, !.tree = tree,
                              !.private = [n \in Nodes |-> IF n \in made THEN epoch + 1 ELSE @[n]]]
       IN  /\ path # <<>>
           /\ commit' = NewCommit(u, tree, Named(g), path)
           /\ member' = [member EXCEPT ![u] = moved]
           /\ spoilt' = (spoilt \/ CutShort(built, leaf) \/ AddsOf(Named(g)) # {})
    /\ epoch' = epoch + 1
    /\ proposals' = <<>>
    /\ UNCHANGED refused

-----------------------------------------------------------------------------
(* mls::process_commit: everything on a copy, which replaces the live group   *)
(* only when the confirmation tag agrees.                                     *)

AppliedTreeAddsFirst(t, refs) ==
    LET grown == AddAll(t, refs)
    IN  [grown EXCEPT !.tree = RemoveAll(grown.tree, Removed(refs))]

\* Two passes over the references: removes, then adds.
AppliedTree(t, refs) == AddAll(RemoveAll(t, Removed(refs)), refs)

RemovesMe(g, refs) == \E i \in DOMAIN refs : refs[i] = RemoveOf(g.myLeaf)

\* Where on the path this member's side of the tree hangs, 0 for nowhere.
OverlapStep(levels, senderLeaf, myLeaf) ==
    LET overlap == CommonAncestor(LeafToNode(senderLeaf), LeafToNode(myLeaf))
        at == {i \in DOMAIN levels : levels[i].node = overlap}
    IN  IF at = {} THEN 0 ELSE CHOOSE i \in at : \A j \in at : i <= j

\* The first entry of a resolution that g has a key for was sealed to that key.
OpensEntry(g, to, res) ==
    LET mine(n) == n = LeafToNode(g.myLeaf) \/ g.private[n] # 0
        key(n) == IF n = LeafToNode(g.myLeaf) THEN 0 ELSE g.private[n]
    IN  \E i \in DOMAIN res \intersect DOMAIN to :
            /\ mine(res[i]) /\ \A j \in 1 .. i - 1 : ~mine(res[j])
            /\ to[i] = [node |-> res[i], key |-> key(res[i])]

\* apply_update_path can open the secret meant for g: the path is as long as
\* the one g works out for itself, and the level where g hangs opens.
OpensPath(g, t, c) ==
    LET levels == FilteredDirectPath(t, LeafToNode(c.leaf))
        step == OverlapStep(levels, c.leaf, g.myLeaf)
    IN  /\ Len(levels) = Len(c.path)
        /\ step # 0
        /\ OpensEntry(g, c.path[step].to, Resolution(t, levels[step].copath))

\* The keys g holds after it: those on the path are dropped, and from the
\* overlap up they are derived anew.
PathKeys(g, t, c) ==
    LET levels == FilteredDirectPath(t, LeafToNode(c.leaf))
        step == OverlapStep(levels, c.leaf, g.myLeaf)
        on == {levels[i].node : i \in DOMAIN levels}
        above == {levels[i].node : i \in step .. Len(levels)}
    IN  [n \in Nodes |-> IF n \in above THEN c.epoch + 1
                         ELSE IF n \in on THEN 0 ELSE g.private[n]]

\* The copy with the sender's own leaf in its place, which is the tree a path
\* was made for, and the copy after the whole commit.
SeatedTree(g, c) == [AppliedTree(g.tree, c.refs).tree EXCEPT !.leaf[c.leaf] = c.fresh]

CommittedTree(g, c) ==
    IF c.path = <<>> THEN AppliedTree(g.tree, c.refs).tree
    ELSE LET t == SeatedTree(g, c)
         IN  Rekey(t, c.leaf, c.fresh, FilteredDirectPath(t, LeafToNode(c.leaf)), c.epoch + 1)

\* The last word is the confirmation tag's: the author's hash and ours agree.
Applies(g, c) ==
    /\ AppliedTree(g.tree, c.refs).ok
    /\ c.path # <<>> => OpensPath(g, SeatedTree(g, c), c)
    /\ TreeHash(CommittedTree(g, c)) = c.hash

\* What u holds after process_commit. A commit for another epoch, or our own, is
\* not looked into; our own removal ends it wherever it stands among the removes.
ProcessCommit(u) ==
    LET g == member[u]
    IN  IF commit.epoch # g.epoch \/ commit.leaf = g.myLeaf THEN g
        ELSE IF RemovesMe(g, commit.refs) THEN Out(g.private)
        ELSE IF ~Applies(g, commit) THEN g
        ELSE [g EXCEPT !.epoch = @ + 1, !.tree = CommittedTree(g, commit),
                       !.private = IF commit.path = <<>> THEN @
                                   ELSE PathKeys(g, SeatedTree(g, commit), commit)]

-----------------------------------------------------------------------------
(* mls::process_welcome                                                       *)

ReadTreeTrimmed(t) ==
    LET used == {i \in Leaves : t.leaf[i] # Blank}
    IN  [t EXCEPT !.count = (CHOOSE i \in used : \A j \in used : j <= i) + 1]

\* read_ratchet_tree: the nodes as they were written, blanks at the end
\* included, so that the width is the author's.
ReadTree(t) ==
    [count  |-> t.count,
     leaf   |-> [i \in Leaves |-> IF i < t.count THEN t.leaf[i] ELSE Blank],
     parent |-> [n \in Nodes |-> IF n < NodeWidth(t.count) THEN t.parent[n] ELSE Blank]]

\* What u holds after process_welcome. Our leaf is the first with our signature
\* key. The keys of the nodes are not touched here: create_group left none.
ProcessWelcome(u) ==
    LET tree == ReadTree(commit.tree)
        mine == Seats(tree, u)
    IN  IF mine = {} THEN member[u]
        ELSE [member[u] EXCEPT !.status = "in", !.epoch = commit.epoch + 1, !.tree = tree,
                               !.myLeaf = CHOOSE i \in mine : \A j \in mine : i <= j]

\* The commit goes to every other member and the welcome to everybody let in.
\* They share nothing, so the order among them is no matter.
HandRound ==
    /\ commit # None
    /\ LET readers == Members \ {commit.author}
           joining == {u \in commit.adds : member[u].status = "waiting"}
       IN  /\ member' = [u \in Users |-> IF u \in readers THEN ProcessCommit(u)
                                        ELSE IF u \in joining THEN ProcessWelcome(u)
                                        ELSE member[u]]
           /\ refused' = {u \in readers \union joining : member'[u] = member[u]}
    /\ commit' = None
    /\ UNCHANGED <<epoch, proposals, spoilt>>

Next ==
    \/ Propose \/ Withdraw \/ HandRound
    \/ \E u \in Users : \/ SendKeyPackage(u) \/ Vanish(u)
                        \/ BuildCommit(u) \/ PathCommit(u)

Spec == Init /\ [][Next]_vars

-----------------------------------------------------------------------------
TreeType ==
    [count  : 1 .. MAX_MEMBERS,
     leaf   : [Leaves -> [user : Users, package : 0 .. MaxEpoch] \union {Blank}],
     parent : [Nodes -> [key : 1 .. MaxEpoch, unmerged : SUBSET Leaves] \union {Blank}]]

Held == [Nodes -> 0 .. MaxEpoch]

\* The variables hold what group_state and the messages can hold.
TypeOK ==
    /\ epoch \in 0 .. MaxEpoch
    /\ \A u \in Users :
          \/ /\ member[u].status = "out"
             /\ member[u].private \in Held
          \/ /\ member[u].status \in {"in", "waiting"}
             /\ member[u].epoch \in 0 .. epoch
             /\ member[u].tree.count \in 1 .. MAX_MEMBERS
             /\ member[u].tree \in TreeType
             /\ member[u].myLeaf \in Leaves
             /\ member[u].private \in Held
    /\ refused \subseteq Users
    /\ spoilt \in BOOLEAN

\* Every member applies the commit another one made, and everybody let in
\* joins: nobody is left behind on an epoch the group has left ("a tree that
\* differs from everybody else's is a group that can no longer read itself").
\* What the code has no answer to is a commit that not everybody can follow: a
\* leaf cleared without a reference to it, a path whose author counts somebody
\* in whom the readers' arrays leave out, and, for the commits after it, a path
\* that lets somebody in or a list that is full.
NobodyRefuses == ~spoilt => refused = {}

\* Members of one epoch hold the same tree down to its allocated width, which
\* no hash covers: the next leaf is given out by it, and paths are measured
\* by it. However each got there: as author, by reference or from a welcome.
SameTree ==
    \A u, v \in Members :
        member[u].epoch = member[v].epoch => member[u].tree = member[v].tree

\* A key held for a node is the one the tree has for it now. A key kept from
\* before (an older epoch, an earlier membership) would be tried on a secret
\* sealed to another, and the commit refused.
HeldKeysAreCurrent ==
    \A u \in Members : \A n \in Nodes :
        member[u].private[n] # 0 =>
            /\ member[u].tree.parent[n] # Blank
            /\ member[u].tree.parent[n].key = member[u].private[n]

\* Every member can open what is sealed to a parent above it: it holds the
\* key, or the parent lists it among those who do not. Somebody who is neither
\* is addressed by a key they were never given: whom a path let in, or a full
\* list left out.
HoldsOrIsUnmerged ==
    ~spoilt => \A u \in Members :
        LET t == member[u].tree
            path == DirectPath[LeafToNode(member[u].myLeaf)][t.count]
        IN  \A i \in DOMAIN path :
                t.parent[path[i]] # Blank =>
                    \/ member[u].private[path[i]] # 0
                    \/ member[u].myLeaf \in t.parent[path[i]].unmerged

\* "The non-blank nodes that between them cover every non-blank descendant":
\* whoever sits under a node is in its resolution, as a leaf or under a parent
\* that has not listed them as unmerged. Not so while the tree is narrower than
\* a full one: a parent past the width of the array answers with nobody.
ResolutionCovers ==
    \A u \in Members :
        LET t == member[u].tree
        IN  \A i \in DOMAIN Copath[LeafToNode(member[u].myLeaf)][t.count] :
                LET node == Copath[LeafToNode(member[u].myLeaf)][t.count][i]
                    res == ToSet(Resolution(t, node))
                IN  \A leaf \in Leaves :
                        /\ LeafToNode(leaf) \in Under[node]
                        /\ t.leaf[leaf] # Blank
                        => \E n \in res :
                              /\ LeafToNode(leaf) \in Under[n]
                              /\ IsLeaf(n) \/ leaf \notin t.parent[n].unmerged
=============================================================================
