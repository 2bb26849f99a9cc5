------------------------ MODULE ChannelHistory_proofs -------------------------
(***************************************************************************)
(* A run of the archive covers only what is kept, and a conversation drawn *)
(* without a break has none, for channels of any length and pages of any   *)
(* size; and merging the lines of the file joins what the lines join.      *)
(***************************************************************************)
EXTENDS ChannelHistory, WellFoundedInduction, FiniteSetTheorems, TLAPS

--------------------------------------------------------------------------------
(* The inductive invariant.                                                    *)

Known == (kept \union Arriving \union lost) \ {0}

Sent == 1..top
Told == [kind : {"create", "update", "delete"}, id : Ids]
Jobs == [pc : {"none", "ask", "unlock", "fold", "keep", "end"},
         op : {"none", "fetch", "forward", "backward"},
         from : 0..MaxId, until : 0..MaxId, left : Nat, cursor : 0..MaxId, edge : 0..MaxId,
         fetched : Nat, reached : BOOLEAN, page : SUBSET Ids]
Questions == [pc : {"none", "ask", "got"}, after : 0..MaxId, until : 0..MaxId,
              verdict : Verdicts \ {"GAP_CHECKING"}]
Flags == [opened : BOOLEAN, loaded : BOOLEAN, loading : BOOLEAN, failed : BOOLEAN,
          exhausted : BOOLEAN]

ServerOK == /\ top \in 0..MaxId /\ gone \subseteq Sent
            /\ wire \in Seq(Told) /\ \A i \in DOMAIN wire : wire[i].id \in Sent
Runs == [from_id : Ids, to_id : Ids]
DiskOK == kept \subseteq Sent /\ lost \subseteq Sent /\ ranges \in Seq(Runs)
StoreOK == held \subseteq Sent /\ chan \in Flags
NotesOK == notes \in Seq([after : Ids, state : Verdicts]) /\ Len(notes) <= NoteCap
JobsOK == jobs \in [JobSlots -> Jobs] /\ checks \in [CheckSlots -> Questions]
GwOK == /\ dispatch \in [stage : {"none", "note", "keep"}, id : 0..MaxId]
        /\ dispatch.stage = "none" => dispatch.id = 0
        /\ last_live \in 0..top
RestOK == alive \in BOOLEAN /\ upsets \in Nat

Types == ServerOK /\ DiskOK /\ StoreOK /\ NotesOK /\ JobsOK /\ GwOK /\ RestOK

\* Whatever exists of a stretch is known: kept, about to be, or lost.
Whole(a, b) == \A x \in Existing : a <= x /\ x <= b => x \in Known

\* What a fetch has: a page that leaves nothing out, then its two ends.
FetchIs(j) ==
    /\ j.pc \in {"fold", "keep"} =>
          \A x \in Existing, y, z \in j.page : y <= x /\ x <= z => x \in j.page
    /\ j.pc = "end" /\ j.edge # 0 =>
          j.edge <= j.cursor /\ j.cursor <= top /\ Whole(j.edge, j.cursor)

\* What a fill has: from its near side to its cursor all is known, and its page
\* goes on from there; at the end it reached the far side, or has something.
ForwardIs(j) ==
    /\ j.from \in Sent /\ j.until \in Sent /\ j.from < j.until
    /\ j.until \in Known
    /\ j.from <= j.cursor /\ j.cursor <= top /\ Whole(j.from, j.cursor)
    /\ j.edge <= j.cursor /\ (j.fetched > 0 => j.edge # 0)
    /\ j.pc \in {"fold", "keep"} =>
          /\ \A y \in j.page : y > j.cursor
          /\ \A x \in Existing, y \in j.page : j.cursor < x /\ x <= y => x \in j.page
          /\ Cardinality(j.page) < Want(j) =>
                \A x \in Existing : j.cursor < x /\ x <= j.until => x \in j.page
    /\ j.pc = "end" => /\ j.reached => Whole(j.from, j.until)
                       /\ ~j.reached => j.fetched > 0 \/ Whole(j.from, j.until)

BackwardIs(j) ==
    /\ j.from \in Sent /\ j.until \in Sent /\ j.until < j.from
    /\ j.until \in Known
    /\ j.cursor <= j.from /\ Whole(j.cursor, j.from)
    /\ j.edge # 0 => j.cursor <= j.edge /\ j.edge < j.from
    /\ j.pc \in {"fold", "keep"} =>
          /\ \A y \in j.page : y < j.cursor
          /\ \A x \in Existing, y \in j.page : y <= x /\ x < j.cursor => x \in j.page
          /\ Cardinality(j.page) < Want(j) =>
                \A x \in Existing : x < j.cursor => x \in j.page
    /\ j.pc = "end" /\ j.reached => Whole(j.until, j.from)

JobIs(j) ==
    /\ j.pc \in {"fold", "keep"} => j.page \subseteq Sent
    /\ j.pc = "keep" => j.page \subseteq held
    /\ j.pc # "none" => j.op # "none" /\ (j.op = "fetch" => ~j.reached)
    /\ j.pc = "unlock" => j.op = "fetch"
    /\ j.pc \in {"fold", "keep"} /\ j.op # "fetch" => j.page # {}
    /\ j.pc \in {"ask", "fold", "keep"} => /\ j.left > 0 /\ ~j.reached
                                           /\ j.op = "fetch" => j.edge = 0
    /\ j.pc = "ask" /\ j.op = "fetch" => Page <= j.left
    /\ j.pc \in {"fold", "keep"} => Cardinality(j.page) <= j.left
    /\ j.pc # "none" => /\ j.op = "fetch" => FetchIs(j)
                        /\ j.op = "forward" => ForwardIs(j)
                        /\ j.op = "backward" => BackwardIs(j)

\* Where Discord was asked what follows: both sides are known, and with the verdict
\* that there is no gap there is none.
CheckIs(c) ==
    c.pc # "none" =>
        /\ c.after \in Sent /\ c.until \in Sent /\ c.after < c.until
        /\ c.after \in Known /\ c.until \in Known
        /\ c.pc = "ask" => c.verdict = "GAP_UNKNOWN"
        /\ c.pc = "got" /\ c.verdict = "GAP_NONE" =>
              \A x \in Existing : ~(c.after < x /\ x < c.until)

\* Live messages come in order, and none is left out between the last and the newest
\* but what is known.
Creates == {i \in DOMAIN wire : wire[i].kind = "create"}
OnTheWay == {wire[i].id : i \in Creates}
            \union (IF dispatch.stage = "note" THEN {dispatch.id} ELSE {})
LiveIs ==
    /\ \A c \in OnTheWay, x \in Sent : c < x => x \in OnTheWay \union Known
    /\ \A i, j \in Creates : i < j => wire[i].id < wire[j].id
    /\ dispatch.stage = "note" => \A i \in Creates : dispatch.id < wire[i].id
    /\ last_live # 0 => /\ alive /\ last_live \in Known
                        /\ \A x \in Sent : last_live < x => x \in OnTheWay \union Known

\* A line says only what is so.
LinesAre == \A i \in DOMAIN ranges : ranges[i].to_id <= top
                                     /\ Whole(ranges[i].from_id, ranges[i].to_id)

StoreIs ==
    /\ held \subseteq Known
    /\ dispatch.stage # "none" => dispatch.id \in held
    /\ chan.opened => \A x \in Existing : x \in kept => x \in held
    /\ \A i \in DOMAIN wire : wire[i].kind = "delete" => wire[i].id \in gone
    /\ ~alive => wire = <<>> /\ dispatch.stage = "none" /\ \A k \in JobSlots : jobs[k].pc = "none"

Inv == /\ Types /\ LiveIs /\ LinesAre /\ StoreIs
       /\ \A k \in JobSlots : JobIs(jobs[k])
       /\ \A i \in CheckSlots : CheckIs(checks[i])
--------------------------------------------------------------------------------
(* Numbers and pages.                                                          *)

\* Min picks the least of any numbers.
LEMMA MinIs ==
    ASSUME NEW S \in SUBSET Nat, S # {}
    PROVE  Min(S) \in S /\ \A y \in S : Min(S) <= y
<1>. DEFINE R == OpToRel(<, Nat)
<1>1. R = {ss \in Nat \X Nat : ss[1] < ss[2]} BY Zenon DEF OpToRel
<1>2. IsWellFoundedOn(R, Nat) BY NatLessThanWellFounded
<1>. HIDE DEF R
<1>3. PICK x \in S : \A y \in S : ~(<<y, x>> \in R) BY <1>2, WFMin
<1>4. \A y \in S : <<y, x>> \in R <=> y < x BY <1>1
<1>5. \A y \in S : ~(y < x) BY <1>3, <1>4, Zenon
<1>6. \A y \in S : x <= y BY <1>5
<1>. QED BY <1>6, Zenon DEF Min

\* Max picks the greatest of numbers that have a bound.
LEMMA MaxIs ==
    ASSUME NEW n \in Nat, NEW S \in SUBSET (0..n), S # {}
    PROVE  Max(S) \in S /\ \A y \in S : y <= Max(S)
<1>. DEFINE T == {n - y : y \in S}
<1>1. T \in SUBSET Nat OBVIOUS
<1>0. T # {} OBVIOUS
<1>2. Min(T) \in T /\ \A t \in T : Min(T) <= t BY <1>0, <1>1, MinIs
<1>3. PICK x \in S : Min(T) = n - x BY <1>2
<1>4. \A y \in S : y <= x
  <2>. TAKE y \in S
  <2>1. n - x <= n - y BY <1>2, <1>3
  <2>. QED BY <2>1
<1>5. \A y \in S : x >= y BY <1>4
<1>6. Max(S) \in S /\ \A y \in S : Max(S) >= y BY <1>5, Zenon DEF Max
<1>. QED BY <1>6

\* A[x] is what comes after x, in an order in which a set has a first and a last.
Succession(S, A) ==
    /\ \A x \in S : x \notin A[x]
    /\ \A x, z \in S : z \in A[x] => A[z] \subseteq A[x]
    /\ \A T \in SUBSET S : T # {} => /\ \E x \in T : \A y \in T : y # x => y \in A[x]
                                     /\ \E x \in T : \A y \in T : y # x => x \in A[y]

\* Those with fewer than n after them come last, are not more than n, and all there
\* are if fewer.
LEMMA LastOnes ==
    ASSUME NEW S, IsFiniteSet(S), NEW n \in Nat, NEW A \in [S -> SUBSET S], NEW P \in SUBSET S,
           \A x \in S : x \in P <=> Cardinality(A[x]) < n, Succession(S, A)
    PROVE  /\ IsFiniteSet(P) /\ Cardinality(P) \in Nat /\ Cardinality(P) <= n
           /\ \A x \in P : \A z \in A[x] : z \in P
           /\ Cardinality(P) < n => P = S
<1>. USE DEF Succession
<1>1. \A x \in S : IsFiniteSet(A[x]) /\ Cardinality(A[x]) \in Nat
  BY FS_Subset, FS_CardinalityType
<1>2. IsFiniteSet(P) /\ Cardinality(P) \in Nat BY FS_Subset, FS_CardinalityType
<1>3. ASSUME NEW x \in P, NEW z \in A[x] PROVE z \in P
  <2>1. x \in S /\ z \in S /\ A[z] \subseteq A[x] /\ IsFiniteSet(A[x]) BY <1>1
  <2>2. Cardinality(A[z]) <= Cardinality(A[x]) BY <2>1, FS_Subset
  <2>3. Cardinality(A[x]) < n BY <2>1
  <2>4. Cardinality(A[x]) \in Nat /\ Cardinality(A[z]) \in Nat BY <1>1, <2>1
  <2>5. Cardinality(A[z]) < n BY <2>2, <2>3, <2>4
  <2>. QED BY <2>1, <2>5
<1>4. Cardinality(P) <= n
  <2>1. CASE P = {}
    <3>1. Cardinality(P) = 0 BY <2>1, FS_EmptySet
    <3>. QED BY <3>1
  <2>2. CASE P # {}
    <3>1. PICK x \in P : \A y \in P : y # x => y \in A[x] BY <2>2
    <3>2. P \subseteq A[x] \union {x} BY <3>1
    <3>3. IsFiniteSet(A[x]) /\ Cardinality(A[x]) \in Nat /\ x \notin A[x] BY <1>1
    <3>4. Cardinality(A[x]) < n OBVIOUS
    <3>5. IsFiniteSet(A[x] \union {x}) /\ Cardinality(A[x] \union {x}) = Cardinality(A[x]) + 1
      BY <3>3, FS_AddElement
    <3>6. Cardinality(P) <= Cardinality(A[x] \union {x}) BY <3>2, <3>5, FS_Subset
    <3>. QED BY <1>2, <3>3, <3>4, <3>5, <3>6
  <2>. QED BY <2>1, <2>2
<1>5. ASSUME Cardinality(P) < n PROVE P = S
  <2>1. SUFFICES ASSUME S \ P # {} PROVE FALSE OBVIOUS
  <2>2. S \ P \in SUBSET S OBVIOUS
  <2>3. PICK x \in S \ P : \A y \in S \ P : y # x => x \in A[y] BY <2>1, <2>2
  <2>4. \A y \in A[x] : y \in P
    <3>1. SUFFICES ASSUME NEW y \in A[x], y \notin P PROVE FALSE OBVIOUS
    <3>2. y \in S /\ y # x OBVIOUS
    <3>3. x \in A[y] BY <2>3, <3>1, <3>2
    <3>4. A[x] \subseteq A[y] BY <3>2, <3>3
    <3>5. y \in A[y] BY <3>4
    <3>. QED BY <3>2, <3>5
  <2>5. Cardinality(A[x]) <= Cardinality(P) BY <1>2, <2>4, FS_Subset
  <2>6. Cardinality(A[x]) \in Nat /\ ~(Cardinality(A[x]) < n) BY <1>1
  <2>. QED BY <1>2, <1>5, <2>5, <2>6
<1>. QED BY <1>2, <1>3, <1>4, <1>5

\* P is the upper part of S, n of it or all.
UpperPart(P, S, n) ==
    /\ P \subseteq S /\ IsFiniteSet(P) /\ Cardinality(P) \in Nat /\ Cardinality(P) <= n
    /\ \A x \in P, z \in S : x <= z => z \in P
    /\ Cardinality(P) < n => P = S

\* The n newest of numbers.
LEMMA NewestIs ==
    ASSUME NEW m \in Nat, NEW S \in SUBSET (1..m), NEW n \in Nat, NEW P, P = NewestOf(S, n)
    PROVE  UpperPart(P, S, n)
<1>. DEFINE A == [x \in S |-> {y \in S : y > x}]
<1>1. P = {x \in S : Cardinality({y \in S : y > x}) < n} BY DEF NewestOf
<1>2. \A x \in S : A[x] = {y \in S : y > x} OBVIOUS
<1>3. A \in [S -> SUBSET S] OBVIOUS
<1>4. \A x \in S : x \in P <=> Cardinality(A[x]) < n
  <2>. TAKE x \in S
  <2>1. A[x] = {y \in S : y > x} OBVIOUS
  <2>. HIDE DEF A
  <2>. QED BY <1>1, <2>1, Zenon
<1>5. P \in SUBSET S BY <1>1, Zenon
<1>6. IsFiniteSet(S)
  <2>1. IsFiniteSet(1..m) BY FS_Interval
  <2>. QED BY <2>1, FS_Subset
<1>. HIDE DEF A
<1>7. \A x \in S : x \in Nat /\ (\A y \in S : y \in A[x] <=> y > x) BY <1>2
<1>8. \A x \in S : x \notin A[x] BY <1>7
<1>9. ASSUME NEW x \in S, NEW z \in S, z \in A[x] PROVE A[z] \subseteq A[x]
  <2>1. SUFFICES ASSUME NEW y \in A[z] PROVE y \in A[x] OBVIOUS
  <2>2. y \in S BY <1>3
  <2>. QED BY <1>7, <1>9, <2>2
<1>10. ASSUME NEW T \in SUBSET S, T # {}
       PROVE  /\ \E x \in T : \A y \in T : y # x => y \in A[x]
              /\ \E x \in T : \A y \in T : y # x => x \in A[y]
  <2>1. T \in SUBSET Nat /\ T \in SUBSET (0..m) OBVIOUS
  <2>2. PICK lo \in T : \A y \in T : lo <= y BY <1>10, <2>1, MinIs
  <2>3. PICK hi \in T : \A y \in T : y <= hi BY <1>10, <2>1, MaxIs
  <2>4. ASSUME NEW y \in T, y # lo PROVE y \in A[lo]
    <3>1. lo \in S /\ y \in S /\ lo < y BY <2>1, <2>2, <2>4
    <3>. QED BY <1>7, <3>1
  <2>5. \A y \in T : y # hi => hi \in A[y] BY <1>7, <2>3
  <2>. QED BY <2>4, <2>5
<1>11. /\ IsFiniteSet(P) /\ Cardinality(P) \in Nat /\ Cardinality(P) <= n
       /\ \A x \in P : \A z \in A[x] : z \in P
       /\ Cardinality(P) < n => P = S
  <2>1. Succession(S, A) BY <1>8, <1>9, <1>10 DEF Succession
  <2>. QED BY <1>3, <1>4, <1>5, <1>6, <2>1, LastOnes
<1>12. \A x \in P, z \in S : x <= z => z \in P BY <1>5, <1>7, <1>11
<1>. QED BY <1>5, <1>11, <1>12 DEF UpperPart

\* P is the lower part of S, n of it or all.
LowerPart(P, S, n) ==
    /\ P \subseteq S /\ IsFiniteSet(P) /\ Cardinality(P) \in Nat /\ Cardinality(P) <= n
    /\ \A x \in P, z \in S : z <= x => z \in P
    /\ Cardinality(P) < n => P = S

\* The n oldest of numbers.
LEMMA OldestIs ==
    ASSUME NEW m \in Nat, NEW S \in SUBSET (1..m), NEW n \in Nat, NEW P, P = OldestOf(S, n)
    PROVE  LowerPart(P, S, n)
<1>. DEFINE A == [x \in S |-> {y \in S : y < x}]
<1>1. P = {x \in S : Cardinality({y \in S : y < x}) < n} BY DEF OldestOf
<1>2. \A x \in S : A[x] = {y \in S : y < x} OBVIOUS
<1>3. A \in [S -> SUBSET S] OBVIOUS
<1>4. \A x \in S : x \in P <=> Cardinality(A[x]) < n
  <2>. TAKE x \in S
  <2>1. A[x] = {y \in S : y < x} OBVIOUS
  <2>. HIDE DEF A
  <2>. QED BY <1>1, <2>1, Zenon
<1>5. P \in SUBSET S BY <1>1, Zenon
<1>6. IsFiniteSet(S)
  <2>1. IsFiniteSet(1..m) BY FS_Interval
  <2>. QED BY <2>1, FS_Subset
<1>. HIDE DEF A
<1>7. \A x \in S : x \in Nat /\ (\A y \in S : y \in A[x] <=> y < x) BY <1>2
<1>8. \A x \in S : x \notin A[x] BY <1>7
<1>9. ASSUME NEW x \in S, NEW z \in S, z \in A[x] PROVE A[z] \subseteq A[x]
  <2>1. SUFFICES ASSUME NEW y \in A[z] PROVE y \in A[x] OBVIOUS
  <2>2. y \in S BY <1>3
  <2>. QED BY <1>7, <1>9, <2>2
<1>10. ASSUME NEW T \in SUBSET S, T # {}
       PROVE  /\ \E x \in T : \A y \in T : y # x => y \in A[x]
              /\ \E x \in T : \A y \in T : y # x => x \in A[y]
  <2>1. T \in SUBSET Nat /\ T \in SUBSET (0..m) OBVIOUS
  <2>2. PICK lo \in T : \A y \in T : lo <= y BY <1>10, <2>1, MinIs
  <2>3. PICK hi \in T : \A y \in T : y <= hi BY <1>10, <2>1, MaxIs
  <2>4. \A y \in T : y # lo => lo \in A[y] BY <1>7, <2>2
  <2>5. \A y \in T : y # hi => y \in A[hi] BY <1>7, <2>3
  <2>. QED BY <2>4, <2>5
<1>11. /\ IsFiniteSet(P) /\ Cardinality(P) \in Nat /\ Cardinality(P) <= n
       /\ \A x \in P : \A z \in A[x] : z \in P
       /\ Cardinality(P) < n => P = S
  <2>1. Succession(S, A) BY <1>8, <1>9, <1>10 DEF Succession
  <2>. QED BY <1>3, <1>4, <1>5, <1>6, <2>1, LastOnes
<1>12. \A x \in P, z \in S : z <= x => z \in P BY <1>5, <1>7, <1>11
<1>. QED BY <1>5, <1>11, <1>12 DEF LowerPart

--------------------------------------------------------------------------------
(* What is so of a stretch stays so.                                           *)

\* The archive has it, or the gateway thread or a job is about to keep it, or it is lost.
LEMMA KnownIs ==
    \A x : x \in Known <=> x # 0 /\ \/ x \in kept \/ x \in lost
                                    \/ x = dispatch.id
                                    \/ \E k \in JobSlots : jobs[k].pc = "keep" /\ x \in jobs[k].page
<1>. TAKE x
<1>1. x \in Arriving <=> \/ x = dispatch.id
                         \/ \E k \in JobSlots : jobs[k].pc = "keep" /\ x \in jobs[k].page
  BY DEF Arriving
<1>. QED BY <1>1 DEF Known

\* The same after a step.
LEMMA KnownThen ==
    \A x : x \in Known' <=> x # 0 /\ \/ x \in kept' \/ x \in lost'
                                     \/ x = dispatch'.id
                                     \/ \E k \in JobSlots : jobs'[k].pc = "keep" /\ x \in jobs'[k].page
<1>. TAKE x
<1>1. x \in Arriving' <=> \/ x = dispatch'.id
                          \/ \E k \in JobSlots : jobs'[k].pc = "keep" /\ x \in jobs'[k].page
  BY DEF Arriving
<1>. QED BY <1>1 DEF Known

\* Newer messages come on top, and what is known is not forgotten.
Grows ==
    /\ top <= top'
    /\ \A x \in Existing' : x <= top => x \in Existing
    /\ \A x \in Known : x \in Known'

\* A stretch of which all is known.
LEMMA WholeStays ==
    ASSUME Types, Types', Grows, NEW a, NEW b \in 0..top, Whole(a, b)
    PROVE  Whole(a, b)'
<1>1. top \in Nat BY DEF Types, ServerOK
<1>2. \A x \in Existing' : x \in Nat BY DEF Types, ServerOK, Existing
<1>3. SUFFICES ASSUME NEW x \in Existing', a <= x, x <= b PROVE x \in Known' BY DEF Whole
<1>4. x \in Existing BY <1>1, <1>2, <1>3 DEF Grows
<1>. QED BY <1>3, <1>4 DEF Grows, Whole

\* A fetch or a fill.
LEMMA JobStays ==
    ASSUME Types, Types', Grows, held \subseteq held', NEW j \in Jobs, JobIs(j)
    PROVE  JobIs(j)'
<1>0. /\ top \in Nat /\ top' \in Nat /\ top <= top' /\ Sent = 1..top /\ Sent' = 1..top'
      /\ \A x \in Existing' : x \in Nat /\ (x <= top => x \in Existing)
      /\ \A x \in Known : x \in Known'
  BY DEF Types, ServerOK, Existing, Grows, Sent
<1>1. /\ j.from \in Nat /\ j.until \in Nat /\ j.cursor \in Nat /\ j.edge \in Nat
      /\ j.pc \in {"fold", "keep"} => \A y \in j.page : y \in Nat /\ y <= top
  BY <1>0 DEF Jobs, JobIs
<1>2. ASSUME FetchIs(j) PROVE FetchIs(j)'
  <2>1. ASSUME j.pc \in {"fold", "keep"}, NEW x \in Existing', NEW y \in j.page, NEW z \in j.page,
               y <= x, x <= z
        PROVE  x \in j.page
    <3>1. x \in Existing BY <1>0, <1>1, <2>1
    <3>. QED BY <1>2, <2>1, <3>1 DEF FetchIs
  <2>2. ASSUME j.pc = "end", j.edge # 0 PROVE j.edge <= j.cursor /\ j.cursor <= top' /\ Whole(j.edge, j.cursor)'
    <3>1. j.edge <= j.cursor /\ j.cursor \in 0..top /\ Whole(j.edge, j.cursor)
      BY <1>0, <1>1, <1>2, <2>2 DEF FetchIs
    <3>2. Whole(j.edge, j.cursor)' BY <3>1, WholeStays
    <3>. QED BY <1>0, <1>1, <3>1, <3>2
  <2>. QED BY <2>1, <2>2 DEF FetchIs
<1>3. ASSUME ForwardIs(j) PROVE ForwardIs(j)'
  <2>1. /\ j.from \in Sent' /\ j.until \in Sent' /\ j.until \in Known' /\ j.cursor <= top'
        /\ j.until \in 0..top /\ j.cursor \in 0..top
    BY <1>0, <1>1, <1>3 DEF ForwardIs
  <2>2. Whole(j.from, j.cursor)' BY <1>3, <2>1, WholeStays DEF ForwardIs
  <2>3. Whole(j.from, j.until) => Whole(j.from, j.until)' BY <2>1, WholeStays
  <2>4. ASSUME j.pc \in {"fold", "keep"}, NEW x \in Existing', NEW y \in j.page,
               j.cursor < x, x <= y
        PROVE  x \in j.page
    <3>1. x \in Existing BY <1>0, <1>1, <2>4
    <3>. QED BY <1>3, <2>4, <3>1 DEF ForwardIs
  <2>5. ASSUME j.pc \in {"fold", "keep"}, Cardinality(j.page) < Want(j), NEW x \in Existing',
               j.cursor < x, x <= j.until
        PROVE  x \in j.page
    <3>1. x \in Existing BY <1>0, <1>1, <2>1, <2>5
    <3>. QED BY <1>3, <2>5, <3>1 DEF ForwardIs
  <2>. QED BY <1>3, <2>1, <2>2, <2>3, <2>4, <2>5 DEF ForwardIs
<1>4. ASSUME BackwardIs(j) PROVE BackwardIs(j)'
  <2>1. /\ j.from \in Sent' /\ j.until \in Sent' /\ j.until \in Known'
        /\ j.from \in 0..top /\ j.cursor <= j.from
    BY <1>0, <1>1, <1>4 DEF BackwardIs
  <2>2. Whole(j.cursor, j.from)' BY <1>4, <2>1, WholeStays DEF BackwardIs
  <2>3. j.pc = "end" /\ j.reached => Whole(j.until, j.from)'
    BY <1>4, <2>1, WholeStays DEF BackwardIs
  <2>4. ASSUME j.pc \in {"fold", "keep"}, NEW x \in Existing', NEW y \in j.page,
               y <= x, x < j.cursor
        PROVE  x \in j.page
    <3>1. x \in Existing BY <1>0, <1>1, <2>1, <2>4
    <3>. QED BY <1>4, <2>4, <3>1 DEF BackwardIs
  <2>5. ASSUME j.pc \in {"fold", "keep"}, Cardinality(j.page) < Want(j), NEW x \in Existing',
               x < j.cursor
        PROVE  x \in j.page
    <3>1. x \in Existing BY <1>0, <1>1, <2>1, <2>5
    <3>. QED BY <1>4, <2>5, <3>1 DEF BackwardIs
  <2>. QED BY <1>4, <2>1, <2>2, <2>3, <2>4, <2>5 DEF BackwardIs
<1>5. j.pc \in {"fold", "keep"} => j.page \subseteq Sent'
  BY <1>0 DEF JobIs
<1>. QED BY <1>2, <1>3, <1>4, <1>5 DEF JobIs

\* A question put to Discord, or its answer.
LEMMA CheckStays ==
    ASSUME Types, Types', Grows, NEW c \in Questions, CheckIs(c)
    PROVE  CheckIs(c)'
<1>0. /\ top \in Nat /\ top' \in Nat /\ top <= top' /\ Sent = 1..top /\ Sent' = 1..top'
      /\ \A x \in Existing' : x \in Nat /\ (x <= top => x \in Existing)
      /\ \A x \in Known : x \in Known'
  BY DEF Types, ServerOK, Existing, Grows, Sent
<1>1. ASSUME c.pc # "none"
      PROVE  /\ c.after \in Sent /\ c.until \in Sent /\ c.after < c.until
             /\ c.after \in Known /\ c.until \in Known
             /\ c.pc = "ask" => c.verdict = "GAP_UNKNOWN"
             /\ c.pc = "got" /\ c.verdict = "GAP_NONE" =>
                   \A x \in Existing : ~(c.after < x /\ x < c.until)
  BY <1>1 DEF CheckIs
<1>2. c.pc # "none" => c.after \in Sent' /\ c.until \in Sent' BY <1>0, <1>1
<1>3. ASSUME c.pc = "got", c.verdict = "GAP_NONE", NEW x \in Existing', c.after < x, x < c.until
      PROVE  FALSE
  <2>1. x \in Existing BY <1>0, <1>1, <1>3
  <2>. QED BY <1>1, <1>3, <2>1
<1>. QED BY <1>0, <1>1, <1>2, <1>3 DEF CheckIs

\* The lines on disk, and one more.
LEMMA LinesStay ==
    ASSUME Types, Types', Grows, LinesAre,
           NEW a \in Nat, NEW b \in Nat,
           \/ ranges' = ranges
           \/ /\ ranges' = Noted(ranges, a, b)
              /\ a # 0 /\ b # 0 /\ a <= b => b <= top' /\ Whole(a, b)'
              /\ a # 0 /\ b # 0 /\ b < a => a <= top' /\ Whole(b, a)'
    PROVE  LinesAre'
<1>0. /\ top \in Nat /\ top' \in Nat /\ top <= top'
      /\ ranges \in Seq(Runs) /\ ranges' \in Seq(Runs)
  BY DEF Types, ServerOK, DiskOK, Grows
<1>1. ASSUME NEW i \in DOMAIN ranges, NEW f, NEW t, f = ranges[i].from_id, t = ranges[i].to_id
      PROVE  t <= top' /\ Whole(f, t)'
  <2>1. t <= top /\ Whole(f, t) BY <1>1 DEF LinesAre
  <2>2. ranges[i] \in Runs BY <1>0
  <2>3. t \in 0..top BY <1>0, <1>1, <2>1, <2>2 DEF Ids, Runs
  <2>4. Whole(f, t)' BY <2>1, <2>3, WholeStays
  <2>5. t <= top' BY <1>0, <2>1, <2>3
  <2>. QED BY <2>4, <2>5
<1>2. ASSUME NEW i \in DOMAIN ranges', NEW f, NEW t, f = ranges'[i].from_id, t = ranges'[i].to_id
      PROVE  t <= top' /\ Whole(f, t)'
  <2>1. CASE i \in DOMAIN ranges /\ ranges'[i] = ranges[i] BY <1>1, <1>2, <2>1
  <2>2. CASE ~(i \in DOMAIN ranges /\ ranges'[i] = ranges[i])
    <3>1. /\ ranges' = Noted(ranges, a, b)
          /\ a # 0 /\ b # 0 /\ a <= b => b <= top' /\ Whole(a, b)'
          /\ a # 0 /\ b # 0 /\ b < a => a <= top' /\ Whole(b, a)'
      BY <1>2, <2>2
    <3>2. a # 0 /\ b # 0 /\ ranges' = Append(ranges, Ordered(a, b)) BY <1>2, <2>2, <3>1 DEF Noted
    <3>3. ranges'[i] = Ordered(a, b) BY <1>0, <1>2, <2>2, <3>2
    <3>4. (a <= b /\ f = a /\ t = b) \/ (b < a /\ f = b /\ t = a)
      BY <1>2, <3>3 DEF Ordered, Span
    <3>. QED BY <3>1, <3>2, <3>4
  <2>. QED BY <2>1, <2>2
<1>3. \A i \in DOMAIN ranges' : \A f, t : f = ranges'[i].from_id /\ t = ranges'[i].to_id
                                           => t <= top' /\ Whole(f, t)'
  BY <1>2
<1>. QED BY <1>3 DEF LinesAre, Whole

--------------------------------------------------------------------------------
(* One step.                                                                   *)

\* With the server at rest.
LEMMA SameServer ==
    ASSUME Types, UNCHANGED <<top, gone>>, \A x \in Known : x \in Known'
    PROVE  Grows /\ Existing' = Existing /\ Sent' = Sent
<1>1. Existing' = Existing /\ Sent' = Sent /\ top' = top BY DEF Existing, Sent
<1>2. top <= top' BY <1>1 DEF Types, ServerOK
<1>. QED BY <1>1, <1>2 DEF Grows

\* Live messages are where they were.
LEMMA LiveStays ==
    ASSUME Inv, UNCHANGED <<top, wire, dispatch, last_live, alive>>, \A x \in Known : x \in Known'
    PROVE  LiveIs'
<1>1. Creates' = Creates /\ OnTheWay' = OnTheWay /\ Sent' = Sent BY DEF Creates, OnTheWay, Sent
<1>2. LiveIs BY DEF Inv
<1>3. last_live' = last_live /\ alive' = alive /\ dispatch' = dispatch /\ wire' = wire OBVIOUS
<1>. QED BY <1>1, <1>2, <1>3 DEF LiveIs

\* A step that leaves most jobs and questions alone, and adds one line at most.
LEMMA Carries ==
    ASSUME Inv, Types', Grows, held \subseteq held', LiveIs', StoreIs', LinesAre',
           \A k \in JobSlots : jobs'[k] = jobs[k] \/ JobIs(jobs[k])',
           \A i \in CheckSlots : checks'[i] = checks[i] \/ CheckIs(checks[i])'
    PROVE  Inv'
<1>0. Types /\ jobs \in [JobSlots -> Jobs] /\ checks \in [CheckSlots -> Questions]
  BY DEF Inv, Types, JobsOK
<1>1. ASSUME NEW k \in JobSlots PROVE JobIs(jobs[k])'
  <2>1. PICK j : j = jobs[k] OBVIOUS
  <2>2. j \in Jobs /\ JobIs(j) BY <1>0, <2>1 DEF Inv
  <2>3. JobIs(j)' BY <1>0, <2>2, JobStays
  <2>4. jobs'[k] = j => JobIs(jobs[k])' BY <2>3, Zenon
  <2>. QED BY <2>1, <2>4
<1>2. ASSUME NEW i \in CheckSlots PROVE CheckIs(checks[i])'
  <2>1. PICK c : c = checks[i] OBVIOUS
  <2>2. c \in Questions /\ CheckIs(c) BY <1>0, <2>1 DEF Inv
  <2>3. CheckIs(c)' BY <1>0, <2>2, CheckStays
  <2>4. checks'[i] = c => CheckIs(checks[i])' BY <2>3, Zenon
  <2>. QED BY <2>1, <2>4
<1>. QED BY <1>1, <1>2 DEF Inv

--------------------------------------------------------------------------------
(* Discord.                                                                    *)

\* Something is told: live messages still come in order and without a gap.
LEMMA LiveGrows ==
    ASSUME Inv, NEW d \in Told, alive, wire' = Append(wire, d),
           UNCHANGED <<dispatch, last_live, alive>>, \A x \in Known : x \in Known',
           \/ d.kind = "create" /\ top' = top + 1 /\ d.id = top + 1
           \/ d.kind # "create" /\ top' = top
    PROVE  LiveIs'
<1>0. /\ top \in Nat /\ wire \in Seq(Told) /\ LiveIs
      /\ \A i \in DOMAIN wire : wire[i].id \in Sent
      /\ dispatch.stage = "note" => dispatch.id \in Sent
  BY DEF Inv, Types, ServerOK, StoreOK, StoreIs
<1>. DEFINE n == Len(wire) + 1
<1>1. n \in Nat /\ DOMAIN wire = 1..(n - 1) /\ DOMAIN wire' = 1..n BY <1>0
<1>2. wire'[n] = d /\ \A i \in DOMAIN wire : wire'[i] = wire[i] /\ i < n BY <1>0
<1>. HIDE DEF n
<1>3. Creates' = Creates \union (IF d.kind = "create" THEN {n} ELSE {})
  BY <1>1, <1>2 DEF Creates
<1>4. \A i \in Creates : i \in DOMAIN wire /\ i < n /\ wire'[i] = wire[i] /\ wire[i].id \in Sent
  BY <1>0, <1>2 DEF Creates
<1>5. OnTheWay' = OnTheWay \union (IF d.kind = "create" THEN {d.id} ELSE {})
  BY ZenonT(40), <1>2, <1>3, <1>4 DEF OnTheWay
<1>6. \A c \in OnTheWay : c \in Sent BY <1>0, <1>4 DEF OnTheWay
<1>7. Sent = 1..top /\ Sent' = 1..top' BY DEF Sent
<1>8. \A c \in OnTheWay', x \in Sent' : c < x => x \in OnTheWay' \union Known'
  <2>. TAKE c \in OnTheWay', x \in Sent'
  <2>1. CASE c \in OnTheWay /\ x \in Sent BY <1>0, <1>5, <2>1 DEF LiveIs
  <2>2. CASE c \in OnTheWay /\ x \notin Sent BY <1>0, <1>5, <1>7, <2>2
  <2>3. CASE c \notin OnTheWay BY <1>0, <1>5, <1>7, <2>3
  <2>. QED BY <2>1, <2>2, <2>3
<1>9. \A i, j \in Creates' : i < j => wire'[i].id < wire'[j].id
  <2>. TAKE i, j \in Creates'
  <2>1. CASE i \in Creates /\ j \in Creates BY <1>0, <1>4, <2>1 DEF LiveIs
  <2>2. CASE i \in Creates /\ j = n /\ d.kind = "create"
    <3>1. wire'[i] = wire[i] /\ wire[i].id \in 1..top BY <1>4, <1>7, <2>2
    <3>2. wire'[j] = d /\ d.id = top + 1 BY <1>2, <2>2
    <3>3. wire[i].id < top + 1 BY <1>0, <3>1
    <3>. QED BY <3>1, <3>2, <3>3
  <2>3. CASE i = n BY <1>3, <1>4, <1>1, <2>3
  <2>. QED BY <1>3, <2>1, <2>2, <2>3
<1>10. ASSUME dispatch'.stage = "note", NEW i \in Creates' PROVE dispatch'.id < wire'[i].id
  <2>1. dispatch' = dispatch /\ dispatch.stage = "note" /\ dispatch.id \in 1..top
    BY <1>0, <1>7, <1>10
  <2>2. CASE i \in Creates BY <1>0, <1>4, <2>1, <2>2 DEF LiveIs
  <2>3. CASE i \notin Creates
    <3>1. i = n /\ d.kind = "create" BY <1>3, <1>10, <2>3
    <3>2. wire'[i] = d /\ d.id = top + 1 BY <1>2, <3>1
    <3>3. dispatch.id < top + 1 BY <1>0, <2>1
    <3>. QED BY <2>1, <3>2, <3>3
  <2>. QED BY <2>2, <2>3
<1>11. ASSUME last_live' # 0
       PROVE  /\ alive' /\ last_live' \in Known'
              /\ \A x \in Sent' : last_live' < x => x \in OnTheWay' \union Known'
  <2>1. /\ last_live \in Known /\ last_live' = last_live
        /\ \A x \in Sent : last_live < x => x \in OnTheWay \union Known
    BY <1>0, <1>11 DEF LiveIs
  <2>2. \A x \in Sent' : last_live < x => x \in OnTheWay' \union Known'
    BY <1>0, <1>5, <1>7, <2>1
  <2>. QED BY <2>1, <2>2
<1>. QED BY <1>8, <1>9, <1>10, <1>11 DEF LiveIs

\* A dispatch that Discord sends, and what it is about.
Sends(d) ==
    /\ wire' = IF alive THEN Append(wire, d) ELSE wire
    /\ d.id \in Sent' /\ (d.kind = "delete" => d.id \in gone')
    /\ gone \subseteq gone' /\ gone' \subseteq Sent'
    /\ \/ d.kind = "create" /\ top' = top + 1 /\ d.id = top + 1 /\ top < MaxId
       \/ d.kind # "create" /\ top' = top

\* Messages are posted, edited and deleted.
LEMMA DiscordSends ==
    ASSUME Inv, Post \/ \E id \in Ids : Edit(id) \/ Delete(id)
    PROVE  /\ UNCHANGED <<lost, alive, diskVars, storeVars, gapVars, jobs, gwVars, g_gaps>>
           /\ upsets' \in Nat /\ \E d \in Told : Sends(d)
<1>0. Types /\ top \in Nat /\ Sent = 1..top /\ Sent' = 1..top' /\ wire \in Seq(Told)
  BY DEF Inv, Types, ServerOK, Sent
<1>1. gone \subseteq 1..top /\ MaxId \in Nat /\ upsets \in Nat
  BY <1>0, LimitsAssumption DEF Types, ServerOK, RestOK, LimitsAssumption
<1>2. CASE Post
  <2>. DEFINE d == [kind |-> "create", id |-> top + 1]
  <2>1. d \in Told BY <1>0, <1>1, <1>2 DEF Told, Ids, Post
  <2>2. wire' = IF alive THEN Append(wire, d) ELSE wire BY <1>2 DEF Post, Tell
  <2>3. d.kind = "create" /\ d.id = top + 1 OBVIOUS
  <2>. HIDE DEF d
  <2>4. /\ UNCHANGED <<lost, alive, diskVars, storeVars, gapVars, jobs, gwVars, g_gaps>>
        /\ upsets' \in Nat /\ top' = top + 1 /\ top < MaxId /\ gone' = gone
    BY <1>1, <1>2 DEF Post
  <2>5. Sends(d) BY <1>0, <1>1, <2>2, <2>3, <2>4 DEF Sends
  <2>. QED BY <2>1, <2>4, <2>5
<1>3. ASSUME NEW i \in Ids, Edit(i)
      PROVE  /\ UNCHANGED <<lost, alive, diskVars, storeVars, gapVars, jobs, gwVars, g_gaps>>
             /\ upsets' \in Nat /\ \E d \in Told : Sends(d)
  <2>. DEFINE d == [kind |-> "update", id |-> i]
  <2>1. d \in Told BY DEF Told
  <2>2. wire' = IF alive THEN Append(wire, d) ELSE wire BY <1>3 DEF Edit, Tell
  <2>3. d.kind = "update" /\ d.id = i OBVIOUS
  <2>. HIDE DEF d
  <2>4. /\ UNCHANGED <<lost, alive, diskVars, storeVars, gapVars, jobs, gwVars, g_gaps>>
        /\ upsets' \in Nat /\ top' = top /\ i \in Sent /\ gone' = gone
    BY <1>0, <1>1, <1>3 DEF Edit, Upset, Existing
  <2>5. Sends(d) BY <1>0, <1>1, <2>2, <2>3, <2>4 DEF Sends
  <2>. QED BY <2>1, <2>4, <2>5
<1>4. ASSUME NEW i \in Ids, Delete(i)
      PROVE  /\ UNCHANGED <<lost, alive, diskVars, storeVars, gapVars, jobs, gwVars, g_gaps>>
             /\ upsets' \in Nat /\ \E d \in Told : Sends(d)
  <2>. DEFINE d == [kind |-> "delete", id |-> i]
  <2>1. d \in Told BY DEF Told
  <2>2. wire' = IF alive THEN Append(wire, d) ELSE wire BY <1>4 DEF Delete, Tell
  <2>3. d.kind = "delete" /\ d.id = i OBVIOUS
  <2>. HIDE DEF d
  <2>4. /\ UNCHANGED <<lost, alive, diskVars, storeVars, gapVars, jobs, gwVars, g_gaps>>
        /\ upsets' \in Nat /\ top' = top /\ i \in Sent /\ gone' = gone \union {i}
    BY <1>0, <1>1, <1>4 DEF Delete, Upset, Existing
  <2>5. Sends(d) BY <1>0, <1>1, <2>2, <2>3, <2>4 DEF Sends
  <2>. QED BY <2>1, <2>4, <2>5
<1>. QED BY <1>2, <1>3, <1>4

\* That leaves what the client knows as it is.
LEMMA DiscordKeeps ==
    ASSUME Inv, Post \/ \E id \in Ids : Edit(id) \/ Delete(id)
    PROVE  Inv'
<1>0. Types /\ top \in Nat /\ Sent = 1..top /\ Sent' = 1..top' /\ wire \in Seq(Told)
      /\ MaxId \in Nat
  BY LimitsAssumption DEF Inv, Types, ServerOK, Sent, LimitsAssumption
<1>1. /\ UNCHANGED <<lost, alive, diskVars, storeVars, gapVars, jobs, gwVars, g_gaps>>
      /\ upsets' \in Nat
  BY DiscordSends
<1>2. PICK d \in Told : Sends(d) BY DiscordSends
<1>3. /\ UNCHANGED <<lost, kept, ranges, held, chan, notes, checks, jobs, dispatch, last_live, alive>>
      /\ Known' = Known
  BY <1>1 DEF diskVars, storeVars, gapVars, gwVars, Known, Arriving
<1>4. top <= top' /\ top' \in 0..MaxId /\ gone \subseteq gone' /\ gone' \subseteq 1..top'
  BY <1>0, <1>2 DEF Sends, Types, ServerOK
<1>5. wire' \in Seq(Told) /\ \A i \in DOMAIN wire' : /\ wire'[i].id \in Sent'
                                                     /\ wire'[i].kind = "delete" => wire'[i].id \in gone'
  <2>1. \A i \in DOMAIN wire : /\ wire[i].id \in Sent'
                               /\ wire[i].kind = "delete" => wire[i].id \in gone'
    BY <1>0, <1>4 DEF Inv, Types, ServerOK, StoreIs
  <2>2. CASE alive
    <3>1. wire' = Append(wire, d) /\ d.id \in Sent' /\ (d.kind = "delete" => d.id \in gone')
      BY <1>2, <2>2 DEF Sends
    <3>. QED BY <1>0, <2>1, <3>1
  <2>3. CASE ~alive BY <1>0, <1>2, <2>1, <2>3 DEF Sends
  <2>. QED BY <2>2, <2>3
<1>6. Types'
  <2>1. ServerOK' BY <1>0, <1>4, <1>5 DEF ServerOK
  <2>2. DiskOK' BY <1>0, <1>3, <1>4 DEF Types, DiskOK
  <2>3. StoreOK' BY <1>0, <1>3, <1>4 DEF Types, StoreOK
  <2>4. NotesOK' /\ JobsOK' BY <1>0, <1>3 DEF Types, NotesOK, JobsOK
  <2>5. GwOK' BY <1>0, <1>3, <1>4 DEF Types, GwOK
  <2>6. RestOK' BY <1>0, <1>1 DEF Types, RestOK
  <2>. QED BY <2>1, <2>2, <2>3, <2>4, <2>5, <2>6 DEF Types
<1>7. Grows
  <2>1. \A x \in Existing' : x <= top => x \in Existing BY <1>0, <1>4 DEF Existing
  <2>. QED BY <1>3, <1>4, <2>1 DEF Grows
<1>8. LiveIs'
  <2>1. CASE alive
    <3>1. wire' = Append(wire, d) BY <1>2, <2>1 DEF Sends
    <3>2. \/ d.kind = "create" /\ top' = top + 1 /\ d.id = top + 1
          \/ d.kind # "create" /\ top' = top
      BY <1>2 DEF Sends
    <3>. QED BY <1>3, <2>1, <3>1, <3>2, LiveGrows
  <2>2. CASE ~alive
    <3>1. wire' = <<>> /\ dispatch'.stage = "none" /\ last_live' = 0
      BY <1>2, <1>3, <2>2 DEF Sends, Inv, StoreIs, LiveIs
    <3>2. Creates' = {} /\ OnTheWay' = {} BY <3>1 DEF Creates, OnTheWay
    <3>. QED BY <3>1, <3>2 DEF LiveIs
  <2>. QED BY <2>1, <2>2
<1>9. StoreIs'
  <2>1. \A x \in Existing' : x \in kept => x \in Existing
    BY <1>0, <1>4 DEF Types, DiskOK, Existing
  <2>2. ~alive => wire' = wire BY <1>2 DEF Sends
  <2>. QED BY <1>3, <1>5, <2>1, <2>2 DEF Inv, StoreIs
<1>10. LinesAre' BY <1>3, <1>6, <1>7, <1>0, LinesStay DEF Inv
<1>. QED BY <1>3, <1>6, <1>7, <1>8, <1>9, <1>10, Carries

\* A session that replays nothing takes the live messages on their way with it.
LEMMA StartOverKeeps ==
    ASSUME Inv, StartOver
    PROVE  Inv'
<1>0. /\ Types /\ LiveIs /\ wire' = <<>> /\ lost' = lost \union (Escapes \ kept)
      /\ upsets' = upsets + 1 /\ top \in Nat /\ Sent' = Sent
      /\ UNCHANGED <<top, gone, alive, kept, ranges, held, chan, notes, checks, jobs, dispatch,
                     last_live>>
  BY DEF Inv, StartOver, Upset, diskVars, storeVars, gapVars, gwVars, Types, ServerOK, Sent
<1>1. \A x \in Escapes : x \in Sent
  BY <1>0 DEF Escapes, Types, ServerOK
<1>2. \A x \in Known : x \in Known'
  BY <1>0, KnownIs, KnownThen
<1>3. Grows /\ Existing' = Existing BY <1>0, <1>2, SameServer
<1>4. Types'
  <2>1. ServerOK' BY <1>0 DEF Types, ServerOK
  <2>2. DiskOK' /\ StoreOK' BY <1>0, <1>1 DEF Types, DiskOK, StoreOK
  <2>3. NotesOK' /\ JobsOK' /\ GwOK' /\ RestOK'
    BY <1>0 DEF Types, NotesOK, JobsOK, GwOK, RestOK
  <2>. QED BY <2>1, <2>2, <2>3 DEF Types
<1>5. LiveIs'
  <2>1. Creates' = {} BY <1>0 DEF Creates
  <2>2. \A c \in OnTheWay' : c \in OnTheWay BY <1>0, <2>1 DEF OnTheWay
  <2>3. ASSUME NEW x \in Sent, x \in OnTheWay \union Known PROVE x \in OnTheWay' \union Known'
    <3>1. CASE x \in Known BY <1>2, <3>1
    <3>2. CASE dispatch.stage = "note" /\ x = dispatch.id BY <1>0, <3>2 DEF OnTheWay
    <3>3. CASE \E i \in Creates : x = wire[i].id
      <4>1. x \in Escapes BY <3>3 DEF Creates, Escapes
      <4>2. x \in lost' \/ x \in kept' BY <1>0, <4>1
      <4>. QED BY <4>2, KnownThen DEF Sent
    <3>. QED BY <2>3, <3>1, <3>2, <3>3 DEF OnTheWay
  <2>. QED BY <1>0, <1>2, <2>1, <2>2, <2>3 DEF LiveIs
<1>6. StoreIs'
  <2>1. \A i \in DOMAIN wire' : FALSE BY <1>0
  <2>. QED BY <1>0, <1>2, <1>3, <2>1 DEF Inv, StoreIs
<1>7. LinesAre' BY <1>0, <1>3, <1>4, LinesStay DEF Inv
<1>. QED BY <1>0, <1>3, <1>4, <1>5, <1>6, <1>7, Carries

--------------------------------------------------------------------------------
(* The gateway thread.                                                         *)

\* The first dispatch is taken: the others are where they were, one place on.
LEMMA TakenIs ==
    ASSUME wire \in Seq(Told), wire # <<>>, wire' = Tail(wire)
    PROVE  /\ Head(wire) = wire[1] /\ 1 \in DOMAIN wire /\ Head(wire) \in Told
           /\ wire' \in Seq(Told)
           /\ \A i \in DOMAIN wire' : i \in Nat \ {0} /\ i + 1 \in DOMAIN wire /\ wire'[i] = wire[i + 1]
           /\ \A i \in DOMAIN wire : i \in Nat /\ (i # 1 => i - 1 \in DOMAIN wire')
<1>1. Len(wire) \in Nat /\ Len(wire) # 0 /\ DOMAIN wire = 1..Len(wire) OBVIOUS
<1>2. wire' \in Seq(Told) /\ Len(wire') = Len(wire) - 1 /\ DOMAIN wire' = 1..(Len(wire) - 1)
  OBVIOUS
<1>3. \A i \in 1..(Len(wire) - 1) : wire'[i] = wire[i + 1] OBVIOUS
<1>. QED BY <1>1, <1>2, <1>3

\* Which leaves the live messages that are on their way in their order.
LEMMA LiveTaken ==
    ASSUME Inv, wire # <<>>, wire' = Tail(wire), dispatch.stage = "none",
           dispatch'.stage = "note" <=> Head(wire).kind = "create",
           dispatch'.stage = "note" => dispatch'.id = Head(wire).id,
           UNCHANGED <<top, last_live, alive>>, \A x \in Known : x \in Known'
    PROVE  LiveIs'
<1>0. wire \in Seq(Told) /\ LiveIs /\ Sent' = Sent
  BY DEF Inv, Types, ServerOK, Sent
<1>1. /\ Head(wire) = wire[1] /\ 1 \in DOMAIN wire
      /\ \A i \in DOMAIN wire' : i \in Nat \ {0} /\ i + 1 \in DOMAIN wire /\ wire'[i] = wire[i + 1]
      /\ \A i \in DOMAIN wire : i \in Nat /\ (i # 1 => i - 1 \in DOMAIN wire')
  BY <1>0, TakenIs
<1>2. \A i \in Creates' : i \in Nat \ {0} /\ i + 1 \in Creates /\ wire'[i] = wire[i + 1]
  BY <1>1 DEF Creates
<1>3. ASSUME NEW i \in Creates, i # 1 PROVE i - 1 \in Creates' /\ wire'[i - 1] = wire[i]
  <2>1. i \in DOMAIN wire /\ wire[i].kind = "create" BY DEF Creates
  <2>2. i \in Nat /\ i - 1 \in DOMAIN wire' BY <1>1, <1>3, <2>1
  <2>3. wire'[i - 1] = wire[(i - 1) + 1] /\ (i - 1) + 1 = i BY <1>1, <2>2
  <2>. QED BY <2>1, <2>2, <2>3 DEF Creates
<1>4. 1 \in Creates <=> dispatch'.stage = "note" BY <1>1 DEF Creates
<1>5. OnTheWay' = OnTheWay
  <2>1. ASSUME NEW c \in OnTheWay PROVE c \in OnTheWay'
    <3>1. PICK i \in Creates : c = wire[i].id BY DEF OnTheWay
    <3>2. CASE i = 1 BY <1>1, <1>4, <3>1, <3>2 DEF OnTheWay
    <3>3. CASE i # 1 BY <1>3, <3>1, <3>3 DEF OnTheWay
    <3>. QED BY <3>2, <3>3
  <2>2. ASSUME NEW c \in OnTheWay' PROVE c \in OnTheWay
    <3>1. CASE dispatch'.stage = "note" /\ c = dispatch'.id BY <1>1, <1>4, <3>1 DEF OnTheWay
    <3>2. CASE \E i \in Creates' : c = wire'[i].id BY <1>2, <3>2 DEF OnTheWay
    <3>. QED BY <3>1, <3>2 DEF OnTheWay
  <2>. QED BY <2>1, <2>2
<1>6. ASSUME NEW i \in Creates', NEW k \in Creates', i < k PROVE wire'[i].id < wire'[k].id
  <2>1. i + 1 < k + 1 BY <1>2, <1>6
  <2>. QED BY <1>0, <1>2, <2>1 DEF LiveIs
<1>7. ASSUME dispatch'.stage = "note", NEW i \in Creates' PROVE dispatch'.id < wire'[i].id
  <2>1. 1 \in Creates /\ i + 1 \in Creates /\ 1 < i + 1 BY <1>1, <1>2, <1>4, <1>7
  <2>2. wire[1].id < wire[i + 1].id BY <1>0, <2>1 DEF LiveIs
  <2>. QED BY <1>1, <1>2, <1>7, <2>2
<1>. QED BY <1>0, <1>5, <1>6, <1>7 DEF LiveIs

\* A new or an edited message is folded into the store.
LEMMA GwFoldKeeps == ASSUME Inv, GwFold PROVE Inv'
<1>0. /\ Types /\ wire \in Seq(Told) /\ dispatch.stage = "none" /\ wire # <<>>
      /\ wire' = Tail(wire) /\ Head(wire).kind # "delete" /\ dispatch.id = 0
      /\ held' = held \union {Head(wire).id}
      /\ dispatch' = [stage |-> IF Head(wire).kind = "create" THEN "note" ELSE "keep",
                      id |-> Head(wire).id]
      /\ UNCHANGED <<lost, top, gone, alive, kept, ranges, chan, notes, checks, jobs, last_live, upsets>>
  BY DEF Inv, Types, ServerOK, GwOK, GwFold, diskVars, gapVars
<1>1. PICK h \in Told : h = Head(wire) /\ h = wire[1] /\ 1 \in DOMAIN wire BY <1>0, TakenIs
<1>2. /\ wire' \in Seq(Told)
      /\ \A i \in DOMAIN wire' : i \in Nat \ {0} /\ i + 1 \in DOMAIN wire /\ wire'[i] = wire[i + 1]
  BY <1>0, TakenIs
<1>3. h.id \in Sent /\ h.id \in Ids /\ h.id # 0 BY <1>0, <1>1 DEF Types, ServerOK, Told, Ids
<1>4. dispatch'.id = h.id /\ dispatch'.stage \in {"note", "keep"}
      /\ (dispatch'.stage = "note" <=> h.kind = "create")
  BY <1>0, <1>1
<1>5. /\ \A x \in Known : x \in Known'
      /\ h.id \in Known'
  <2>1. \A x \in Known : x # 0 /\ (\/ x \in kept \/ x \in lost \/ x = dispatch.id
                            \/ \E k \in JobSlots : jobs[k].pc = "keep" /\ x \in jobs[k].page)
    BY KnownIs
  <2>2. \A x : x \in Known' <=> x # 0 /\ (\/ x \in kept' \/ x \in lost' \/ x = dispatch'.id
                            \/ \E k \in JobSlots : jobs'[k].pc = "keep" /\ x \in jobs'[k].page)
    BY KnownThen
  <2>. QED BY <1>0, <1>3, <1>4, <2>1, <2>2
<1>6. Types'
  <2>1. ServerOK'
    <3>1. Sent' = Sent BY <1>0 DEF Sent
    <3>. QED BY <1>0, <1>2, <3>1 DEF Types, ServerOK
  <2>2. DiskOK' /\ StoreOK' BY <1>0, <1>1, <1>3 DEF Types, DiskOK, StoreOK, Sent
  <2>3. NotesOK' /\ JobsOK' /\ RestOK' BY <1>0 DEF Types, NotesOK, JobsOK, RestOK
  <2>4. GwOK' BY <1>0, <1>1, <1>3, <1>4 DEF Types, GwOK, Ids
  <2>. QED BY <2>1, <2>2, <2>3, <2>4 DEF Types
<1>7. Grows /\ Existing' = Existing BY <1>0, <1>5, SameServer
<1>8. LiveIs' BY <1>0, <1>1, <1>4, <1>5, LiveTaken
<1>9. StoreIs'
  <2>1. held' \subseteq Known' BY <1>0, <1>1, <1>5 DEF Inv, StoreIs
  <2>2. alive' BY <1>0 DEF Inv, StoreIs
  <2>3. \A i \in DOMAIN wire' : wire'[i].kind = "delete" => wire'[i].id \in gone'
    BY <1>0, <1>2 DEF Inv, StoreIs
  <2>. QED BY <1>0, <1>1, <1>4, <1>7, <2>1, <2>2, <2>3 DEF Inv, StoreIs
<1>10. LinesAre' BY <1>0, <1>6, <1>7, LinesStay DEF Inv
<1>. QED BY <1>0, <1>6, <1>7, <1>8, <1>9, <1>10, Carries

\* What the last two live messages have between them is noted down.
LEMMA GwNoteKeeps == ASSUME Inv, GwNote PROVE Inv'
<1>0. /\ Types /\ LiveIs /\ top \in Nat /\ top \in 0..MaxId /\ Sent = 1..top
      /\ ranges \in Seq(Runs)
      /\ dispatch.stage = "note" /\ dispatch.id \in Sent /\ dispatch.id \in held
      /\ last_live \in 0..top
      /\ dispatch' = [dispatch EXCEPT !.stage = "keep"] /\ last_live' = dispatch.id
      /\ ranges' = IF last_live < dispatch.id THEN Noted(ranges, last_live, dispatch.id)
                   ELSE ranges
      /\ UNCHANGED <<lost, top, gone, wire, alive, kept, held, chan, notes, checks, jobs, upsets>>
  BY DEF Inv, Types, ServerOK, DiskOK, StoreOK, GwOK, StoreIs, GwNote, serverVars, storeVars,
         gapVars, Sent
<1>1. dispatch'.id = dispatch.id /\ dispatch'.stage = "keep" BY <1>0 DEF Types, GwOK
<1>2. Known' = Known /\ dispatch.id \in Known /\ Sent' = Sent
  <2>1. \A x : x \in Known' <=> x \in Known BY <1>0, <1>1, KnownIs, KnownThen
  <2>2. dispatch.id \in Known BY <1>0, KnownIs
  <2>. QED BY <1>0, <2>1, <2>2 DEF Sent
<1>3. Grows /\ Existing' = Existing BY <1>0, <1>2, SameServer
<1>4. ASSUME last_live # 0, NEW x \in Existing, last_live <= x, x <= dispatch.id
      PROVE  x \in Known
  <2>1. x \in Sent /\ x \in Nat BY DEF Existing, Sent
  <2>2. CASE x = last_live \/ x = dispatch.id BY <1>0, <1>2, <1>4, <2>2 DEF LiveIs
  <2>3. CASE x # last_live /\ x # dispatch.id
    <3>1. last_live < x BY <1>0, <1>4, <2>1, <2>3
    <3>2. x \in OnTheWay \union Known BY <1>0, <1>4, <2>1, <3>1 DEF LiveIs
    <3>3. ASSUME x \in OnTheWay PROVE FALSE
      <4>1. PICK i \in Creates : x = wire[i].id BY <2>3, <3>3 DEF OnTheWay
      <4>2. dispatch.id < x BY <1>0, <4>1 DEF LiveIs
      <4>. QED BY <1>0, <1>4, <2>1, <4>2
    <3>. QED BY <3>2, <3>3
  <2>. QED BY <2>2, <2>3
<1>. PICK l, d : l = last_live /\ d = dispatch.id OBVIOUS
<1>5. l # 0 => Whole(l, d)' BY <1>0, <1>2, <1>3, <1>4 DEF Whole
<1>6. Types'
  <2>1. ServerOK' /\ StoreOK' BY <1>0, <1>2 DEF Types, ServerOK, StoreOK
  <2>2. DiskOK'
    <3>1. ranges' \in Seq(Runs)
      <4>1. CASE ranges' = ranges BY <1>0, <4>1
      <4>2. CASE ranges' # ranges
        <5>1. last_live < dispatch.id /\ last_live # 0 /\ dispatch.id # 0
          BY <1>0, <4>2 DEF Noted
        <5>2. ranges' = Append(ranges, Ordered(last_live, dispatch.id)) BY <1>0, <5>1 DEF Noted
        <5>3. last_live \in Ids /\ dispatch.id \in Ids
          BY <1>0, <5>1, LimitsAssumption DEF Ids, LimitsAssumption
        <5>4. Ordered(last_live, dispatch.id) \in Runs BY <5>3 DEF Ordered, Span, Runs
        <5>. QED BY <1>0, <5>2, <5>4
      <4>. QED BY <4>1, <4>2
    <3>. QED BY <1>0, <1>2, <3>1 DEF Types, DiskOK
  <2>3. NotesOK' /\ JobsOK' /\ RestOK' BY <1>0 DEF Types, NotesOK, JobsOK, RestOK
  <2>4. GwOK' BY <1>0, <1>1 DEF Types, GwOK
  <2>. QED BY <2>1, <2>2, <2>3, <2>4 DEF Types
<1>7. LiveIs'
  <2>1. Creates' = Creates BY <1>0 DEF Creates
  <2>2. \A c : c \in OnTheWay' <=> c \in OnTheWay /\ c # dispatch.id
    <3>1. \A i \in Creates : dispatch.id < wire[i].id /\ wire[i].id \in Nat
      BY <1>0 DEF LiveIs, Types, ServerOK, Creates
    <3>2. \A i \in Creates : wire[i].id # dispatch.id BY <1>0, <3>1
    <3>. QED BY <1>0, <1>1, <2>1, <3>2 DEF OnTheWay
  <2>3. ASSUME NEW c \in OnTheWay', NEW x \in Sent', c < x
        PROVE  x \in OnTheWay' \union Known'
    <3>1. PICK i \in Creates : c = wire[i].id BY <1>0, <1>1, <2>1 DEF OnTheWay
    <3>2. dispatch.id < c /\ c \in Nat BY <1>0, <3>1 DEF LiveIs, Types, ServerOK, Creates
    <3>3. x \in OnTheWay \union Known BY <1>0, <1>2, <2>2, <2>3 DEF LiveIs
    <3>. QED BY <1>0, <1>2, <2>2, <2>3, <3>2, <3>3
  <2>4. \A x \in Sent' : dispatch.id < x => x \in OnTheWay' \union Known'
    <3>1. dispatch.id \in OnTheWay BY <1>0 DEF OnTheWay
    <3>. QED BY <1>0, <1>2, <2>2, <3>1 DEF LiveIs
  <2>5. alive' BY <1>0 DEF Inv, StoreIs
  <2>6. \A i, j \in Creates' : i < j => wire'[i].id < wire'[j].id BY <1>0, <2>1 DEF LiveIs
  <2>. QED BY <1>0, <1>1, <1>2, <2>3, <2>4, <2>5, <2>6 DEF LiveIs
<1>8. StoreIs' BY <1>0, <1>1, <1>2, <1>3 DEF Inv, StoreIs
<1>9. LinesAre'
  <2>1. \/ ranges' = ranges
        \/ /\ ranges' = Noted(ranges, l, d)
           /\ l # 0 => Whole(l, d)'
           /\ d <= top' /\ l < d
    BY <1>0, <1>5
  <2>2. ~(l < d /\ d < l) BY <1>0
  <2>3. l \in Nat /\ d \in Nat BY <1>0
  <2>. QED BY <1>0, <1>3, <1>6, <2>1, <2>2, <2>3, LinesStay DEF Inv
<1>. QED BY <1>0, <1>3, <1>6, <1>7, <1>8, <1>9, Carries

\* A folded message is kept.
LEMMA GwKeepKeeps == ASSUME Inv, GwKeep PROVE Inv'
<1>0. /\ Types /\ dispatch.stage = "keep" /\ dispatch.id \in held /\ held \subseteq Sent
      /\ kept' = kept \union {dispatch.id} /\ dispatch' = NoDispatch
      /\ UNCHANGED <<lost, top, gone, wire, alive, ranges, held, chan, notes, checks, jobs, last_live, upsets>>
  BY DEF Inv, Types, StoreOK, StoreIs, GwKeep, PutJson, serverVars, storeVars, gapVars
<1>1. dispatch'.id = 0 /\ dispatch'.stage = "none" /\ dispatch.id # 0
  BY <1>0 DEF NoDispatch, Sent
<1>2. Known' = Known
  <2>1. \A x : x \in Known' <=> x \in Known BY <1>0, <1>1, KnownIs, KnownThen
  <2>. QED BY <2>1
<1>3. Grows /\ Existing' = Existing /\ Sent' = Sent BY <1>0, <1>2, SameServer
<1>4. Types'
  <2>1. ServerOK' /\ DiskOK' /\ StoreOK' BY <1>0, <1>3 DEF Types, ServerOK, DiskOK, StoreOK
  <2>2. NotesOK' /\ JobsOK' /\ RestOK' BY <1>0 DEF Types, NotesOK, JobsOK, RestOK
  <2>3. GwOK' BY <1>0, LimitsAssumption DEF Types, GwOK, NoDispatch, LimitsAssumption
  <2>. QED BY <2>1, <2>2, <2>3 DEF Types
<1>5. LiveIs'
  <2>1. Creates' = Creates /\ OnTheWay' = OnTheWay BY <1>0, <1>1 DEF Creates, OnTheWay
  <2>. QED BY <1>0, <1>1, <1>2, <1>3, <2>1 DEF Inv, LiveIs
<1>6. StoreIs' BY <1>0, <1>1, <1>2, <1>3 DEF Inv, StoreIs
<1>7. LinesAre' BY <1>0, <1>3, <1>4, LinesStay DEF Inv
<1>. QED BY <1>0, <1>3, <1>4, <1>5, <1>6, <1>7, Carries

\* A message of another channel makes the next one the first again.
LEMMA GwElsewhereKeeps == ASSUME Inv, GwElsewhere PROVE Inv'
<1>0. /\ Types /\ last_live' = 0 /\ upsets' = upsets + 1
      /\ UNCHANGED <<lost, top, gone, wire, alive, kept, ranges, held, chan, notes, checks, jobs, dispatch>>
  BY DEF Inv, GwElsewhere, Upset, serverVars, diskVars, storeVars, gapVars
<1>1. Known' = Known
  <2>1. \A x : x \in Known' <=> x \in Known BY <1>0, KnownIs, KnownThen
  <2>. QED BY <2>1
<1>2. Grows /\ Existing' = Existing /\ Sent' = Sent BY <1>0, <1>1, SameServer
<1>3. Types'
  <2>1. ServerOK' /\ DiskOK' /\ StoreOK' BY <1>0, <1>2 DEF Types, ServerOK, DiskOK, StoreOK
  <2>2. NotesOK' /\ JobsOK' /\ RestOK' BY <1>0 DEF Types, NotesOK, JobsOK, RestOK
  <2>3. GwOK' BY <1>0 DEF Types, ServerOK, GwOK
  <2>. QED BY <2>1, <2>2, <2>3 DEF Types
<1>4. LiveIs'
  <2>1. Creates' = Creates /\ OnTheWay' = OnTheWay BY <1>0 DEF Creates, OnTheWay
  <2>. QED BY <1>0, <1>1, <1>2, <2>1 DEF Inv, LiveIs
<1>5. StoreIs' BY <1>0, <1>1, <1>2 DEF Inv, StoreIs
<1>6. LinesAre' BY <1>0, <1>2, <1>3, LinesStay DEF Inv
<1>. QED BY <1>0, <1>2, <1>3, <1>4, <1>5, <1>6, Carries

\* A deletion leaves a line behind.
LEMMA GwDeleteKeeps == ASSUME Inv, GwDelete PROVE Inv'
<1>0. /\ Types /\ wire \in Seq(Told) /\ dispatch.stage = "none" /\ wire # <<>>
      /\ wire' = Tail(wire) /\ Head(wire).kind = "delete"
      /\ kept' = kept \union {Head(wire).id}
      /\ UNCHANGED <<lost, top, gone, alive, ranges, held, chan, notes, checks, jobs, dispatch, last_live, upsets>>
  BY DEF Inv, Types, ServerOK, GwDelete, storeVars, gapVars, gwVars
<1>1. PICK h \in Told : h = Head(wire) /\ h = wire[1] /\ 1 \in DOMAIN wire BY <1>0, TakenIs
<1>2. /\ wire' \in Seq(Told)
      /\ \A i \in DOMAIN wire' : i \in Nat /\ i + 1 \in DOMAIN wire /\ wire'[i] = wire[i + 1]
  BY <1>0, TakenIs
<1>3. h.id \in Sent /\ h.id \in gone BY <1>0, <1>1 DEF Inv, Types, ServerOK, StoreIs
<1>4. \A x \in Known : x \in Known' BY <1>0, KnownIs, KnownThen
<1>5. Grows /\ Existing' = Existing /\ Sent' = Sent BY <1>0, <1>4, SameServer
<1>6. Types'
  <2>1. ServerOK' BY <1>0, <1>2, <1>5 DEF Types, ServerOK
  <2>2. DiskOK' /\ StoreOK' BY <1>0, <1>1, <1>3, <1>5 DEF Types, DiskOK, StoreOK
  <2>3. NotesOK' /\ JobsOK' /\ RestOK' /\ GwOK' BY <1>0 DEF Types, NotesOK, JobsOK, RestOK, GwOK
  <2>. QED BY <2>1, <2>2, <2>3 DEF Types
<1>7. LiveIs' BY <1>0, <1>4, LiveTaken
<1>8. StoreIs'
  <2>1. held' \subseteq Known' BY <1>0, <1>4 DEF Inv, StoreIs
  <2>2. alive' BY <1>0 DEF Inv, StoreIs
  <2>3. \A i \in DOMAIN wire' : wire'[i].kind = "delete" => wire'[i].id \in gone'
    BY <1>0, <1>2 DEF Inv, StoreIs
  <2>4. chan'.opened => \A x \in Existing' : x \in kept' => x \in held'
    BY <1>0, <1>1, <1>3, <1>5 DEF Inv, StoreIs, Existing
  <2>. QED BY <1>0, <2>1, <2>2, <2>3, <2>4 DEF Inv, StoreIs
<1>9. LinesAre' BY <1>0, <1>5, <1>6, LinesStay DEF Inv
<1>. QED BY <1>0, <1>5, <1>6, <1>7, <1>8, <1>9, Carries

--------------------------------------------------------------------------------
(* A step of a job, or of the interface.                                       *)

\* What neither tells the gateway thread nor loses anything: job k becomes j.
JobMoves(k, j) ==
    /\ jobs' = [jobs EXCEPT ![k] = j]
    /\ UNCHANGED <<top, gone, wire, alive, dispatch, last_live>>
    /\ notes' \in Seq([after : Ids, state : Verdicts]) /\ Len(notes') <= NoteCap
    /\ checks' \in [CheckSlots -> Questions]
    /\ kept \subseteq kept' /\ kept' \subseteq Sent
    /\ lost \subseteq lost' /\ lost' \subseteq Sent
    /\ held \subseteq held' /\ held' \subseteq Sent
    /\ chan' \in Flags /\ ranges' \in Seq(Runs) /\ upsets' \in Nat
    /\ jobs[k].pc = "keep" => \A x \in jobs[k].page : x \in kept' \/ (j.pc = "keep" /\ x \in j.page)
    /\ \A x \in held' : x \in held \/ x \in kept \/ (j.pc = "keep" /\ x \in j.page)
    /\ chan'.opened => \A x \in kept' : x \in held' \/ (chan.opened /\ x \in kept)
    /\ ~alive => j.pc = "none"

\* It keeps the types, what is known and the live messages.
LEMMA JobSteps ==
    ASSUME Inv, NEW k \in JobSlots, NEW j \in Jobs, JobMoves(k, j)
    PROVE  /\ Types' /\ Grows /\ Existing' = Existing /\ Sent' = Sent
           /\ LiveIs' /\ StoreIs'
           /\ jobs'[k] = j /\ \A i \in JobSlots : i # k => jobs'[i] = jobs[i]
<1>0. Types /\ jobs \in [JobSlots -> Jobs] BY DEF Inv, Types, JobsOK
<1>1. /\ jobs' \in [JobSlots -> Jobs]
      /\ jobs'[k] = j /\ \A i \in JobSlots : i # k => jobs'[i] = jobs[i]
  BY <1>0 DEF JobMoves
<1>2. \A x \in Known : x \in Known'
  <2>. TAKE x \in Known
  <2>1. x # 0 /\ (\/ x \in kept \/ x \in lost \/ x = dispatch.id
                  \/ \E i \in JobSlots : jobs[i].pc = "keep" /\ x \in jobs[i].page)
    BY KnownIs
  <2>2. CASE x \in kept \/ x \in lost \/ x = dispatch.id
    <3>1. x \in kept' \/ x \in lost' \/ x = dispatch'.id BY <2>2 DEF JobMoves
    <3>. QED BY <2>1, <3>1, KnownThen
  <2>3. CASE \E i \in JobSlots : jobs[i].pc = "keep" /\ x \in jobs[i].page
    <3>1. PICK i \in JobSlots : jobs[i].pc = "keep" /\ x \in jobs[i].page BY <2>3
    <3>2. CASE i = k
      <4>1. x \in kept' \/ (jobs'[k].pc = "keep" /\ x \in jobs'[k].page)
        BY <1>1, <3>1, <3>2 DEF JobMoves
      <4>. QED BY <2>1, <4>1, KnownThen
    <3>3. CASE i # k
      <4>1. jobs'[i].pc = "keep" /\ x \in jobs'[i].page BY <1>1, <3>1, <3>3
      <4>. QED BY <2>1, <4>1, KnownThen
    <3>. QED BY <3>2, <3>3
  <2>. QED BY <2>1, <2>2, <2>3
<1>3. Grows /\ Existing' = Existing /\ Sent' = Sent BY <1>0, <1>2, SameServer DEF JobMoves
<1>4. Types'
  <2>1. ServerOK' /\ DiskOK' /\ StoreOK'
    BY <1>0, <1>3 DEF JobMoves, Types, ServerOK, DiskOK, StoreOK
  <2>2. NotesOK' /\ JobsOK' BY <1>1 DEF JobMoves, NotesOK, JobsOK
  <2>3. GwOK' /\ RestOK' BY <1>0 DEF JobMoves, Types, GwOK, RestOK
  <2>. QED BY <2>1, <2>2, <2>3 DEF Types
<1>5. LiveIs' BY <1>2, LiveStays DEF JobMoves
<1>6. StoreIs'
  <2>1. ASSUME NEW x \in held' PROVE x \in Known'
    <3>1. x # 0 BY <2>1 DEF JobMoves, Sent
    <3>2. CASE x \in held BY <1>2, <3>2 DEF Inv, StoreIs
    <3>3. CASE x \in kept
      <4>1. x \in kept' BY <3>3 DEF JobMoves
      <4>. QED BY <3>1, <4>1, KnownThen
    <3>4. CASE j.pc = "keep" /\ x \in j.page BY <1>1, <3>1, <3>4, KnownThen
    <3>. QED BY <2>1, <3>2, <3>3, <3>4 DEF JobMoves
  <2>2. dispatch'.stage # "none" => dispatch'.id \in held' BY DEF Inv, StoreIs, JobMoves
  <2>3. chan'.opened => \A x \in Existing' : x \in kept' => x \in held'
    BY <1>3 DEF Inv, StoreIs, JobMoves
  <2>4. \A i \in DOMAIN wire' : wire'[i].kind = "delete" => wire'[i].id \in gone'
    BY DEF Inv, StoreIs, JobMoves
  <2>5. ~alive' => /\ wire' = <<>> /\ dispatch'.stage = "none"
                   /\ \A i \in JobSlots : jobs'[i].pc = "none"
    BY <1>1 DEF Inv, StoreIs, JobMoves
  <2>. QED BY <2>1, <2>2, <2>3, <2>4, <2>5 DEF StoreIs
<1>. QED BY <1>1, <1>3, <1>4, <1>5, <1>6

\* With a job, and lines, that are as they should be, all is.
LEMMA JobCarries ==
    ASSUME Inv, NEW k \in JobSlots, NEW j \in Jobs, JobMoves(k, j), checks' = checks,
           JobIs(j)', LinesAre'
    PROVE  Inv'
<1>1. /\ Types' /\ Grows /\ LiveIs' /\ StoreIs' /\ held \subseteq held'
      /\ jobs'[k] = j /\ \A i \in JobSlots : i # k => jobs'[i] = jobs[i]
  BY JobSteps DEF JobMoves
<1>2. ASSUME NEW i \in JobSlots PROVE jobs'[i] = jobs[i] \/ JobIs(jobs[i])'
  <2>1. CASE i = k
    <3>1. PICK n : n = jobs'[k] OBVIOUS
    <3>2. JobIs(n)' BY <1>1, <3>1, Zenon
    <3>3. n = jobs[i]' BY <2>1, <3>1
    <3>. QED BY <3>2, <3>3, Zenon
  <2>. QED BY <1>1, <2>1
<1>. QED BY <1>1, <1>2, Carries

\* Nothing runs in a slot: nothing is claimed of it.
LEMMA NoJobIs == NoJob \in Jobs /\ JobIs(NoJob)'
<1>1. MaxId \in Nat BY LimitsAssumption DEF LimitsAssumption
<1>2. NoJob \in Jobs BY <1>1 DEF NoJob, Jobs
<1>. QED BY <1>2 DEF NoJob, JobIs

\* What runs in a slot, runs in a process.
LEMMA JobAt ==
    ASSUME Inv, NEW k \in JobSlots, jobs[k].pc # "none"
    PROVE  jobs[k] \in Jobs /\ JobIs(jobs[k]) /\ alive
BY DEF Inv, Types, JobsOK, StoreIs

\* A line has two ends that are messages.
LEMMA NotedIs ==
    ASSUME ranges \in Seq(Runs), NEW a \in 0..MaxId, NEW b \in 0..MaxId
    PROVE  Noted(ranges, a, b) \in Seq(Runs)
<1>0. MaxId \in Nat BY LimitsAssumption DEF LimitsAssumption
<1>1. CASE a = 0 \/ b = 0 BY <1>1 DEF Noted
<1>2. CASE a # 0 /\ b # 0
  <2>1. a \in Ids /\ b \in Ids BY <1>0, <1>2 DEF Ids
  <2>2. Ordered(a, b) \in Runs BY <2>1 DEF Ordered, Span, Runs
  <2>3. Noted(ranges, a, b) = Append(ranges, Ordered(a, b)) BY <1>2 DEF Noted
  <2>. QED BY <2>2, <2>3
<1>. QED BY <1>1, <1>2

\* Discord leaves nothing out of an answer, and a short one is all there is.
LEMMA AnswerIs ==
    ASSUME Types, NEW j \in Jobs, JobIs(j), j.pc = "ask", NEW P, P = Answer(j)
    PROVE  /\ P \subseteq Existing /\ P \in SUBSET Ids /\ Cardinality(P) \in Nat
           /\ Cardinality(P) <= j.left
           /\ j.op = "fetch" => \A x \in Existing, y, z \in P : y <= x /\ x <= z => x \in P
           /\ j.op = "forward" =>
                 /\ \A y \in P : y > j.cursor
                 /\ \A x \in Existing, y \in P : j.cursor < x /\ x <= y => x \in P
                 /\ Cardinality(P) < Want(j) \/ P = {} => \A x \in Existing : j.cursor < x => x \in P
           /\ j.op = "backward" =>
                 /\ \A y \in P : y < j.cursor
                 /\ \A x \in Existing, y \in P : y <= x /\ x < j.cursor => x \in P
                 /\ Cardinality(P) < Want(j) \/ P = {} => \A x \in Existing : x < j.cursor => x \in P
<1>0. /\ top \in 0..MaxId /\ top \in Nat /\ MaxId \in Nat /\ Page \in Nat /\ Page > 0
      /\ Existing \subseteq 1..top /\ Existing \subseteq Ids
  BY LimitsAssumption DEF Types, ServerOK, Existing, Ids, LimitsAssumption
<1>1. /\ j.left \in Nat /\ j.left > 0 /\ j.cursor \in Nat /\ j.from \in Nat
      /\ j.op \in {"fetch", "forward", "backward"}
      /\ j.op = "fetch" => Page <= j.left
  BY DEF Jobs, JobIs
<1>2. Want(j) \in Nat /\ Want(j) > 0 /\ Want(j) <= j.left BY <1>0, <1>1 DEF Want
<1>6. top \in Nat /\ Page \in Nat BY <1>0
<1>3. CASE j.op = "fetch"
  <2>. DEFINE S == {x \in Existing : j.from = 0 \/ x < j.from}
  <2>1. P = NewestOf(S, Page) BY <1>3 DEF Answer
  <2>2. S \in SUBSET (1..top) /\ S \subseteq Existing BY <1>0
  <2>3. \A x \in Existing : x \in S <=> j.from = 0 \/ x < j.from OBVIOUS
  <2>. HIDE DEF S
  <2>0. UpperPart(P, S, Page) BY <1>6, <2>1, <2>2, NewestIs
  <2>4. /\ P \subseteq S /\ Cardinality(P) \in Nat /\ Cardinality(P) <= Page
        /\ \A x \in P, z \in S : x <= z => z \in P
    BY <2>0 DEF UpperPart
  <2>5. ASSUME NEW x \in Existing, NEW y \in P, NEW z \in P, y <= x, x <= z PROVE x \in P
    <3>1. x \in Nat /\ z \in Nat /\ z \in S BY <1>0, <2>2, <2>4
    <3>2. x \in S BY <1>1, <2>3, <2>2, <2>5, <3>1
    <3>. QED BY <2>4, <2>5, <3>2
  <2>6. Cardinality(P) <= j.left BY <1>0, <1>1, <1>3, <2>4
  <2>. QED BY <1>0, <1>3, <2>2, <2>4, <2>5, <2>6
<1>4. CASE j.op = "forward"
  <2>. DEFINE S == {x \in Existing : x > j.cursor}
  <2>. PICK n \in Nat : n = Want(j) BY <1>2
  <2>1. P = OldestOf(S, n) BY <1>4 DEF Answer
  <2>2. S \in SUBSET (1..top) /\ S \subseteq Existing BY <1>0
  <2>3. \A x \in Existing : x \in S <=> x > j.cursor OBVIOUS
  <2>. HIDE DEF S
  <2>0. LowerPart(P, S, n) BY <1>6, <2>1, <2>2, OldestIs
  <2>4. /\ P \subseteq S /\ Cardinality(P) \in Nat /\ Cardinality(P) <= n
        /\ \A x \in P, z \in S : z <= x => z \in P
        /\ Cardinality(P) < n => P = S
    BY <2>0 DEF LowerPart
  <2>5. P = {} => Cardinality(P) = 0 BY FS_EmptySet
  <2>6. Cardinality(P) < Want(j) \/ P = {} => P = S BY <1>2, <2>4, <2>5
  <2>7. Cardinality(P) <= j.left BY <1>1, <1>2, <2>4
  <2>8. \A x \in Existing : j.cursor < x => x \in S BY <2>3
  <2>. QED BY <1>0, <1>4, <2>2, <2>3, <2>4, <2>6, <2>7, <2>8
<1>5. CASE j.op = "backward"
  <2>. DEFINE S == {x \in Existing : x < j.cursor}
  <2>. PICK n \in Nat : n = Want(j) BY <1>2
  <2>1. P = NewestOf(S, n) BY <1>5 DEF Answer
  <2>2. S \in SUBSET (1..top) /\ S \subseteq Existing BY <1>0
  <2>3. \A x \in Existing : x \in S <=> x < j.cursor OBVIOUS
  <2>. HIDE DEF S
  <2>0. UpperPart(P, S, n) BY <1>6, <2>1, <2>2, NewestIs
  <2>4. /\ P \subseteq S /\ Cardinality(P) \in Nat /\ Cardinality(P) <= n
        /\ \A x \in P, z \in S : x <= z => z \in P
        /\ Cardinality(P) < n => P = S
    BY <2>0 DEF UpperPart
  <2>5. P = {} => Cardinality(P) = 0 BY FS_EmptySet
  <2>6. Cardinality(P) < Want(j) \/ P = {} => P = S BY <1>2, <2>4, <2>5
  <2>7. Cardinality(P) <= j.left BY <1>1, <1>2, <2>4
  <2>. QED BY <1>0, <1>5, <2>2, <2>3, <2>4, <2>6, <2>7
<1>. QED BY <1>1, <1>3, <1>4, <1>5

\* A job that only changes what it is itself about.
LEMMA JobAlone ==
    ASSUME Inv, NEW k \in JobSlots, jobs[k].pc \notin {"none", "keep"}, NEW j \in Jobs,
           jobs' = [jobs EXCEPT ![k] = j], chan' \in Flags, chan'.opened = chan.opened,
           upsets' \in Nat, lost \subseteq lost', lost' \subseteq Sent,
           UNCHANGED <<top, gone, wire, alive, kept, held, ranges, notes, checks, dispatch,
                       last_live>>
    PROVE  /\ JobMoves(k, j) /\ checks' = checks /\ LinesAre'
           /\ Types' /\ Grows /\ Existing' = Existing /\ Sent' = Sent
<1>1. alive BY JobAt
<1>2. Types BY DEF Inv
<1>3. JobMoves(k, j)
  BY <1>1, <1>2 DEF JobMoves, Types, DiskOK, StoreOK, NotesOK, JobsOK
<1>4. Types' /\ Grows /\ Existing' = Existing /\ Sent' = Sent BY <1>3, JobSteps
<1>5. LinesAre' BY <1>2, <1>4, LinesStay DEF Inv
<1>. QED BY <1>3, <1>4, <1>5

--------------------------------------------------------------------------------
(* Fetches and fills.                                                          *)

\* An answer comes, or it says that nothing is left.
LEMMA JobAnsweredKeeps ==
    ASSUME Inv, NEW k \in JobSlots, JobAnswered(k)
    PROVE  Inv'
<1>. PICK j : j = jobs[k] OBVIOUS
<1>0. j \in Jobs /\ JobIs(j) /\ j.pc = "ask" /\ jobs[k].pc = "ask" /\ Types
  BY JobAt DEF JobAnswered, Inv
<1>1. PICK P : P = Answer(j) OBVIOUS
<1>2. jobs' = [jobs EXCEPT ![k] = IF P = {} /\ j.op # "fetch"
                                  THEN [j EXCEPT !.reached = TRUE, !.pc = "end"]
                                  ELSE [j EXCEPT !.page = P, !.pc = "fold"]]
  BY <1>1 DEF JobAnswered, SetJob
<1>3. /\ P \subseteq Existing /\ P \in SUBSET Ids /\ Cardinality(P) \in Nat
      /\ Cardinality(P) <= j.left
      /\ j.op = "fetch" => \A x \in Existing, y, z \in P : y <= x /\ x <= z => x \in P
      /\ j.op = "forward" =>
            /\ \A y \in P : y > j.cursor
            /\ \A x \in Existing, y \in P : j.cursor < x /\ x <= y => x \in P
            /\ Cardinality(P) < Want(j) \/ P = {} => \A x \in Existing : j.cursor < x => x \in P
      /\ j.op = "backward" =>
            /\ \A y \in P : y < j.cursor
            /\ \A x \in Existing, y \in P : y <= x /\ x < j.cursor => x \in P
            /\ Cardinality(P) < Want(j) \/ P = {} => \A x \in Existing : x < j.cursor => x \in P
  BY <1>0, <1>1, AnswerIs
<1>4. /\ chan' \in Flags /\ chan'.opened = chan.opened /\ upsets' \in Nat
      /\ UNCHANGED <<lost, top, gone, wire, alive, kept, held, ranges, notes, checks, dispatch,
                     last_live>>
  BY <1>0 DEF JobAnswered, serverVars, diskVars, storeVars, gapVars, gwVars, Types, StoreOK, RestOK
<1>5. /\ j.from \in Nat /\ j.until \in Nat /\ j.cursor \in Nat /\ j.edge \in Nat /\ j.left \in Nat
      /\ \A x \in Existing : x \in Nat /\ x \in Sent
      /\ j.op \in {"fetch", "forward", "backward"}
  BY <1>0 DEF Jobs, JobIs, Existing, Sent
<1>6. CASE P = {} /\ j.op # "fetch"
  <2>. DEFINE n == [j EXCEPT !.reached = TRUE, !.pc = "end"]
  <2>1. n \in Jobs /\ n.pc = "end" BY <1>0 DEF Jobs
  <2>2. /\ n.op = j.op /\ n.from = j.from /\ n.until = j.until /\ n.cursor = j.cursor
        /\ n.edge = j.edge /\ n.fetched = j.fetched
    BY <1>0 DEF Jobs
  <2>3. n.reached BY <1>0 DEF Jobs
  <2>4. jobs' = [jobs EXCEPT ![k] = n] BY <1>2, <1>6
  <2>. HIDE DEF n
  <2>5. JobMoves(k, n) /\ checks' = checks /\ LinesAre' /\ Types' /\ Grows /\ Existing' = Existing
    BY <1>0, <1>4, <2>1, <2>4, JobAlone DEF Types, DiskOK
  <2>6. held \subseteq held' /\ JobIs(j)' BY <1>0, <1>4, <2>5, JobStays
  <2>7. ASSUME j.op = "forward" PROVE ForwardIs(n)'
    <3>1. ForwardIs(j)' BY <1>0, <2>6, <2>7 DEF JobIs
    <3>2. Whole(j.from, j.until)'
      <4>1. \A x \in Existing' : ~(j.cursor < x) BY <1>3, <1>6, <2>5, <2>7
      <4>2. \A x \in Existing' : j.from <= x /\ x <= j.cursor => x \in Known'
        BY <3>1 DEF ForwardIs, Whole
      <4>3. \A x \in Existing' : x <= j.cursor BY <1>5, <2>5, <4>1
      <4>. QED BY <4>2, <4>3 DEF Whole
    <3>. QED BY <2>1, <2>2, <2>3, <3>1, <3>2 DEF ForwardIs
  <2>8. ASSUME j.op = "backward" PROVE BackwardIs(n)'
    <3>1. BackwardIs(j)' BY <1>0, <2>6, <2>8 DEF JobIs
    <3>2. Whole(j.until, j.from)'
      <4>1. \A x \in Existing' : ~(x < j.cursor) BY <1>3, <1>6, <2>5, <2>8
      <4>2. \A x \in Existing' : j.cursor <= x /\ x <= j.from => x \in Known'
        BY <3>1 DEF BackwardIs, Whole
      <4>3. \A x \in Existing' : j.cursor <= x BY <1>5, <2>5, <4>1
      <4>. QED BY <4>2, <4>3 DEF Whole
    <3>. QED BY <2>1, <2>2, <2>3, <3>1, <3>2 DEF BackwardIs
  <2>9. JobIs(n)' BY <1>5, <1>6, <2>1, <2>2, <2>7, <2>8 DEF JobIs
  <2>. QED BY <2>1, <2>5, <2>9, JobCarries
<1>7. CASE ~(P = {} /\ j.op # "fetch")
  <2>. DEFINE n == [j EXCEPT !.page = P, !.pc = "fold"]
  <2>1. n \in Jobs /\ n.pc = "fold" /\ n.page = P BY <1>0, <1>3 DEF Jobs
  <2>2. /\ n.op = j.op /\ n.from = j.from /\ n.until = j.until /\ n.cursor = j.cursor
        /\ n.edge = j.edge /\ n.fetched = j.fetched /\ n.left = j.left /\ n.reached = j.reached
    BY <1>0 DEF Jobs
  <2>3. Want(n) = Want(j) BY <2>2 DEF Want
  <2>4. jobs' = [jobs EXCEPT ![k] = n] BY <1>2, <1>7
  <2>. HIDE DEF n
  <2>5. /\ JobMoves(k, n) /\ checks' = checks /\ LinesAre' /\ Types' /\ Grows
        /\ Existing' = Existing /\ Sent' = Sent
    BY <1>0, <1>4, <2>1, <2>4, JobAlone DEF Types, DiskOK
  <2>6. held \subseteq held' /\ JobIs(j)' BY <1>0, <1>4, <2>5, JobStays
  <2>7. ASSUME j.op = "forward" PROVE ForwardIs(n)'
    <3>1. ForwardIs(j)' BY <1>0, <2>6, <2>7 DEF JobIs
    <3>2. /\ \A y \in n.page : y > n.cursor
          /\ \A x \in Existing', y \in n.page : n.cursor < x /\ x <= y => x \in n.page
          /\ Cardinality(n.page) < Want(n) =>
                \A x \in Existing' : n.cursor < x /\ x <= n.until => x \in n.page
      BY <1>3, <2>1, <2>2, <2>3, <2>5, <2>7
    <3>. QED BY <2>1, <2>2, <3>1, <3>2 DEF ForwardIs
  <2>8. ASSUME j.op = "backward" PROVE BackwardIs(n)'
    <3>1. BackwardIs(j)' BY <1>0, <2>6, <2>8 DEF JobIs
    <3>2. /\ \A y \in n.page : y < n.cursor
          /\ \A x \in Existing', y \in n.page : y <= x /\ x < n.cursor => x \in n.page
          /\ Cardinality(n.page) < Want(n) =>
                \A x \in Existing' : x < n.cursor => x \in n.page
      BY <1>3, <2>1, <2>2, <2>3, <2>5, <2>8
    <3>. QED BY <2>1, <2>2, <3>1, <3>2 DEF BackwardIs
  <2>9. j.op = "fetch" => FetchIs(n)' BY <1>3, <2>1, <2>5 DEF FetchIs
  <2>10. n.page \subseteq Sent' /\ Cardinality(n.page) <= n.left /\ n.left > 0 /\ ~n.reached
         /\ (n.op = "fetch" => n.edge = 0)
    BY <1>0, <1>3, <1>5, <2>1, <2>2, <2>5 DEF JobIs
  <2>11. n.op # "fetch" => n.page # {} BY <1>7, <2>1, <2>2
  <2>12. JobIs(n)' BY <1>5, <2>1, <2>2, <2>7, <2>8, <2>9, <2>10, <2>11 DEF JobIs
  <2>. QED BY <2>1, <2>5, <2>12, JobCarries
<1>. QED BY <1>6, <1>7

\* No answer comes: a fetch takes its lock off, a fill ends with what it has.
LEMMA JobFailedKeeps ==
    ASSUME Inv, NEW k \in JobSlots, JobFailed(k)
    PROVE  Inv'
<1>. PICK j : j = jobs[k] OBVIOUS
<1>0. j \in Jobs /\ JobIs(j) /\ j.pc = "ask" /\ jobs[k].pc = "ask" /\ Types
  BY JobAt DEF JobFailed, Inv
<1>. DEFINE n == [j EXCEPT !.pc = IF j.op = "fetch" THEN "unlock" ELSE "end"]
<1>1. n \in Jobs /\ n.pc = IF j.op = "fetch" THEN "unlock" ELSE "end" BY <1>0 DEF Jobs
<1>2. /\ n.op = j.op /\ n.from = j.from /\ n.until = j.until /\ n.cursor = j.cursor
      /\ n.edge = j.edge /\ n.fetched = j.fetched /\ n.left = j.left /\ n.reached = j.reached
  BY <1>0 DEF Jobs
<1>3. jobs' = [jobs EXCEPT ![k] = n] BY DEF JobFailed, SetJob
<1>. HIDE DEF n
<1>4. /\ chan' \in Flags /\ chan'.opened = chan.opened /\ upsets' \in Nat
      /\ lost' = lost \union (FirstPageOf(j) \ kept) /\ lost' \subseteq Sent
      /\ UNCHANGED <<top, gone, wire, alive, kept, held, ranges, notes, checks, dispatch,
                     last_live>>
  <2>1. chan \in Flags /\ upsets \in Nat BY <1>0 DEF Types, StoreOK, RestOK
  <2>2. chan' = chan \/ chan' = Refused BY DEF JobFailed
  <2>3. Refused \in Flags /\ Refused.opened = chan.opened BY <2>1 DEF Refused, Flags
  <2>4. upsets' \in Nat BY <2>1 DEF JobFailed, Upset
  <2>5. UNCHANGED <<top, gone, wire, alive, kept, held, ranges, notes, checks, dispatch,
                    last_live>>
    BY DEF JobFailed, serverVars, diskVars, gapVars, gwVars
  <2>6. lost' = lost \union (FirstPageOf(j) \ kept) BY DEF JobFailed
  <2>7. lost' \subseteq Sent
    BY <1>0, <2>6 DEF Types, ServerOK, DiskOK, FirstPageOf, Existing, Sent
  <2>. QED BY <2>1, <2>2, <2>3, <2>4, <2>5, <2>6, <2>7
<1>5. JobMoves(k, n) /\ checks' = checks /\ LinesAre' /\ Types' /\ Grows
  BY <1>0, <1>1, <1>3, <1>4, JobAlone
<1>6. held \subseteq held' /\ JobIs(j)' BY <1>0, <1>4, <1>5, JobStays
<1>7. ~j.reached BY <1>0 DEF JobIs
<1>8. ASSUME j.op = "forward" PROVE ForwardIs(n)'
  <2>1. ForwardIs(j)' BY <1>0, <1>6, <1>8 DEF JobIs
  <2>2. /\ j.from \in Nat /\ j.until \in Nat /\ j.from # 0 /\ j.until # 0 /\ j.fetched \in Nat
        /\ j.from <= j.cursor /\ j.cursor \in Nat
        /\ j.from < j.until /\ j.until \in Known /\ Whole(j.from, j.cursor)
    BY <1>0, <1>8 DEF JobIs, ForwardIs, Sent, Jobs
  <2>3. ASSUME j.fetched = 0, NEW x \in Existing', j.from <= x, x <= j.until
        PROVE  x \in Known'
    <3>1. x \in Existing /\ x \in Nat /\ x # 0 BY <1>4, <2>3 DEF Existing
    <3>2. CASE x = j.from \/ x = j.until
      <4>1. x \in Known BY <2>2, <3>1, <3>2 DEF Whole
      <4>. QED BY <1>5, <4>1 DEF Grows
    <3>3. CASE x # j.from /\ x # j.until
      <4>1. x \in FirstPageOf(j) BY <1>8, <2>2, <2>3, <3>1, <3>3 DEF FirstPageOf
      <4>2. x \in lost' \/ x \in kept' BY <1>4, <4>1
      <4>. QED BY <3>1, <4>2, KnownThen
    <3>. QED BY <3>2, <3>3
  <2>4. j.fetched > 0 \/ Whole(j.from, j.until)' BY <2>2, <2>3 DEF Whole
  <2>. QED BY <1>1, <1>2, <1>7, <1>8, <2>1, <2>4 DEF ForwardIs
<1>9. ASSUME j.op = "backward" PROVE BackwardIs(n)'
  <2>1. BackwardIs(j)' BY <1>0, <1>6, <1>9 DEF JobIs
  <2>. QED BY <1>1, <1>2, <1>7, <1>9, <2>1 DEF BackwardIs
<1>10. j.op = "fetch" => FetchIs(n)' BY <1>1 DEF FetchIs
<1>11. JobIs(n)' BY <1>0, <1>1, <1>2, <1>8, <1>9, <1>10 DEF JobIs
<1>. QED BY <1>1, <1>5, <1>11, JobCarries

\* The lock of a fetch without an answer comes off.
LEMMA JobUnlockKeeps ==
    ASSUME Inv, NEW k \in JobSlots, JobUnlock(k)
    PROVE  Inv'
<1>0. jobs[k].pc = "unlock" /\ Types BY DEF JobUnlock, Inv
<1>1. /\ chan' \in Flags /\ chan'.opened = chan.opened /\ upsets' \in Nat
      /\ jobs' = [jobs EXCEPT ![k] = NoJob]
      /\ UNCHANGED <<lost, top, gone, wire, alive, kept, held, ranges, notes, checks, dispatch,
                     last_live>>
  BY <1>0 DEF JobUnlock, SetJob, Unlocked, serverVars, diskVars, gapVars, gwVars, Types, StoreOK,
              RestOK, Flags
<1>2. NoJob \in Jobs /\ JobIs(NoJob)' BY NoJobIs
<1>3. JobMoves(k, NoJob) /\ checks' = checks /\ LinesAre' BY <1>0, <1>1, <1>2, JobAlone DEF Types, DiskOK
<1>. QED BY <1>2, <1>3, JobCarries

\* A page is folded into the store.
LEMMA JobFoldKeeps ==
    ASSUME Inv, NEW k \in JobSlots, JobFold(k)
    PROVE  Inv'
<1>. PICK j : j = jobs[k] OBVIOUS
<1>0. j \in Jobs /\ JobIs(j) /\ j.pc = "fold" /\ jobs[k].pc = "fold" /\ Types /\ alive
  BY JobAt DEF JobFold, Inv
<1>. DEFINE n == [j EXCEPT !.pc = "keep"]
<1>1. n \in Jobs /\ n.pc = "keep" BY <1>0 DEF Jobs
<1>2. /\ n.op = j.op /\ n.from = j.from /\ n.until = j.until /\ n.cursor = j.cursor
      /\ n.edge = j.edge /\ n.fetched = j.fetched /\ n.left = j.left /\ n.reached = j.reached
      /\ n.page = j.page
  BY <1>0 DEF Jobs
<1>3. jobs' = [jobs EXCEPT ![k] = n] BY DEF JobFold, SetJob
<1>. HIDE DEF n
<1>4. /\ held' = held \union j.page /\ upsets' = upsets
      /\ UNCHANGED <<lost, top, gone, wire, alive, kept, ranges, notes, checks, dispatch, last_live>>
  BY DEF JobFold, serverVars, diskVars, gapVars, gwVars
<1>5. chan' \in Flags /\ chan'.opened = chan.opened
  <2>1. chan \in Flags BY <1>0 DEF Types, StoreOK
  <2>2. CASE j.op = "fetch"
    <3>1. PICK e \in BOOLEAN : chan' = [chan EXCEPT !.loading = FALSE, !.loaded = TRUE,
                                                     !.failed = FALSE, !.exhausted = e]
      <4>1. chan' = [chan EXCEPT !.loading = FALSE, !.loaded = TRUE, !.failed = FALSE,
                                 !.exhausted = @ \/ Cardinality(j.page) < Page]
        BY <2>2 DEF JobFold
      <4>2. (chan.exhausted \/ Cardinality(j.page) < Page) \in BOOLEAN OBVIOUS
      <4>. QED BY <4>1, <4>2
    <3>. QED BY <2>1, <3>1 DEF Flags
  <2>3. CASE j.op # "fetch"
    <3>1. chan' = chan BY <2>3 DEF JobFold
    <3>. QED BY <2>1, <3>1
  <2>. QED BY <2>2, <2>3
<1>6. j.page \subseteq Sent BY <1>0 DEF JobIs
<1>7. JobMoves(k, n)
  BY <1>0, <1>1, <1>2, <1>3, <1>4, <1>5, <1>6
  DEF JobMoves, Types, DiskOK, StoreOK, NotesOK, JobsOK, RestOK
<1>8. Types' /\ Grows BY <1>1, <1>7, JobSteps
<1>9. LinesAre' BY <1>0, <1>4, <1>8, LinesStay DEF Inv
<1>10. JobIs(j)' BY <1>0, <1>4, <1>8, JobStays
<1>11. Want(n) = Want(j) BY <1>2 DEF Want
<1>12. ASSUME j.op = "forward" PROVE ForwardIs(n)'
  <2>1. ForwardIs(j)' BY <1>0, <1>10, <1>12 DEF JobIs
  <2>. QED BY <1>0, <1>1, <1>2, <1>11, <2>1 DEF ForwardIs
<1>13. ASSUME j.op = "backward" PROVE BackwardIs(n)'
  <2>1. BackwardIs(j)' BY <1>0, <1>10, <1>13 DEF JobIs
  <2>. QED BY <1>0, <1>1, <1>2, <1>11, <2>1 DEF BackwardIs
<1>14. ASSUME j.op = "fetch" PROVE FetchIs(n)'
  <2>1. FetchIs(j)' BY <1>0, <1>10, <1>14 DEF JobIs
  <2>. QED BY <1>0, <1>1, <1>2, <2>1 DEF FetchIs
<1>15. n.page \subseteq held' BY <1>2, <1>4
<1>16. /\ n.page \subseteq Sent' /\ Cardinality(n.page) <= n.left /\ n.left > 0 /\ ~n.reached
       /\ n.op # "none" /\ (n.op # "fetch" => n.page # {}) /\ (n.op = "fetch" => n.edge = 0)
  BY <1>0, <1>2, <1>10 DEF JobIs
<1>17. JobIs(n)' BY <1>1, <1>2, <1>12, <1>13, <1>14, <1>15, <1>16 DEF JobIs
<1>. QED BY <1>1, <1>4, <1>7, <1>9, <1>17, JobCarries

\* The ends of a page.
LEMMA EndsOf ==
    ASSUME NEW m \in Nat, NEW S \in SUBSET (1..m), S # {}
    PROVE  /\ Min(S) \in S /\ Max(S) \in S /\ Min(S) \in 1..m /\ Max(S) \in 1..m
           /\ \A y \in S : Min(S) <= y /\ y <= Max(S)
<1>1. S \in SUBSET Nat /\ S \in SUBSET (0..m) OBVIOUS
<1>2. Min(S) \in S /\ \A y \in S : Min(S) <= y BY <1>1, MinIs
<1>3. Max(S) \in S /\ \A y \in S : y <= Max(S) BY <1>1, MaxIs
<1>. QED BY <1>2, <1>3

\* What is left of a job after its page is kept.
Rest(j, edge, pc, cursor, reached) ==
    [j EXCEPT !.edge = edge, !.fetched = @ + Cardinality(j.page),
              !.left = @ - Cardinality(j.page), !.page = {}, !.pc = pc, !.cursor = cursor,
              !.reached = reached]

\* Its cursor is at the end of the page, and it goes on unless the far side is
\* reached or nothing is left to spend.
LEMMA KeptIs ==
    ASSUME Inv, NEW j \in Jobs, JobIs(j), j.pc = "keep"
    PROVE  \E edge \in 0..MaxId, cursor \in 0..MaxId, pc \in {"ask", "end"}, reached \in BOOLEAN :
              /\ Kept(j) = Rest(j, edge, pc, cursor, reached)
              /\ edge = IF j.page = {} THEN 0
                        ELSE IF j.edge = 0 \/ Min(j.page) < j.edge THEN Min(j.page) ELSE j.edge
              /\ j.op = "fetch" => /\ pc = "end" /\ ~reached
                                   /\ cursor = IF j.page = {} THEN 0 ELSE Max(j.page)
              /\ j.op = "forward" => /\ cursor = Max(j.page)
                                     /\ reached <=> ReachedForward(j)
              /\ j.op = "backward" => /\ cursor = Min(j.page)
                                      /\ reached <=> ReachedBackward(j)
              /\ j.op # "fetch" =>
                    (pc = "ask" <=> ~reached /\ j.left - Cardinality(j.page) > 0)
<1>. DEFINE e == IF j.page = {} THEN 0
                 ELSE IF j.edge = 0 \/ Min(j.page) < j.edge THEN Min(j.page) ELSE j.edge
<1>0. /\ top \in 0..MaxId /\ top \in Nat /\ MaxId \in Nat /\ j.page \in SUBSET (1..top)
      /\ j.edge \in 0..MaxId /\ j.left \in Nat /\ j.fetched \in Nat
      /\ j.op \in {"fetch", "forward", "backward"} /\ ~j.reached
      /\ j.op # "fetch" => j.page # {}
  BY LimitsAssumption DEF Inv, Types, ServerOK, Jobs, JobIs, Sent, LimitsAssumption
<1>1. j.page # {} => Min(j.page) \in 1..top /\ Max(j.page) \in 1..top BY <1>0, EndsOf
<1>2. e \in 0..MaxId BY <1>0, <1>1
<1>3. e = IF j.page = {} THEN 0
          ELSE IF j.edge = 0 \/ Min(j.page) < j.edge THEN Min(j.page) ELSE j.edge
  OBVIOUS
<1>4. Kept(j) = LET next == [j EXCEPT !.edge = e, !.fetched = @ + Cardinality(j.page),
                                      !.left = @ - Cardinality(j.page), !.page = {}]
                    done == [next EXCEPT !.pc = "end", !.reached = TRUE]
                    more == [next EXCEPT !.pc = IF next.left > 0 THEN "ask" ELSE "end"]
                IN CASE j.op = "fetch" ->
                          [next EXCEPT !.pc = "end",
                                       !.cursor = IF j.page = {} THEN 0 ELSE Max(j.page)]
                     [] j.op = "forward" ->
                          [IF ReachedForward(j) THEN done ELSE more EXCEPT !.cursor = Max(j.page)]
                     [] j.op = "backward" ->
                          [IF ReachedBackward(j) THEN done ELSE more EXCEPT !.cursor = Min(j.page)]
  BY DEF Kept
<1>. HIDE DEF e
<1>. DEFINE next == [j EXCEPT !.edge = e, !.fetched = @ + Cardinality(j.page),
                              !.left = @ - Cardinality(j.page), !.page = {}]
            yes == TRUE
            no == FALSE
<1>5. next.left = j.left - Cardinality(j.page) BY DEF Jobs
<1>6. yes \in BOOLEAN /\ yes /\ no \in BOOLEAN /\ ~no OBVIOUS
<1>7. CASE j.op = "fetch"
  <2>1. Kept(j) = [next EXCEPT !.pc = "end", !.cursor = IF j.page = {} THEN 0 ELSE Max(j.page)]
    BY <1>4, <1>7
  <2>2. j.reached = no BY <1>0 DEF Jobs
  <2>. DEFINE c == IF j.page = {} THEN 0 ELSE Max(j.page)
  <2>3. Kept(j) = Rest(j, e, "end", c, no) BY <2>1, <2>2 DEF Rest, Jobs
  <2>4. c \in 0..MaxId BY <1>0, <1>1
  <2>. HIDE DEF c, no
  <2>5. c = IF j.page = {} THEN 0 ELSE Max(j.page) BY DEF c
  <2>. QED BY <1>2, <1>3, <1>6, <1>7, <2>3, <2>4, <2>5
<1>8. ASSUME j.op # "fetch", NEW c \in 0..MaxId, NEW r \in BOOLEAN,
             Kept(j) = [IF r THEN [next EXCEPT !.pc = "end", !.reached = TRUE]
                        ELSE [next EXCEPT !.pc = IF next.left > 0 THEN "ask" ELSE "end"]
                        EXCEPT !.cursor = c]
      PROVE  \E pc \in {"ask", "end"} :
                /\ Kept(j) = Rest(j, e, pc, c, r)
                /\ pc = "ask" <=> ~r /\ j.left - Cardinality(j.page) > 0
  <2>1. CASE r
    <3>1. Kept(j) = Rest(j, e, "end", c, r) BY <1>8, <2>1 DEF Rest, Jobs
    <3>. QED BY <2>1, <3>1
  <2>2. CASE ~r
    <3>1. r = j.reached BY <1>0, <2>2 DEF Jobs
    <3>. DEFINE p == IF j.left - Cardinality(j.page) > 0 THEN "ask" ELSE "end"
    <3>2. Kept(j) = Rest(j, e, p, c, r) BY <1>5, <1>8, <2>2, <3>1 DEF Rest, Jobs
    <3>3. p \in {"ask", "end"} /\ (p = "ask" <=> j.left - Cardinality(j.page) > 0) OBVIOUS
    <3>. HIDE DEF p
    <3>. QED BY <2>2, <3>2, <3>3
  <2>. QED BY <2>1, <2>2
<1>9. CASE j.op = "forward"
  <2>1. PICK c, r : c = Max(j.page) /\ r = ReachedForward(j) OBVIOUS
  <2>2. c \in 0..MaxId /\ r \in BOOLEAN BY <1>0, <1>1, <1>9, <2>1 DEF ReachedForward
  <2>3. PICK pc \in {"ask", "end"} : /\ Kept(j) = Rest(j, e, pc, c, r)
                                     /\ pc = "ask" <=> ~r /\ j.left - Cardinality(j.page) > 0
    BY <1>4, <1>8, <1>9, <2>1, <2>2
  <2>. HIDE DEF next
  <2>. QED BY <1>2, <1>3, <1>9, <2>1, <2>2, <2>3
<1>10. CASE j.op = "backward"
  <2>1. PICK c, r : c = Min(j.page) /\ r = ReachedBackward(j) OBVIOUS
  <2>2. c \in 0..MaxId /\ r \in BOOLEAN BY <1>0, <1>1, <1>10, <2>1 DEF ReachedBackward
  <2>3. PICK pc \in {"ask", "end"} : /\ Kept(j) = Rest(j, e, pc, c, r)
                                     /\ pc = "ask" <=> ~r /\ j.left - Cardinality(j.page) > 0
    BY <1>4, <1>8, <1>10, <2>1, <2>2
  <2>. HIDE DEF next
  <2>. QED BY <1>2, <1>3, <1>10, <2>1, <2>2, <2>3
<1>. QED BY <1>0, <1>7, <1>9, <1>10

\* A folded page is kept.
LEMMA JobKeepKeeps ==
    ASSUME Inv, NEW k \in JobSlots, JobKeep(k)
    PROVE  Inv'
<1>. PICK j : j = jobs[k] OBVIOUS
<1>0. j \in Jobs /\ JobIs(j) /\ j.pc = "keep" /\ jobs[k].pc = "keep" /\ Types /\ alive
  BY JobAt DEF JobKeep, Inv
<1>1. PICK edge \in 0..MaxId, cursor \in 0..MaxId, pc \in {"ask", "end"}, reached \in BOOLEAN :
         /\ Kept(j) = Rest(j, edge, pc, cursor, reached)
         /\ edge = IF j.page = {} THEN 0
                   ELSE IF j.edge = 0 \/ Min(j.page) < j.edge THEN Min(j.page) ELSE j.edge
         /\ j.op = "fetch" => /\ pc = "end" /\ ~reached
                              /\ cursor = IF j.page = {} THEN 0 ELSE Max(j.page)
         /\ j.op = "forward" => /\ cursor = Max(j.page)
                                /\ reached <=> ReachedForward(j)
         /\ j.op = "backward" => /\ cursor = Min(j.page)
                                 /\ reached <=> ReachedBackward(j)
         /\ j.op # "fetch" =>
               (pc = "ask" <=> ~reached /\ j.left - Cardinality(j.page) > 0)
  BY <1>0, KeptIs
<1>2. /\ top \in 0..MaxId /\ top \in Nat /\ MaxId \in Nat /\ j.page \in SUBSET (1..top)
      /\ j.page \subseteq held /\ j.edge \in Nat /\ j.left \in Nat /\ j.fetched \in Nat
      /\ j.from \in Nat /\ j.until \in Nat /\ j.cursor \in Nat
      /\ j.op \in {"fetch", "forward", "backward"} /\ ~j.reached
      /\ j.op # "fetch" => j.page # {}
      /\ j.op = "fetch" => j.edge = 0
  BY <1>0, LimitsAssumption DEF Types, ServerOK, Jobs, JobIs, Sent, LimitsAssumption
<1>3. /\ Cardinality(j.page) \in Nat /\ Cardinality(j.page) <= j.left
      /\ j.page # {} => Cardinality(j.page) > 0
  <2>0. top \in Int BY <1>2
  <2>1. IsFiniteSet(1..top) BY <2>0, FS_Interval
  <2>2. IsFiniteSet(j.page) BY <1>2, <2>1, FS_Subset
  <2>3. Cardinality(j.page) \in Nat /\ (Cardinality(j.page) = 0 <=> j.page = {})
    BY <2>2, FS_CardinalityType, FS_EmptySet
  <2>. QED BY <1>0, <2>3 DEF JobIs
<1>4. j.page # {} => /\ Min(j.page) \in j.page /\ Max(j.page) \in j.page
                     /\ Min(j.page) \in 1..top /\ Max(j.page) \in 1..top
                     /\ \A y \in j.page : Min(j.page) <= y /\ y <= Max(j.page)
  BY <1>2, EndsOf
<1>. DEFINE n == Rest(j, edge, pc, cursor, reached)
<1>5. jobs' = [jobs EXCEPT ![k] = n] BY <1>1 DEF JobKeep, SetJob
<1>6. /\ n.pc = pc /\ n.op = j.op /\ n.from = j.from /\ n.until = j.until /\ n.cursor = cursor
      /\ n.edge = edge /\ n.fetched = j.fetched + Cardinality(j.page)
      /\ n.left = j.left - Cardinality(j.page) /\ n.reached = reached /\ n.page = {}
  BY <1>0 DEF Rest, Jobs
<1>7. n \in Jobs
  <2>1. j.fetched + Cardinality(j.page) \in Nat /\ j.left - Cardinality(j.page) \in Nat
    BY <1>2, <1>3
  <2>. QED BY <1>0, <2>1 DEF Rest, Jobs
<1>. HIDE DEF n
<1>8. /\ kept' = kept \union j.page
      /\ UNCHANGED <<lost, top, gone, wire, alive, held, chan, ranges, notes, checks, dispatch,
                     last_live, upsets>>
  BY <1>2 DEF JobKeep, PutJson, serverVars, storeVars, gapVars, gwVars
<1>9. JobMoves(k, n)
  BY <1>0, <1>2, <1>5, <1>8
  DEF JobMoves, Types, DiskOK, StoreOK, NotesOK, JobsOK, RestOK, Sent
<1>10. Types' /\ Grows /\ Existing' = Existing /\ Sent' = Sent BY <1>7, <1>9, JobSteps
<1>11. LinesAre' BY <1>0, <1>8, <1>10, LinesStay DEF Inv
<1>12. JobIs(j)' BY <1>0, <1>8, <1>10, JobStays
<1>13. /\ \A x \in Existing' : x \in Nat /\ x \in Existing
       /\ \A x \in j.page : x \in Known'
  <2>1. \A x \in j.page : x \in kept' /\ x # 0 BY <1>2, <1>8
  <2>2. \A x \in j.page : x \in Known' BY <2>1, KnownThen
  <2>. QED BY <1>10, <2>2 DEF Existing
<1>14. ASSUME j.op = "forward" PROVE ForwardIs(n)'
  <2>1. ForwardIs(j)' BY <1>0, <1>12, <1>14 DEF JobIs
  <2>2. j.page # {} /\ cursor = Max(j.page) /\ cursor \in j.page /\ cursor <= top'
        /\ \A y \in j.page : y <= cursor
    BY <1>1, <1>2, <1>4, <1>8, <1>14
  <2>3. j.cursor < cursor /\ j.cursor < Min(j.page) BY <1>0, <1>4, <2>1, <2>2 DEF ForwardIs
  <2>4. edge <= cursor /\ edge # 0
    BY <1>1, <1>2, <1>4, <2>1, <2>2, <2>3 DEF ForwardIs
  <2>5. Whole(j.from, cursor)'
    <3>1. SUFFICES ASSUME NEW x \in Existing', j.from <= x, x <= cursor PROVE x \in Known'
      BY DEF Whole
    <3>2. CASE x <= j.cursor BY <2>1, <3>1, <3>2 DEF ForwardIs, Whole
    <3>3. CASE j.cursor < x
      <4>1. x \in j.page BY <1>0, <2>1, <2>2, <3>1, <3>3 DEF ForwardIs
      <4>. QED BY <1>13, <4>1
    <3>. QED BY <1>2, <1>13, <3>2, <3>3
  <2>6. ASSUME reached PROVE Whole(j.from, j.until)'
    <3>1. SUFFICES ASSUME NEW x \in Existing', j.from <= x, x <= j.until PROVE x \in Known'
      BY DEF Whole
    <3>2. Max(j.page) >= j.until \/ Cardinality(j.page) < Want(j)
      BY <1>1, <1>14, <2>6 DEF ReachedForward
    <3>3. CASE Max(j.page) >= j.until
      <4>1. x <= cursor BY <1>2, <1>4, <1>13, <2>2, <3>1, <3>3
      <4>. QED BY <2>5, <3>1, <4>1 DEF Whole
    <3>4. CASE Cardinality(j.page) < Want(j)
      <4>1. CASE x <= j.cursor BY <2>1, <3>1, <4>1 DEF ForwardIs, Whole
      <4>2. CASE j.cursor < x
        <5>1. x \in j.page BY <1>0, <2>1, <3>1, <3>4, <4>2 DEF ForwardIs
        <5>. QED BY <1>13, <5>1
      <4>. QED BY <1>2, <1>13, <4>1, <4>2
    <3>. QED BY <3>2, <3>3, <3>4
  <2>7. n.fetched > 0 BY <1>2, <1>3, <1>6, <2>2
  <2>8. n.pc \notin {"fold", "keep"} BY <1>6
  <2>9. n.from <= n.cursor BY <1>2, <1>6, <2>1, <2>2, <2>3, <1>4 DEF ForwardIs
  <2>. QED BY <1>6, <2>1, <2>2, <2>4, <2>5, <2>6, <2>7, <2>8, <2>9 DEF ForwardIs
<1>15. ASSUME j.op = "backward" PROVE BackwardIs(n)'
  <2>1. BackwardIs(j)' BY <1>0, <1>12, <1>15 DEF JobIs
  <2>2. j.page # {} /\ cursor = Min(j.page) /\ cursor \in j.page
        /\ \A y \in j.page : cursor <= y
    BY <1>1, <1>2, <1>4, <1>15
  <2>3. cursor < j.cursor BY <1>0, <2>1, <2>2 DEF BackwardIs
  <2>4. cursor <= edge /\ edge < j.from
    BY <1>1, <1>2, <1>4, <2>1, <2>2, <2>3 DEF BackwardIs
  <2>5. Whole(cursor, j.from)'
    <3>1. SUFFICES ASSUME NEW x \in Existing', cursor <= x, x <= j.from PROVE x \in Known'
      BY DEF Whole
    <3>2. CASE j.cursor <= x BY <2>1, <3>1, <3>2 DEF BackwardIs, Whole
    <3>3. CASE x < j.cursor
      <4>1. x \in j.page BY <1>0, <2>1, <2>2, <3>1, <3>3 DEF BackwardIs
      <4>. QED BY <1>13, <4>1
    <3>. QED BY <1>2, <1>13, <3>2, <3>3
  <2>6. ASSUME reached PROVE Whole(j.until, j.from)'
    <3>1. SUFFICES ASSUME NEW x \in Existing', j.until <= x, x <= j.from PROVE x \in Known'
      BY DEF Whole
    <3>2. Min(j.page) <= j.until \/ Cardinality(j.page) < Want(j)
      BY <1>1, <1>15, <2>6 DEF ReachedBackward
    <3>3. CASE Min(j.page) <= j.until
      <4>1. cursor <= x BY <1>2, <1>4, <1>13, <2>2, <3>1, <3>3
      <4>. QED BY <2>5, <3>1, <4>1 DEF Whole
    <3>4. CASE Cardinality(j.page) < Want(j)
      <4>1. CASE j.cursor <= x BY <2>1, <3>1, <4>1 DEF BackwardIs, Whole
      <4>2. CASE x < j.cursor
        <5>1. x \in j.page BY <1>0, <2>1, <3>4, <4>2 DEF BackwardIs
        <5>. QED BY <1>13, <5>1
      <4>. QED BY <1>2, <1>13, <4>1, <4>2
    <3>. QED BY <3>2, <3>3, <3>4
  <2>7. n.pc \notin {"fold", "keep"} BY <1>6
  <2>8. n.cursor <= n.from BY <1>2, <1>4, <1>6, <2>1, <2>2, <2>3 DEF BackwardIs
  <2>. QED BY <1>6, <2>1, <2>4, <2>5, <2>6, <2>7, <2>8 DEF BackwardIs
<1>16. ASSUME j.op = "fetch" PROVE FetchIs(n)'
  <2>1. FetchIs(j)' BY <1>0, <1>12, <1>16 DEF JobIs
  <2>2. n.pc = "end" BY <1>1, <1>6, <1>16
  <2>3. ASSUME edge # 0
        PROVE  edge <= cursor /\ cursor <= top' /\ Whole(edge, cursor)'
    <3>1. /\ j.page # {} /\ edge = Min(j.page) /\ cursor = Max(j.page)
          /\ edge \in j.page /\ cursor \in j.page
      BY <1>1, <1>2, <1>4, <1>16, <2>3
    <3>2. edge <= cursor /\ cursor <= top' BY <1>2, <1>4, <1>8, <3>1
    <3>3. \A x \in Existing' : edge <= x /\ x <= cursor => x \in j.page
      BY <1>0, <2>1, <3>1 DEF FetchIs
    <3>. QED BY <1>13, <3>2, <3>3 DEF Whole
  <2>. QED BY <1>6, <2>2, <2>3 DEF FetchIs
<1>17. /\ n.pc \notin {"none", "fold", "keep", "unlock"} /\ n.op # "none"
       /\ n.op = "fetch" => ~n.reached
       /\ n.pc = "ask" => n.left > 0 /\ ~n.reached /\ n.op # "fetch"
  BY <1>1, <1>2, <1>6
<1>18. JobIs(n)' BY <1>6, <1>14, <1>15, <1>16, <1>17 DEF JobIs
<1>. QED BY <1>7, <1>8, <1>9, <1>11, <1>18, JobCarries

\* What a job that ends writes down is so.
LEMMA JobEndKeeps ==
    ASSUME Inv, NEW k \in JobSlots, JobEnd(k)
    PROVE  Inv'
<1>. PICK j : j = jobs[k] OBVIOUS
<1>0. j \in Jobs /\ JobIs(j) /\ j.pc = "end" /\ jobs[k].pc = "end" /\ Types /\ alive
  BY JobAt DEF JobEnd, Inv
<1>1. /\ j.from \in 0..MaxId /\ j.until \in 0..MaxId /\ j.cursor \in 0..MaxId
      /\ j.edge \in 0..MaxId /\ j.fetched \in Nat /\ MaxId \in Nat
      /\ j.op \in {"fetch", "forward", "backward"}
  BY <1>0, LimitsAssumption DEF Jobs, JobIs, LimitsAssumption
<1>2. ranges \in Seq(Runs) /\ chan \in Flags /\ top \in 0..MaxId
  BY <1>0 DEF Types, ServerOK, DiskOK, StoreOK
<1>3. \E a \in 0..MaxId, b \in 0..MaxId :
         /\ ranges' = ranges \/ ranges' = Noted(ranges, a, b)
         /\ a # 0 /\ b # 0 => a <= b /\ b <= top /\ Whole(a, b)
  <2>1. CASE j.op = "fetch"
    <3>1. ranges' = Noted(ranges, j.edge, j.cursor) BY <2>1 DEF JobEnd
    <3>2. j.edge # 0 => j.edge <= j.cursor /\ j.cursor <= top /\ Whole(j.edge, j.cursor)
      BY <1>0, <2>1 DEF JobIs, FetchIs
    <3>. QED BY <1>1, <3>1, <3>2
  <2>2. CASE j.op = "forward"
    <3>1. ranges' = RunForward(j) BY <2>2 DEF JobEnd
    <3>2. ForwardIs(j) BY <1>0, <2>2 DEF JobIs
    <3>3. PICK to : to = IF j.reached /\ j.until > j.edge THEN j.until ELSE j.edge OBVIOUS
    <3>4. RunForward(j) = IF to > j.from THEN Noted(ranges, j.from, to)
                          ELSE IF j.fetched = 0 /\ j.until > j.from
                               THEN Noted(ranges, j.from, j.until)
                               ELSE ranges
      BY <3>3 DEF RunForward
    <3>5. to \in 0..MaxId BY <1>1, <3>3
    <3>6. CASE to > j.from
      <4>1. to <= top /\ Whole(j.from, to)
        <5>1. CASE j.reached /\ j.until > j.edge
          <6>1. to = j.until BY <3>3, <5>1
          <6>2. Whole(j.from, j.until) /\ j.until \in Sent BY <1>0, <3>2, <5>1 DEF ForwardIs
          <6>. QED BY <1>2, <6>1, <6>2 DEF Sent
        <5>2. CASE ~(j.reached /\ j.until > j.edge)
          <6>1. to = j.edge BY <3>3, <5>2
          <6>2. j.edge <= j.cursor /\ j.cursor <= top /\ Whole(j.from, j.cursor)
            BY <3>2 DEF ForwardIs
          <6>3. \A x \in Existing : x \in Nat BY DEF Existing
          <6>4. Whole(j.from, j.edge) BY <1>1, <6>2, <6>3 DEF Whole
          <6>. QED BY <1>1, <1>2, <6>1, <6>2, <6>4
        <5>. QED BY <5>1, <5>2
      <4>2. ranges' = Noted(ranges, j.from, to) BY <3>1, <3>4, <3>6
      <4>. QED BY <1>1, <3>5, <3>6, <4>1, <4>2
    <3>7. CASE ~(to > j.from) /\ j.fetched = 0 /\ j.until > j.from
      <4>1. Whole(j.from, j.until) /\ j.until \in Sent BY <1>0, <3>2, <3>7 DEF ForwardIs
      <4>2. ranges' = Noted(ranges, j.from, j.until) BY <3>1, <3>4, <3>7
      <4>. QED BY <1>1, <1>2, <3>7, <4>1, <4>2 DEF Sent
    <3>8. CASE ~(to > j.from) /\ ~(j.fetched = 0 /\ j.until > j.from)
      <4>1. ranges' = ranges /\ 0 \in 0..MaxId BY <1>1, <3>1, <3>4, <3>8
      <4>. QED BY <4>1
    <3>. QED BY <3>6, <3>7, <3>8
  <2>3. CASE j.op = "backward"
    <3>1. ranges' = RunBackward(j) BY <2>3 DEF JobEnd
    <3>2. BackwardIs(j) BY <1>0, <2>3 DEF JobIs
    <3>3. PICK from : from = IF j.reached /\ j.until > j.edge THEN j.until ELSE j.edge OBVIOUS
    <3>4. from < j.from /\ from \in 0..MaxId
      BY <1>1, <1>2, <3>2, <3>3 DEF BackwardIs, Sent
    <3>5. ranges' = Noted(ranges, from, j.from) BY <1>1, <3>1, <3>3, <3>4 DEF RunBackward
    <3>6. from # 0 => Whole(from, j.from)
      <4>1. CASE j.reached /\ j.until > j.edge BY <1>0, <3>2, <3>3, <4>1 DEF BackwardIs
      <4>2. CASE ~(j.reached /\ j.until > j.edge)
        <5>1. from = j.edge BY <3>3, <4>2
        <5>2. j.edge # 0 => j.cursor <= j.edge /\ Whole(j.cursor, j.from)
          BY <3>2 DEF BackwardIs
        <5>3. \A x \in Existing : x \in Nat BY DEF Existing
        <5>. QED BY <1>1, <5>1, <5>2, <5>3 DEF Whole
      <4>. QED BY <4>1, <4>2
    <3>7. j.from <= top BY <1>2, <3>2 DEF BackwardIs, Sent
    <3>. QED BY <1>1, <3>4, <3>5, <3>6, <3>7
  <2>. QED BY <1>1, <2>1, <2>2, <2>3
<1>4. PICK a \in 0..MaxId, b \in 0..MaxId :
         /\ ranges' = ranges \/ ranges' = Noted(ranges, a, b)
         /\ a # 0 /\ b # 0 => a <= b /\ b <= top /\ Whole(a, b)
  BY <1>3
<1>5. NoJob \in Jobs /\ JobIs(NoJob)' BY NoJobIs
<1>6. /\ chan' \in Flags /\ chan'.opened = chan.opened
      /\ jobs' = [jobs EXCEPT ![k] = NoJob]
      /\ UNCHANGED <<lost, top, gone, wire, alive, kept, held, notes, checks, dispatch, last_live, upsets>>
  <2>1. chan' = chan \/ chan' = [chan EXCEPT !.loading = FALSE] BY DEF JobEnd
  <2>2. chan' \in Flags /\ chan'.opened = chan.opened BY <1>2, <2>1 DEF Flags
  <2>. QED BY <2>2 DEF JobEnd, SetJob, serverVars, gapVars, gwVars
<1>7. ranges' \in Seq(Runs) BY <1>2, <1>4, NotedIs
<1>8. JobMoves(k, NoJob)
  BY <1>0, <1>6, <1>7 DEF JobMoves, Types, DiskOK, StoreOK, NotesOK, JobsOK, RestOK
<1>9. Types' /\ Grows BY <1>5, <1>8, JobSteps
<1>10. LinesAre'
  <2>1. a \in Nat /\ b \in Nat /\ b \in 0..MaxId /\ top' = top BY <1>1, <1>6
  <2>2. a # 0 /\ b # 0 => b \in 0..top BY <1>1, <1>2, <1>4
  <2>3. a # 0 /\ b # 0 => a <= b /\ b <= top' /\ Whole(a, b)'
    <3>1. SUFFICES ASSUME a # 0, b # 0 PROVE a <= b /\ b <= top' /\ Whole(a, b)'
      OBVIOUS
    <3>2. b \in 0..top /\ Whole(a, b) BY <1>4, <2>2, <3>1
    <3>3. Whole(a, b)' BY <1>0, <1>9, <3>2, WholeStays
    <3>. QED BY <1>4, <2>1, <3>1, <3>3
  <2>4. a # 0 /\ b # 0 => ~(b < a) BY <2>1, <2>3
  <2>. QED BY <1>0, <1>4, <1>9, <2>1, <2>3, <2>4, LinesStay DEF Inv
<1>. QED BY <1>5, <1>6, <1>8, <1>10, JobCarries

--------------------------------------------------------------------------------
(* Questions, and the interface.                                               *)

\* Where no job moves, and nothing comes in.
LEMMA JobsRest ==
    ASSUME Inv, UNCHANGED <<lost, top, gone, wire, alive, kept, held, jobs, dispatch, last_live>>,
           notes' \in Seq([after : Ids, state : Verdicts]), Len(notes') <= NoteCap,
           checks' \in [CheckSlots -> Questions], chan' \in Flags, chan'.opened = chan.opened,
           ranges' \in Seq(Runs), upsets' \in Nat
    PROVE  /\ Types' /\ Grows /\ Existing' = Existing /\ Sent' = Sent /\ Known' = Known
           /\ LiveIs' /\ StoreIs'
<1>1. 1 \in JobSlots BY DEF JobSlots
<1>2. PICK j : j = jobs[1] OBVIOUS
<1>3. /\ j \in Jobs /\ kept \subseteq Sent /\ lost \subseteq Sent /\ held \subseteq Sent
      /\ jobs' = [jobs EXCEPT ![1] = j]
  BY <1>1, <1>2 DEF Inv, Types, DiskOK, StoreOK, JobsOK
<1>4. ~alive => j.pc = "none" BY <1>1, <1>2 DEF Inv, StoreIs
<1>5. JobMoves(1, j) BY <1>2, <1>3, <1>4 DEF JobMoves
<1>6. /\ Types' /\ Grows /\ Existing' = Existing /\ Sent' = Sent
      /\ LiveIs' /\ StoreIs'
  BY <1>1, <1>3, <1>5, JobSteps
<1>7. Known' = Known BY DEF Known, Arriving
<1>. QED BY <1>6, <1>7

\* A verdict is noted down in a table that keeps its size.
LEMMA GapSetIs ==
    ASSUME Types, NEW a \in Ids, NEW s \in Verdicts, GapSet(a, s)
    PROVE  notes' \in Seq([after : Ids, state : Verdicts]) /\ Len(notes') <= NoteCap
<1>. DEFINE Note == [after : Ids, state : Verdicts]
            n == [after |-> a, state |-> s]
<1>0. notes \in Seq(Note) /\ Len(notes) <= NoteCap /\ NoteCap \in Nat \ {0} /\ n \in Note
  BY LimitsAssumption DEF Types, NotesOK, LimitsAssumption
<1>1. \/ notes' = [notes EXCEPT ![Min(NoteOf(a))] = n]
      \/ notes' = <<n>>
      \/ notes' = Append(notes, n) /\ ~(Len(notes) >= NoteCap)
  BY DEF GapSet
<1>. HIDE DEF Note, n
<1>2. notes' \in Seq(Note) /\ Len(notes') <= NoteCap
  <2>1. CASE notes' = [notes EXCEPT ![Min(NoteOf(a))] = n]
    <3>1. PICK m : m = Min(NoteOf(a)) OBVIOUS
    <3>2. notes' = [notes EXCEPT ![m] = n] BY <2>1, <3>1
    <3>3. notes \in [1..Len(notes) -> Note] /\ Len(notes) \in Nat BY <1>0
    <3>4. notes' \in [1..Len(notes) -> Note] BY <1>0, <3>2, <3>3
    <3>5. notes' \in Seq(Note) /\ Len(notes') = Len(notes) BY <3>3, <3>4
    <3>. QED BY <1>0, <3>5
  <2>2. CASE notes' = <<n>> BY <1>0, <2>2
  <2>3. CASE notes' = Append(notes, n) /\ ~(Len(notes) >= NoteCap) BY <1>0, <2>3
  <2>. QED BY <1>1, <2>1, <2>2, <2>3
<1>. QED BY <1>2 DEF Note

\* Discord says what follows, or does not say.
LEMMA CheckAskKeeps ==
    ASSUME Inv, NEW i \in CheckSlots, CheckAsk(i)
    PROVE  Inv'
<1>. PICK c : c = checks[i] OBVIOUS
<1>0. c \in Questions /\ CheckIs(c) /\ c.pc = "ask" /\ Types /\ checks \in [CheckSlots -> Questions]
  BY DEF Inv, Types, JobsOK, CheckAsk
<1>1. PICK v \in Verdicts \ {"GAP_CHECKING"} :
         /\ checks' = [checks EXCEPT ![i] = [c EXCEPT !.pc = "got", !.verdict = v]]
         /\ v = "GAP_NONE" => \A x \in Existing : ~(c.after < x /\ x < c.until)
  <2>1. CASE checks' = [checks EXCEPT ![i].pc = "got"]
    <3>1. checks' = [checks EXCEPT ![i] = [c EXCEPT !.pc = "got", !.verdict = c.verdict]]
      BY <1>0, <2>1 DEF Questions
    <3>2. c.verdict = "GAP_UNKNOWN" BY <1>0 DEF CheckIs
    <3>. QED BY <3>1, <3>2 DEF Verdicts
  <2>2. CASE \E later : /\ later = {x \in Existing : x > c.after}
                        /\ checks' = [checks EXCEPT ![i].pc = "got", ![i].verdict = Verdict(c, later)]
    <3>1. PICK later : /\ later = {x \in Existing : x > c.after}
                       /\ checks' = [checks EXCEPT ![i].pc = "got", ![i].verdict = Verdict(c, later)]
      BY <2>2
    <3>2. PICK v : v = Verdict(c, later) OBVIOUS
    <3>3. checks' = [checks EXCEPT ![i] = [c EXCEPT !.pc = "got", !.verdict = v]]
      BY <1>0, <3>1, <3>2
    <3>4. v \in Verdicts \ {"GAP_CHECKING"} BY <3>2 DEF Verdict, Verdicts
    <3>5. ASSUME v = "GAP_NONE", NEW x \in Existing, c.after < x, x < c.until PROVE FALSE
      <4>1. later \in SUBSET Nat /\ x \in later /\ c.until \in Nat
        BY <1>0, <3>1, <3>5 DEF Existing, Questions
      <4>2. Min(later) >= c.until BY <3>2, <3>5, <4>1 DEF Verdict
      <4>3. Min(later) \in Nat /\ Min(later) <= x BY <4>1, MinIs
      <4>4. PICK m : m = Min(later) OBVIOUS
      <4>5. m \in Nat /\ m >= c.until /\ m <= x BY <4>2, <4>3, <4>4
      <4>6. x \in Nat /\ c.until \in Nat /\ x < c.until BY <3>5, <4>1
      <4>. QED BY <4>5, <4>6
    <3>. QED BY <3>3, <3>4, <3>5
  <2>. QED BY <2>1, <2>2 DEF CheckAsk
<1>. DEFINE n == [c EXCEPT !.pc = "got", !.verdict = v]
<1>2. n \in Questions /\ n.pc = "got" /\ n.verdict = v /\ n.after = c.after /\ n.until = c.until
  BY <1>0 DEF Questions
<1>3. checks' = [checks EXCEPT ![i] = n] BY <1>1
<1>. HIDE DEF n
<1>4. /\ checks' \in [CheckSlots -> Questions] /\ checks'[i] = n
      /\ \A l \in CheckSlots : l # i => checks'[l] = checks[l]
  BY <1>0, <1>2, <1>3
<1>5. /\ UNCHANGED <<lost, top, gone, wire, alive, kept, held, jobs, dispatch, last_live, notes, ranges, chan>>
      /\ upsets' \in Nat
  <2>1. upsets \in Nat BY <1>0 DEF Types, RestOK
  <2>. QED BY <2>1 DEF CheckAsk, Upset, serverVars, diskVars, storeVars, gwVars
<1>6. /\ notes' \in Seq([after : Ids, state : Verdicts]) /\ Len(notes') <= NoteCap
      /\ chan' \in Flags /\ ranges' \in Seq(Runs)
  BY <1>0, <1>5 DEF Types, NotesOK, StoreOK, DiskOK
<1>7. /\ Types' /\ Grows /\ Existing' = Existing /\ Sent' = Sent /\ Known' = Known
      /\ LiveIs' /\ StoreIs'
  BY <1>4, <1>5, <1>6, JobsRest
<1>8. LinesAre' BY <1>0, <1>5, <1>7, LinesStay DEF Inv
<1>9. CheckIs(n)' BY <1>0, <1>1, <1>2, <1>7 DEF CheckIs
<1>10. ASSUME NEW l \in CheckSlots PROVE checks'[l] = checks[l] \/ CheckIs(checks[l])'
  <2>1. CASE l = i
    <3>1. n = checks[l]' BY <1>4, <2>1
    <3>. QED BY <1>9, <3>1, Zenon
  <2>. QED BY <1>4, <2>1
<1>. QED BY <1>5, <1>7, <1>8, <1>10, Carries

\* With the verdict that nothing is missing, a line says so.
LEMMA CheckEndKeeps ==
    ASSUME Inv, NEW i \in CheckSlots, CheckEnd(i)
    PROVE  Inv'
<1>. PICK c : c = checks[i] OBVIOUS
<1>. PICK a, b : a = c.after /\ b = c.until OBVIOUS
<1>0. c \in Questions /\ CheckIs(c) /\ c.pc = "got" /\ Types /\ checks \in [CheckSlots -> Questions]
  BY DEF Inv, Types, JobsOK, CheckEnd
<1>1. /\ a \in Sent /\ b \in Sent /\ a < b /\ a \in Known /\ b \in Known
      /\ c.verdict = "GAP_NONE" => \A x \in Existing : ~(a < x /\ x < b)
      /\ top \in 0..MaxId /\ MaxId \in Nat /\ Sent = 1..top
  BY <1>0, LimitsAssumption DEF CheckIs, Types, ServerOK, Sent, LimitsAssumption
<1>2. a \in Ids /\ a \in 0..MaxId /\ b \in 0..MaxId /\ c.verdict \in Verdicts
  BY <1>0, <1>1 DEF Ids, Questions
<1>3. /\ ranges' = IF c.verdict = "GAP_NONE" THEN Noted(ranges, a, b) ELSE ranges
      /\ GapSet(a, c.verdict)
      /\ checks' = [checks EXCEPT ![i] = NoCheck]
      /\ UNCHANGED <<lost, top, gone, wire, alive, kept, held, jobs, dispatch, last_live, chan, upsets>>
  BY DEF CheckEnd, serverVars, storeVars, gwVars
<1>4. NoCheck \in Questions /\ NoCheck.pc = "none" BY <1>1 DEF NoCheck, Questions, Verdicts
<1>5. /\ checks' \in [CheckSlots -> Questions] /\ checks'[i] = NoCheck
      /\ \A l \in CheckSlots : l # i => checks'[l] = checks[l]
  BY <1>0, <1>3, <1>4
<1>6. ranges \in Seq(Runs) /\ chan \in Flags /\ upsets \in Nat
  BY <1>0 DEF Types, DiskOK, StoreOK, RestOK
<1>7. ranges' \in Seq(Runs) BY <1>2, <1>3, <1>6, NotedIs
<1>8. notes' \in Seq([after : Ids, state : Verdicts]) /\ Len(notes') <= NoteCap
  BY <1>0, <1>2, <1>3, GapSetIs
<1>9. /\ Types' /\ Grows /\ Existing' = Existing /\ Sent' = Sent /\ Known' = Known
      /\ LiveIs' /\ StoreIs'
  BY <1>3, <1>5, <1>6, <1>7, <1>8, JobsRest
<1>10. LinesAre'
  <2>1. c.verdict = "GAP_NONE" => Whole(a, b)'
    <3>1. ASSUME c.verdict = "GAP_NONE", NEW x \in Existing', a <= x, x <= b PROVE x \in Known'
      <4>1. x \in Existing /\ x \in Nat BY <1>9, <3>1 DEF Existing
      <4>2. x = a \/ x = b BY <1>1, <3>1, <4>1
      <4>. QED BY <1>1, <1>9, <4>2
    <3>. QED BY <3>1 DEF Whole
  <2>2. a \in Nat /\ b \in Nat /\ b <= top' /\ ~(b < a) BY <1>1, <1>3
  <2>3. \/ ranges' = ranges
        \/ ranges' = Noted(ranges, a, b) /\ Whole(a, b)'
    BY <1>3, <2>1
  <2>. QED BY <1>0, <1>9, <2>2, <2>3, LinesStay DEF Inv
<1>11. ASSUME NEW l \in CheckSlots PROVE checks'[l] = checks[l] \/ CheckIs(checks[l])'
  <2>1. CASE l = i BY <1>4, <1>5, <2>1 DEF CheckIs
  <2>. QED BY <1>5, <2>1
<1>. QED BY <1>3, <1>9, <1>10, <1>11, Carries

\* The view reads the runs, or forgets them: that is its own business.
LEMMA ViewKeeps ==
    ASSUME Inv, UiFrame \/ UiAway
    PROVE  Inv'
<1>0. Types BY DEF Inv
<1>1. /\ UNCHANGED <<lost, top, gone, wire, alive, kept, held, jobs, dispatch, last_live, notes,
                     ranges, chan, checks>>
      /\ upsets' \in Nat
  <2>1. upsets \in Nat BY <1>0 DEF Types, RestOK
  <2>. QED BY <2>1 DEF UiFrame, UiAway, Upset, serverVars, diskVars, storeVars, gapVars, gwVars
<1>2. /\ notes' \in Seq([after : Ids, state : Verdicts]) /\ Len(notes') <= NoteCap
      /\ chan' \in Flags /\ ranges' \in Seq(Runs) /\ checks' \in [CheckSlots -> Questions]
  BY <1>0, <1>1 DEF Types, NotesOK, StoreOK, DiskOK, JobsOK
<1>3. Types' /\ Grows /\ LiveIs' /\ StoreIs' BY <1>1, <1>2, JobsRest
<1>4. LinesAre' BY <1>0, <1>1, <1>3, LinesStay DEF Inv
<1>. QED BY <1>1, <1>3, <1>4, Carries

\* A boundary on screen is asked about.
LEMMA UiCheckKeeps ==
    ASSUME Inv, NEW a \in Ids, NEW b \in Ids, UiCheck(a, b)
    PROVE  Inv'
<1>0. Types /\ checks \in [CheckSlots -> Questions] /\ MaxId \in Nat
  BY LimitsAssumption DEF Inv, Types, JobsOK, LimitsAssumption
<1>1. /\ a \in held /\ b \in held /\ a < b /\ a \in Sent /\ b \in Sent
      /\ a \in Known /\ b \in Known /\ a \in 0..MaxId /\ b \in 0..MaxId
  BY <1>0 DEF UiCheck, Open, Neighbours, Inv, Types, StoreOK, StoreIs, Ids
<1>. DEFINE n == [NoCheck EXCEPT !.pc = "ask", !.after = a, !.until = b]
<1>2. PICK i \in CheckSlots : checks' = [checks EXCEPT ![i] = n]
  <2>1. PICK i \in Free(checks) : checks' = [checks EXCEPT ![i] = n] BY DEF UiCheck
  <2>2. i \in CheckSlots BY <1>0 DEF Free
  <2>. QED BY <2>1, <2>2
<1>3. /\ n \in Questions /\ n.pc = "ask" /\ n.after = a /\ n.until = b
      /\ n.verdict = "GAP_UNKNOWN"
  BY <1>1 DEF NoCheck, Questions, Verdicts
<1>. HIDE DEF n
<1>4. /\ checks' \in [CheckSlots -> Questions] /\ checks'[i] = n
      /\ \A l \in CheckSlots : l # i => checks'[l] = checks[l]
  BY <1>0, <1>2, <1>3
<1>5. /\ UNCHANGED <<lost, top, gone, wire, alive, kept, held, jobs, dispatch, last_live, ranges,
                     chan, upsets>>
      /\ GapSet(a, "GAP_CHECKING")
  BY DEF UiCheck, serverVars, diskVars, storeVars, gwVars
<1>6. notes' \in Seq([after : Ids, state : Verdicts]) /\ Len(notes') <= NoteCap
  <2>1. "GAP_CHECKING" \in Verdicts BY DEF Verdicts
  <2>. QED BY <1>0, <1>5, <2>1, GapSetIs
<1>7. chan' \in Flags /\ ranges' \in Seq(Runs) /\ upsets' \in Nat
  BY <1>0, <1>5 DEF Types, StoreOK, DiskOK, RestOK
<1>8. /\ Types' /\ Grows /\ Sent' = Sent /\ Known' = Known /\ LiveIs' /\ StoreIs'
  BY <1>4, <1>5, <1>6, <1>7, JobsRest
<1>9. LinesAre' BY <1>0, <1>5, <1>8, LinesStay DEF Inv
<1>10. CheckIs(n)' BY <1>1, <1>3, <1>8 DEF CheckIs
<1>11. ASSUME NEW l \in CheckSlots PROVE checks'[l] = checks[l] \/ CheckIs(checks[l])'
  <2>1. CASE l = i
    <3>1. n = checks[l]' BY <1>4, <2>1
    <3>. QED BY <1>10, <3>1, Zenon
  <2>. QED BY <1>4, <2>1
<1>. QED BY <1>5, <1>8, <1>9, <1>11, Carries

\* A job that starts has all before it.
LEMMA StartIs ==
    ASSUME Inv, NEW op \in {"fetch", "forward", "backward"}, NEW from \in 0..MaxId,
           NEW until \in 0..MaxId, NEW budget \in Nat, StartJob(op, from, until, budget)
    PROVE  \E k \in JobSlots, j \in Jobs :
              /\ jobs[k].pc = "none" /\ jobs' = [jobs EXCEPT ![k] = j]
              /\ j.pc = "ask" /\ j.op = op /\ j.from = from /\ j.until = until /\ j.cursor = from
              /\ j.edge = 0 /\ j.fetched = 0 /\ ~j.reached
              /\ j.left = IF budget > 0 THEN budget ELSE HardCap
<1>0. jobs \in [JobSlots -> Jobs] /\ MaxId \in Nat /\ HardCap \in Nat
  BY LimitsAssumption DEF Inv, Types, JobsOK, LimitsAssumption
<1>. DEFINE l == IF budget > 0 THEN budget ELSE HardCap
            j == [NoJob EXCEPT !.pc = "ask", !.op = op, !.from = from, !.until = until,
                               !.cursor = from, !.left = l]
<1>1. PICK k \in Free(jobs) : jobs' = [jobs EXCEPT ![k] = j] BY DEF StartJob
<1>2. k \in JobSlots /\ jobs[k].pc = "none" BY <1>0 DEF Free
<1>3. l \in Nat BY <1>0
<1>4. l = IF budget > 0 THEN budget ELSE HardCap OBVIOUS
<1>. HIDE DEF l
<1>5. /\ j.pc = "ask" /\ j.op = op /\ j.from = from /\ j.until = until /\ j.cursor = from
      /\ j.edge = 0 /\ j.fetched = 0 /\ j.left = l /\ j.page = {}
  BY DEF NoJob
<1>6. ~j.reached BY DEF NoJob
<1>7. j \in Jobs
  <2>1. PICK none : none = NoJob OBVIOUS
  <2>2. none \in Jobs BY <2>1, NoJobIs
  <2>3. j = [none EXCEPT !.pc = "ask", !.op = op, !.from = from, !.until = until,
                         !.cursor = from, !.left = l]
    BY <2>1
  <2>. QED BY <1>3, <2>2, <2>3 DEF Jobs
<1>. HIDE DEF j
<1>. QED BY <1>1, <1>2, <1>4, <1>5, <1>6, <1>7

\* Where a job starts, with what the archive has or not, nothing is claimed that is
\* not so.
LEMMA StartKeeps ==
    ASSUME Inv, NEW k \in JobSlots, NEW j \in Jobs, jobs[k].pc = "none",
           jobs' = [jobs EXCEPT ![k] = j],
           j.pc = "ask", j.op \in {"fetch", "forward", "backward"}, j.cursor = j.from, j.edge = 0,
           j.fetched = 0, ~j.reached, j.left > 0,
           j.op = "fetch" => Page <= j.left,
           j.op = "forward" => j.from \in held /\ j.until \in held /\ j.from < j.until,
           j.op = "backward" => j.from \in held /\ j.until \in held /\ j.until < j.from,
           held' = held \/ held' = held \union kept,
           chan' \in Flags, chan'.opened = chan.opened \/ held' = held \union kept,
           alive, upsets' \in Nat,
           UNCHANGED <<lost, top, gone, wire, alive, kept, ranges, notes, checks, dispatch, last_live>>
    PROVE  Inv'
<1>0. Types /\ kept \subseteq Sent /\ held \subseteq Sent BY DEF Inv, Types, DiskOK, StoreOK
<1>1. JobMoves(k, j)
  <2>1. held \subseteq held' /\ held' \subseteq Sent /\ \A x \in held' : x \in held \/ x \in kept
    BY <1>0
  <2>2. chan'.opened => \A x \in kept' : x \in held' \/ (chan.opened /\ x \in kept) OBVIOUS
  <2>. QED BY <1>0, <2>1, <2>2 DEF JobMoves, Types, NotesOK, DiskOK, JobsOK
<1>2. Types' /\ Grows /\ Existing' = Existing /\ Sent' = Sent BY <1>1, JobSteps
<1>3. LinesAre' BY <1>0, <1>2, LinesStay DEF Inv
<1>4. \A x \in held : x \in Known' /\ x \in Sent' /\ x \in Nat /\ x <= top'
  BY <1>0, <1>2 DEF Inv, StoreIs, Grows, Sent
<1>5. \A x \in Existing' : x \in Nat BY <1>2 DEF Existing
<1>6. \A x \in held : Whole(x, x)' BY <1>4, <1>5 DEF Whole
<1>7. j.op = "forward" => ForwardIs(j)' BY <1>4, <1>6 DEF ForwardIs
<1>8. j.op = "backward" => BackwardIs(j)' BY <1>4, <1>6 DEF BackwardIs
<1>9. j.op = "fetch" => FetchIs(j)' BY DEF FetchIs
<1>10. JobIs(j)' BY <1>7, <1>8, <1>9 DEF JobIs
<1>. QED BY <1>1, <1>3, <1>10, JobCarries

\* A page is asked for.
LEMMA UiFetches ==
    ASSUME Inv, UiOpen \/ UiFetch \/ UiRetry \/ \E b \in Ids : UiOlder(b)
    PROVE  Inv'
<1>0. /\ Types /\ chan \in Flags /\ upsets \in Nat /\ MaxId \in Nat /\ 0 \in 0..MaxId
      /\ HardCap \in Nat /\ HardCap > 0 /\ Page <= HardCap
  BY LimitsAssumption DEF Inv, Types, StoreOK, RestOK, LimitsAssumption
<1>1. PICK from \in 0..MaxId :
         /\ StartJob("fetch", from, 0, 0)
         /\ held' = held \/ held' = held \union kept
         /\ chan' \in Flags /\ (chan'.opened = chan.opened \/ held' = held \union kept)
         /\ alive /\ upsets' \in Nat
         /\ UNCHANGED <<lost, top, gone, wire, alive, kept, ranges, notes, checks, dispatch, last_live>>
  <2>1. CASE UiOpen
    <3>1. chan' = [chan EXCEPT !.opened = TRUE, !.loading = TRUE] BY <2>1 DEF UiOpen
    <3>2. chan' \in Flags BY <1>0, <3>1 DEF Flags
    <3>. QED BY <1>0, <2>1, <3>2 DEF UiOpen, serverVars, diskVars, gapVars, gwVars
  <2>2. CASE UiFetch
    <3>1. chan' = [chan EXCEPT !.loading = TRUE] BY <2>2 DEF UiFetch
    <3>2. chan' \in Flags /\ chan'.opened = chan.opened BY <1>0, <3>1 DEF Flags
    <3>. QED BY <1>0, <2>2, <3>2 DEF UiFetch, serverVars, diskVars, gapVars, gwVars
  <2>3. CASE UiRetry
    <3>1. PICK failed \in BOOLEAN : chan' = [chan EXCEPT !.loading = TRUE, !.failed = failed]
      BY <2>3 DEF UiRetry
    <3>2. chan' \in Flags /\ chan'.opened = chan.opened BY <1>0, <3>1 DEF Flags
    <3>0. Upset BY <2>3 DEF UiRetry
    <3>3. upsets' \in Nat BY <1>0, <3>0 DEF Upset
    <3>4. /\ StartJob("fetch", 0, 0, 0) /\ alive /\ held' = held
          /\ UNCHANGED <<lost, top, gone, wire, alive, kept, ranges, notes, checks, dispatch,
                         last_live>>
      BY <2>3 DEF UiRetry, serverVars, diskVars, gapVars, gwVars
    <3>. QED BY <1>0, <3>2, <3>3, <3>4
  <2>4. ASSUME NEW b \in Ids, UiOlder(b)
        PROVE  \E from \in 0..MaxId :
                 /\ StartJob("fetch", from, 0, 0)
                 /\ held' = held \/ held' = held \union kept
                 /\ chan' \in Flags /\ (chan'.opened = chan.opened \/ held' = held \union kept)
                 /\ alive /\ upsets' \in Nat
                 /\ UNCHANGED <<lost, top, gone, wire, alive, kept, ranges, notes, checks, dispatch,
                                last_live>>
    <3>1. chan' = [chan EXCEPT !.loading = TRUE] BY <2>4 DEF UiOlder
    <3>2. chan' \in Flags /\ chan'.opened = chan.opened BY <1>0, <3>1 DEF Flags
    <3>3. b \in 0..MaxId BY <1>0 DEF Ids
    <3>4. upsets' \in Nat BY <1>0, <2>4 DEF UiOlder, Upset
    <3>5. /\ StartJob("fetch", b, 0, 0) /\ alive /\ held' = held
          /\ UNCHANGED <<lost, top, gone, wire, alive, kept, ranges, notes, checks, dispatch,
                         last_live>>
      BY <2>4 DEF UiOlder, serverVars, diskVars, gapVars, gwVars
    <3>. QED BY <3>2, <3>3, <3>4, <3>5
  <2>. QED BY <2>1, <2>2, <2>3, <2>4
<1>2. PICK k \in JobSlots, j \in Jobs :
         /\ jobs[k].pc = "none" /\ jobs' = [jobs EXCEPT ![k] = j]
         /\ j.pc = "ask" /\ j.op = "fetch" /\ j.from = from /\ j.until = 0 /\ j.cursor = from
         /\ j.edge = 0 /\ j.fetched = 0 /\ ~j.reached
         /\ j.left = IF 0 > 0 THEN 0 ELSE HardCap
  BY <1>0, <1>1, StartIs
<1>3. j.left = HardCap /\ j.left > 0 /\ Page <= j.left BY <1>0, <1>2
<1>. QED BY <1>1, <1>2, <1>3, StartKeeps

\* A hole is filled, from one side or from the other.
LEMMA UiFillKeeps ==
    ASSUME Inv, NEW a \in Ids, NEW b \in Ids, NEW budget \in Budgets, UiFill(a, b, budget)
    PROVE  Inv'
<1>0. /\ Types /\ chan \in Flags /\ upsets \in Nat /\ MaxId \in Nat /\ budget \in Nat
      /\ HardCap \in Nat /\ HardCap > 0 /\ a \in 0..MaxId /\ b \in 0..MaxId
  BY LimitsAssumption DEF Inv, Types, StoreOK, RestOK, LimitsAssumption, Ids
<1>1. a \in held /\ b \in held /\ a < b /\ alive BY DEF UiFill, Marked, Open, Neighbours
<1>2. /\ chan' \in Flags /\ chan'.opened = chan.opened /\ held' = held /\ upsets' \in Nat
      /\ UNCHANGED <<lost, top, gone, wire, alive, kept, ranges, notes, checks, dispatch, last_live>>
  <2>1. chan' = [chan EXCEPT !.loading = TRUE] BY DEF UiFill
  <2>2. chan' \in Flags /\ chan'.opened = chan.opened BY <1>0, <2>1 DEF Flags
  <2>. QED BY <1>0, <2>2 DEF UiFill, Upset, serverVars, diskVars, gapVars, gwVars
<1>3. CASE StartJob("forward", a, b, budget)
  <2>1. PICK k \in JobSlots, j \in Jobs :
           /\ jobs[k].pc = "none" /\ jobs' = [jobs EXCEPT ![k] = j]
           /\ j.pc = "ask" /\ j.op = "forward" /\ j.from = a /\ j.until = b /\ j.cursor = a
           /\ j.edge = 0 /\ j.fetched = 0 /\ ~j.reached
           /\ j.left = IF budget > 0 THEN budget ELSE HardCap
    BY <1>0, <1>3, StartIs
  <2>2. j.left > 0 BY <1>0, <2>1
  <2>. QED BY <1>1, <1>2, <2>1, <2>2, StartKeeps
<1>4. CASE StartJob("backward", b, a, budget)
  <2>1. PICK k \in JobSlots, j \in Jobs :
           /\ jobs[k].pc = "none" /\ jobs' = [jobs EXCEPT ![k] = j]
           /\ j.pc = "ask" /\ j.op = "backward" /\ j.from = b /\ j.until = a /\ j.cursor = b
           /\ j.edge = 0 /\ j.fetched = 0 /\ ~j.reached
           /\ j.left = IF budget > 0 THEN budget ELSE HardCap
    BY <1>0, <1>4, StartIs
  <2>2. j.left > 0 BY <1>0, <2>1
  <2>. QED BY <1>1, <1>2, <2>1, <2>2, StartKeeps
<1>. QED BY <1>3, <1>4 DEF UiFill

\* The process ends: what was on its way to the disk is lost.
LEMMA ExitKeeps ==
    ASSUME Inv, Exit
    PROVE  Inv'
<1>0. /\ Types /\ upsets \in Nat /\ MaxId \in Nat /\ top \in Nat /\ NoteCap \in Nat
  BY LimitsAssumption DEF Inv, Types, ServerOK, RestOK, LimitsAssumption
<1>1. /\ alive' = FALSE /\ wire' = <<>> /\ held' = {} /\ chan' = NoChan /\ notes' = <<>>
      /\ checks' = [i \in CheckSlots |-> NoCheck] /\ jobs' = [k \in JobSlots |-> NoJob]
      /\ dispatch' = NoDispatch /\ last_live' = 0 /\ upsets' = upsets + 1
      /\ lost' = lost \union (InHand \ kept)
      /\ UNCHANGED <<top, gone, kept, ranges>>
  BY DEF Exit, Upset, diskVars
<1>2. NoJob \in Jobs /\ JobIs(NoJob)' /\ NoJob.pc = "none" BY NoJobIs DEF NoJob
<1>3. NoCheck \in Questions /\ NoCheck.pc = "none" BY <1>0 DEF NoCheck, Questions, Verdicts
<1>4. dispatch'.stage = "none" /\ dispatch'.id = 0 BY <1>1 DEF NoDispatch
<1>5. Known' = Known
  <2>1. \A k \in JobSlots : jobs'[k].pc # "keep" BY <1>1, <1>2
  <2>2. \A x : x \in Known' <=> x # 0 /\ (x \in kept \/ x \in lost \/ x \in InHand)
    BY <1>1, <1>4, <2>1, KnownThen
  <2>3. \A x : x \in Known <=> x # 0 /\ (x \in kept \/ x \in lost \/ x \in InHand)
    BY DEF Known, InHand
  <2>. QED BY <2>2, <2>3
<1>13. lost' \subseteq Sent
  <2>1. ASSUME NEW x \in InHand PROVE x \in Sent
    <3>1. x # 0 /\ \/ x = dispatch.id
                   \/ \E k \in JobSlots : jobs[k].pc = "keep" /\ x \in jobs[k].page
      BY DEF InHand, Arriving
    <3>2. CASE x = dispatch.id
      <4>1. dispatch.id \in held BY <3>1, <3>2 DEF Inv, Types, GwOK, StoreIs
      <4>. QED BY <1>0, <3>2, <4>1 DEF Types, StoreOK
    <3>3. CASE \E k \in JobSlots : jobs[k].pc = "keep" /\ x \in jobs[k].page
      BY <3>3 DEF Inv, JobIs
    <3>. QED BY <3>1, <3>2, <3>3
  <2>. QED BY <1>0, <1>1, <2>1 DEF Types, DiskOK
<1>6. Grows /\ Existing' = Existing /\ Sent' = Sent BY <1>0, <1>1, <1>5, SameServer
<1>7. Types'
  <2>1. ServerOK' BY <1>0, <1>1, <1>6 DEF Types, ServerOK
  <2>2. DiskOK' BY <1>0, <1>1, <1>6, <1>13 DEF Types, DiskOK
  <2>3. StoreOK'
    <3>1. NoChan \in Flags BY DEF NoChan, Flags
    <3>. QED BY <1>1, <3>1 DEF StoreOK
  <2>4. NotesOK' BY <1>0, <1>1 DEF NotesOK
  <2>5. JobsOK' BY <1>1, <1>2, <1>3 DEF JobsOK
  <2>6. GwOK' BY <1>0, <1>1 DEF GwOK, NoDispatch
  <2>7. RestOK'
    <3>1. alive' \in BOOLEAN BY DEF Exit
    <3>2. upsets' \in Nat BY <1>0, <1>1
    <3>. QED BY <3>1, <3>2 DEF RestOK
  <2>. QED BY <2>1, <2>2, <2>3, <2>4, <2>5, <2>6, <2>7 DEF Types
<1>8. LiveIs'
  <2>1. Creates' = {} /\ OnTheWay' = {} BY <1>1, <1>4 DEF Creates, OnTheWay
  <2>. QED BY <1>1, <1>4, <2>1 DEF LiveIs
<1>9. StoreIs'
  <2>1. ~chan'.opened BY <1>1 DEF NoChan
  <2>2. \A k \in JobSlots : jobs'[k].pc = "none" BY <1>1, <1>2
  <2>3. \A i \in DOMAIN wire' : FALSE BY <1>1
  <2>. QED BY <1>1, <1>4, <2>1, <2>2, <2>3 DEF StoreIs
<1>10. LinesAre' BY <1>0, <1>1, <1>6, <1>7, LinesStay DEF Inv
<1>11. ASSUME NEW k \in JobSlots PROVE JobIs(jobs[k])'
  <2>1. PICK n : n = NoJob OBVIOUS
  <2>2. JobIs(n)' BY <1>2, <2>1, Zenon
  <2>3. n = jobs[k]' BY <1>1, <2>1
  <2>. QED BY <2>2, <2>3, Zenon
<1>12. \A i \in CheckSlots : CheckIs(checks[i])' BY <1>1, <1>3 DEF CheckIs
<1>. QED BY <1>7, <1>8, <1>9, <1>10, <1>11, <1>12 DEF Inv

\* It is started again.
LEMMA LaunchKeeps ==
    ASSUME Inv, Launch
    PROVE  Inv'
<1>0. /\ Types /\ alive'
      /\ UNCHANGED <<lost, top, gone, wire, kept, ranges, held, chan, notes, checks, jobs, dispatch,
                     last_live, upsets>>
  BY DEF Inv, Launch, serverVars, diskVars, storeVars, gapVars, gwVars
<1>1. Known' = Known BY <1>0 DEF Known, Arriving
<1>2. Grows /\ Existing' = Existing /\ Sent' = Sent BY <1>0, <1>1, SameServer
<1>3. Types'
  <2>1. ServerOK' /\ DiskOK' /\ StoreOK' BY <1>0, <1>2 DEF Types, ServerOK, DiskOK, StoreOK
  <2>2. NotesOK' /\ JobsOK' /\ GwOK' BY <1>0 DEF Types, NotesOK, JobsOK, GwOK
  <2>3. alive' \in BOOLEAN BY DEF Launch
  <2>4. RestOK' BY <1>0, <2>3 DEF Types, RestOK
  <2>. QED BY <2>1, <2>2, <2>4 DEF Types
<1>4. LiveIs'
  <2>1. Creates' = Creates /\ OnTheWay' = OnTheWay BY <1>0 DEF Creates, OnTheWay
  <2>. QED BY <1>0, <1>1, <1>2, <2>1 DEF Inv, LiveIs
<1>5. StoreIs' BY <1>0, <1>1, <1>2 DEF Inv, StoreIs
<1>6. LinesAre' BY <1>0, <1>2, <1>3, LinesStay DEF Inv
<1>. QED BY <1>0, <1>2, <1>3, <1>4, <1>5, <1>6, Carries

--------------------------------------------------------------------------------
(* The theorems.                                                               *)

\* A channel of which nothing is known yet.
LEMMA InitHolds == ASSUME Init PROVE Inv
<1>0. MaxId \in Nat /\ NoteCap \in Nat /\ 0 \in 0..MaxId
  BY LimitsAssumption DEF LimitsAssumption
<1>1. /\ top = 0 /\ gone = {} /\ alive = TRUE /\ wire = <<>> /\ kept = {} /\ ranges = <<>>
      /\ held = {} /\ chan = NoChan /\ notes = <<>>
      /\ checks = [i \in CheckSlots |-> NoCheck] /\ jobs = [k \in JobSlots |-> NoJob]
      /\ dispatch = NoDispatch /\ last_live = 0 /\ upsets = 0 /\ lost = {}
  BY DEF Init
<1>2. NoJob \in Jobs /\ JobIs(NoJob) /\ NoJob.pc = "none" BY NoJobIs DEF NoJob, JobIs
<1>3. NoCheck \in Questions /\ NoCheck.pc = "none" BY <1>0 DEF NoCheck, Questions, Verdicts
<1>4. dispatch.stage = "none" /\ dispatch.id = 0 BY <1>1 DEF NoDispatch
<1>5. Types
  <2>1. ServerOK /\ DiskOK BY <1>0, <1>1 DEF ServerOK, DiskOK
  <2>2. NoChan \in Flags BY DEF NoChan, Flags
  <2>3. StoreOK BY <1>1, <2>2 DEF StoreOK
  <2>4. NotesOK BY <1>0, <1>1 DEF NotesOK
  <2>5. JobsOK BY <1>1, <1>2, <1>3 DEF JobsOK
  <2>6. GwOK BY <1>0, <1>1 DEF GwOK, NoDispatch
  <2>7. RestOK BY <1>1 DEF RestOK
  <2>. QED BY <2>1, <2>3, <2>4, <2>5, <2>6, <2>7 DEF Types
<1>6. LiveIs
  <2>1. Creates = {} /\ OnTheWay = {} BY <1>1, <1>4 DEF Creates, OnTheWay
  <2>. QED BY <1>1, <1>4, <2>1 DEF LiveIs
<1>7. StoreIs
  <2>1. ~chan.opened BY <1>1 DEF NoChan
  <2>2. \A i \in DOMAIN wire : FALSE BY <1>1
  <2>3. alive BY <1>1
  <2>. QED BY <1>1, <1>4, <2>1, <2>2, <2>3 DEF StoreIs
<1>8. LinesAre BY <1>1 DEF LinesAre
<1>9. \A k \in JobSlots : JobIs(jobs[k]) BY <1>1, <1>2
<1>10. \A i \in CheckSlots : CheckIs(checks[i]) BY <1>1, <1>3 DEF CheckIs
<1>. QED BY <1>5, <1>6, <1>7, <1>8, <1>9, <1>10 DEF Inv

\* Every step keeps it.
LEMMA NextKeeps ==
    ASSUME Inv, [Next]_vars
    PROVE  Inv'
<1>1. CASE Post \/ \E id \in Ids : Edit(id) \/ Delete(id) BY <1>1, DiscordKeeps
<1>2. CASE StartOver BY <1>2, StartOverKeeps
<1>3. CASE Gateway
  BY <1>3, GwFoldKeeps, GwNoteKeeps, GwKeepKeeps, GwDeleteKeeps DEF Gateway
<1>4. CASE GwElsewhere BY <1>4, GwElsewhereKeeps
<1>5. ASSUME NEW k \in JobSlots, Job(k) PROVE Inv'
  BY <1>5, JobAnsweredKeeps, JobFailedKeeps, JobUnlockKeeps, JobFoldKeeps, JobKeepKeeps,
     JobEndKeeps
  DEF Job
<1>6. ASSUME NEW i \in CheckSlots, Check(i) PROVE Inv'
  BY <1>6, CheckAskKeeps, CheckEndKeeps DEF Check
<1>7. CASE UiOpen \/ UiFetch \/ UiRetry \/ \E b \in Ids : UiOlder(b) BY <1>7, UiFetches
<1>8. CASE UiFrame \/ UiAway BY <1>8, ViewKeeps
<1>9. ASSUME NEW a \in Ids, NEW b \in Ids, UiCheck(a, b) PROVE Inv' BY <1>9, UiCheckKeeps
<1>10. ASSUME NEW a \in Ids, NEW b \in Ids, NEW budget \in Budgets, UiFill(a, b, budget)
       PROVE  Inv'
  BY <1>10, UiFillKeeps
<1>11. CASE Exit BY <1>11, ExitKeeps
<1>12. CASE Launch BY <1>12, LaunchKeeps
<1>13. CASE UNCHANGED vars
  <2>1. UNCHANGED <<lost, top, gone, wire, alive, kept, held, ranges, chan, notes, checks, jobs,
                    dispatch, last_live, upsets>>
    BY <1>13 DEF vars, serverVars, diskVars, storeVars, gapVars, gwVars
  <2>2. /\ Types /\ notes' \in Seq([after : Ids, state : Verdicts]) /\ Len(notes') <= NoteCap
        /\ chan' \in Flags /\ ranges' \in Seq(Runs) /\ checks' \in [CheckSlots -> Questions]
        /\ upsets' \in Nat
    BY <2>1 DEF Inv, Types, NotesOK, StoreOK, DiskOK, JobsOK, RestOK
  <2>3. Types' /\ Grows /\ LiveIs' /\ StoreIs' BY <2>1, <2>2, JobsRest
  <2>4. LinesAre' BY <2>1, <2>2, <2>3, LinesStay DEF Inv
  <2>. QED BY <2>1, <2>3, <2>4, Carries
<1>14. CASE Discord BY <1>1, <1>2, <1>14 DEF Discord
<1>15. CASE Looks BY <1>7, <1>8, <1>9, <1>15 DEF Looks
<1>16. CASE Presses BY <1>7, <1>8, <1>10, <1>16 DEF Presses
<1>. QED BY <1>3, <1>4, <1>5, <1>6, <1>11, <1>12, <1>13, <1>14, <1>15, <1>16 DEF Next

\* So it always holds.
LEMMA InvHolds == Spec => []Inv
<1>1. Init => Inv BY InitHolds
<1>2. Inv /\ [Next]_vars => Inv' BY NextKeeps
<1>. QED BY <1>1, <1>2, PTL DEF Spec

\* What a run joins a message with its neighbours by, goes over that message.
LEMMA CoveredIsKnown ==
    ASSUME Inv, NEW x \in Existing, NEW i \in DOMAIN ranges,
           ranges[i].from_id <= x /\ x <= ranges[i].to_id
    PROVE  x \in Known
BY DEF Inv, LinesAre, Whole

\* Whatever lies inside a run is in the archive, or the gateway thread or a job is
\* about to keep it, but for the very messages that a lost session, a failed first
\* page or the end of the process took.
THEOREM RunsKept ==
    Spec => []RunsAreKept
<1>1. ASSUME Inv PROVE RunsAreKept
  <2>0. \A x \in Existing : x \in Nat BY DEF Existing
  <2>1. ranges \in Seq(Runs) BY <1>1 DEF Inv, Types, DiskOK
  <2>2. SUFFICES ASSUME NEW x \in Existing \ lost, x > 1, Joined(ranges, x - 1, x + 1)
                 PROVE  x \in kept \union Arriving
    BY DEF RunsAreKept
  <2>3. x \in (x - 1)..((x + 1) - 1) BY <2>0
  <2>4. PICK i \in DOMAIN ranges : ranges[i].from_id <= x /\ x + 1 <= ranges[i].to_id
    BY <2>2, <2>3 DEF Joined
  <2>5. x <= ranges[i].to_id
    <3>1. ranges[i] \in Runs BY <2>1
    <3>2. ranges[i].to_id \in Nat BY <3>1 DEF Runs, Ids
    <3>. QED BY <2>0, <2>4, <3>2
  <2>. QED BY <1>1, <2>4, <2>5, CoveredIsKnown DEF Known
<1>. QED BY <1>1, InvHolds, PTL

\* Between two messages that are drawn one after the other, and that runs join,
\* Discord has none but those.
THEOREM NothingHidden ==
    Spec => []NoHiddenHole
<1>1. ASSUME Inv PROVE NoHiddenHole
  <2>0. \A x \in Existing : x \in Nat BY DEF Existing
  <2>1. ranges \in Seq(Runs) /\ held \subseteq Sent BY <1>1 DEF Inv, Types, DiskOK, StoreOK
  <2>2. SUFFICES ASSUME chan.opened, NEW a \in held, NEW b \in held,
                        \A x \in held : ~(a < x /\ x < b), Joined(ranges, a, b),
                        NEW x \in Existing \ lost, a < x, x < b
                 PROVE  FALSE
    BY DEF NoHiddenHole, Neighbours
  <2>3. a \in Nat /\ b \in Nat BY <2>1 DEF Sent
  <2>4. x \in a..(b - 1) BY <2>0, <2>2, <2>3
  <2>5. PICK i \in DOMAIN ranges : ranges[i].from_id <= x /\ x + 1 <= ranges[i].to_id
    BY <2>2, <2>4 DEF Joined
  <2>6. x <= ranges[i].to_id
    <3>1. ranges[i] \in Runs BY <2>1
    <3>2. ranges[i].to_id \in Nat BY <3>1 DEF Runs, Ids
    <3>. QED BY <2>0, <2>5, <3>2
  <2>7. x \in Known BY <1>1, <2>5, <2>6, CoveredIsKnown
  <2>8. x \in held
    <3>1. \/ x \in kept
          \/ x = dispatch.id /\ x # 0
          \/ \E k \in JobSlots : jobs[k].pc = "keep" /\ x \in jobs[k].page
      BY <2>2, <2>7, KnownIs
    <3>2. CASE x \in kept BY <1>1, <2>2, <3>2 DEF Inv, StoreIs
    <3>3. CASE x = dispatch.id /\ x # 0 BY <1>1, <3>3 DEF Inv, Types, GwOK, StoreIs
    <3>4. CASE \E k \in JobSlots : jobs[k].pc = "keep" /\ x \in jobs[k].page
      BY <1>1, <3>4 DEF Inv, JobIs
    <3>. QED BY <3>1, <3>2, <3>3, <3>4
  <2>. QED BY <2>2, <2>8
<1>. QED BY <1>1, InvHolds, PTL

\* The line that was added last says at least what is asked of it.
LEMMA NotedJoins ==
    ASSUME ranges \in Seq(Runs), NEW a \in 1..MaxId, NEW b \in 1..MaxId, a < b,
           NEW c \in Nat, a <= c, ranges' = Noted(ranges, a, b) \/ ranges' = Noted(ranges, b, a),
           NEW d \in Nat, d <= b
    PROVE  Joined(ranges', c, d)
<1>0. MaxId \in Nat /\ a \in Nat /\ b \in Nat BY LimitsAssumption DEF LimitsAssumption
<1>1. Ordered(a, b) = Span(a, b) /\ Ordered(b, a) = Span(a, b) BY <1>0 DEF Ordered
<1>2. ranges' = Append(ranges, Span(a, b)) BY <1>0, <1>1 DEF Noted
<1>. DEFINE n == Len(ranges) + 1
<1>3. n \in DOMAIN ranges' /\ ranges'[n] = Span(a, b) BY <1>2
<1>. HIDE DEF n
<1>4. ranges'[n].from_id = a /\ ranges'[n].to_id = b BY <1>3 DEF Span
<1>5. \A x \in c..(d - 1) : a <= x /\ x + 1 <= b BY <1>0
<1>. QED BY <1>3, <1>4, <1>5 DEF Joined

\* A fill that reached the far side writes down that the hole is filled, also when
\* there was nothing in it.
THEOREM FillsAreRecorded ==
    Spec => FilledIsRecorded
<1>1. ASSUME Inv, NEW k \in JobSlots, JobEnd(k), NEW j, j = jobs[k], j.reached
      PROVE  IF j.op = "forward" THEN Joined(ranges', j.from, j.until)
             ELSE j.edge <= j.until => Joined(ranges', j.until, j.from)
  <2>0. j \in Jobs /\ JobIs(j) /\ j.pc = "end" /\ ranges \in Seq(Runs)
    BY <1>1, JobAt DEF JobEnd, Inv, Types, DiskOK
  <2>1. /\ j.from \in 0..MaxId /\ j.until \in 0..MaxId /\ j.edge \in 0..MaxId /\ MaxId \in Nat
        /\ j.op \in {"forward", "backward"} /\ top \in 0..MaxId
    BY <1>1, <2>0, LimitsAssumption DEF Jobs, JobIs, Inv, Types, ServerOK, LimitsAssumption
  <2>2. CASE j.op = "forward"
    <3>1. j.from \in 1..MaxId /\ j.until \in 1..MaxId /\ j.from < j.until
      BY <2>0, <2>1, <2>2 DEF JobIs, ForwardIs, Sent
    <3>2. PICK to : to = IF j.reached /\ j.until > j.edge THEN j.until ELSE j.edge OBVIOUS
    <3>3. to \in 1..MaxId /\ j.until <= to /\ j.from < to BY <1>1, <2>1, <3>1, <3>2
    <3>4. ranges' = RunForward(j) BY <1>1, <2>2 DEF JobEnd
    <3>5. ranges' = Noted(ranges, j.from, to) BY <3>2, <3>3, <3>4, <2>1, <3>1 DEF RunForward
    <3>6. Joined(ranges', j.from, j.until)
      BY <2>0, <3>1, <3>3, <3>5, NotedJoins
    <3>. QED BY <2>2, <3>6
  <2>3. ASSUME j.op = "backward", j.edge <= j.until
        PROVE  Joined(ranges', j.until, j.from)
    <3>1. j.from \in 1..MaxId /\ j.until \in 1..MaxId /\ j.until < j.from
      BY <2>0, <2>1, <2>3 DEF JobIs, BackwardIs, Sent
    <3>2. ranges' = RunBackward(j) BY <1>1, <2>3 DEF JobEnd
    <3>3. (IF j.reached /\ j.until > j.edge THEN j.until ELSE j.edge) = j.until
      BY <1>1, <2>1, <2>3
    <3>4. ranges' = Noted(ranges, j.until, j.from) BY <2>1, <3>1, <3>2, <3>3 DEF RunBackward
    <3>. QED BY <2>0, <3>1, <3>4, NotedJoins
  <2>. QED BY <2>1, <2>2, <2>3
<1>2. Inv /\ [Next]_vars =>
      [\A k \in JobSlots :
        LET j == jobs[k] IN
        JobEnd(k) /\ j.reached =>
            IF j.op = "forward" THEN Joined(ranges', j.from, j.until)
            ELSE j.edge <= j.until => Joined(ranges', j.until, j.from)]_vars
  BY <1>1
<1>. QED BY <1>2, InvHolds, PTL DEF Spec, FilledIsRecorded

\* Counters, tables and flags keep their ranges.
THEOREM TypeCorrect ==
    Spec => []TypeOK
<1>1. ASSUME Inv PROVE TypeOK
  <2>1. /\ top \in 0..MaxId /\ gone \subseteq Ids /\ kept \subseteq Ids /\ held \subseteq Ids
        /\ lost \subseteq Ids
    <3>1. /\ top \in 0..MaxId /\ gone \subseteq Sent /\ kept \subseteq Sent /\ held \subseteq Sent
          /\ lost \subseteq Sent
      BY <1>1 DEF Inv, Types, ServerOK, DiskOK, StoreOK
    <3>2. Sent \subseteq Ids BY <3>1, LimitsAssumption DEF Sent, Ids, LimitsAssumption
    <3>. QED BY <3>1, <3>2
  <2>2. \A i \in DOMAIN ranges : ranges[i].from_id \in Ids /\ ranges[i].to_id \in Ids
    <3>1. ranges \in Seq(Runs) BY <1>1 DEF Inv, Types, DiskOK
    <3>2. \A i \in DOMAIN ranges : ranges[i] \in Runs BY <3>1
    <3>. QED BY <3>2 DEF Runs
  <2>3. \A k \in JobSlots :
           /\ jobs[k].pc \in {"none", "ask", "unlock", "fold", "keep", "end"}
           /\ jobs[k].edge \in 0..MaxId /\ jobs[k].cursor \in 0..MaxId
           /\ jobs[k].left \in Nat
    <3>1. \A k \in JobSlots : jobs[k] \in Jobs BY <1>1 DEF Inv, Types, JobsOK
    <3>. QED BY <3>1 DEF Jobs
  <2>4. Len(notes) <= NoteCap /\ \A i \in DOMAIN notes : notes[i].state \in Verdicts
    <3>. DEFINE Note == [after : Ids, state : Verdicts]
    <3>1. notes \in Seq(Note) /\ Len(notes) <= NoteCap BY <1>1 DEF Inv, Types, NotesOK
    <3>2. \A n \in Note : n.state \in Verdicts OBVIOUS
    <3>. HIDE DEF Note
    <3>3. \A i \in DOMAIN notes : notes[i] \in Note BY <3>1
    <3>. QED BY <3>1, <3>2, <3>3
  <2>5. \A i \in CheckSlots : checks[i].verdict \in Verdicts \ {"GAP_CHECKING"}
    <3>1. \A i \in CheckSlots : checks[i] \in Questions BY <1>1 DEF Inv, Types, JobsOK
    <3>. QED BY <3>1 DEF Questions
  <2>6. dispatch.stage \in {"none", "note", "keep"} BY <1>1 DEF Inv, Types, GwOK
  <2>. QED BY <2>1, <2>2, <2>3, <2>4, <2>5, <2>6 DEF TypeOK
<1>. QED BY <1>1, InvHolds, PTL

--------------------------------------------------------------------------------
(* Reading the lines: what is merged joins what the lines join.                *)

\* The step from x to the next id is inside one of the lines, or runs.
Steps(lines, S, x) == \E i \in S : lines[i].from_id <= x /\ x + 1 <= lines[i].to_id

\* No line ends before it starts.
Forward(lines) == \A i \in DOMAIN lines : lines[i].from_id <= lines[i].to_id

\* Runs that share no message, in order.
Apart(runs) == \A i, j \in DOMAIN runs : i < j => runs[i].to_id < runs[j].from_id

\* What some of the lines come to: the same steps, in runs apart, each of which
\* starts where one of those lines does.
Merges(lines, S, runs) ==
    /\ runs \in Seq(Runs) /\ Forward(runs) /\ Apart(runs)
    /\ \A x \in Nat : Steps(runs, DOMAIN runs, x) <=> Steps(lines, S, x)
    /\ \A j \in DOMAIN runs : \E i \in S : runs[j].from_id = lines[i].from_id

LEMMA RunIs ==
    ASSUME NEW v \in Runs
    PROVE  v.from_id \in Nat /\ v.to_id \in Nat /\ v = [from_id |-> v.from_id, to_id |-> v.to_id]
BY DEF Runs, Ids

\* A line that starts behind the last run is a run of its own.
LEMMA AppendMerges ==
    ASSUME NEW lines \in Seq(Runs), Forward(lines), NEW S \in SUBSET DOMAIN lines,
           NEW n \in DOMAIN lines, \A k \in S : lines[k].from_id <= lines[n].from_id,
           NEW runs, Merges(lines, S, runs),
           runs # <<>> => Last(runs).to_id < lines[n].from_id
    PROVE  Merges(lines, S \union {n}, Append(runs, lines[n]))
<1>. DEFINE v == lines[n]
            new == Append(runs, v)
            l == Len(runs)
<1>1. runs \in Seq(Runs) /\ Forward(runs) /\ Apart(runs) /\ l \in Nat BY DEF Merges
<1>2. v \in Runs /\ v.from_id \in Nat /\ v.to_id \in Nat /\ v.from_id <= v.to_id
  BY RunIs DEF Forward
<1>3. new \in Seq(Runs) BY <1>1, <1>2
<1>4. DOMAIN new = 1..(l + 1) /\ DOMAIN runs = 1..l /\ new[l + 1] = v
      /\ \A i \in 1..l : new[i] = runs[i]
  BY <1>1
<1>5. \A i \in 1..l : runs[i] \in Runs /\ runs[i].from_id \in Nat /\ runs[i].to_id \in Nat
                      /\ runs[i].from_id <= runs[i].to_id
  BY <1>1, <1>4, RunIs DEF Forward
<1>. HIDE DEF v, new, l
<1>6. \A i \in 1..l : runs[i].to_id < v.from_id
  <2>. TAKE i \in 1..l
  <2>1. Last(runs) = runs[l] /\ runs # <<>> /\ l \in 1..l BY <1>1, <1>4 DEF Last, l
  <2>2. runs[l].to_id < v.from_id BY <2>1 DEF v
  <2>3. CASE i = l BY <2>2, <2>3
  <2>4. CASE i # l
    <3>1. runs[i].to_id < runs[l].from_id BY <1>1, <1>4, <2>1, <2>4 DEF Apart
    <3>. QED BY <1>2, <1>5, <2>1, <2>2, <3>1
  <2>. QED BY <2>3, <2>4
<1>7. Forward(new) BY <1>1, <1>2, <1>4, <1>5 DEF Forward
<1>8. Apart(new)
  <2>1. SUFFICES ASSUME NEW i \in 1..(l + 1), NEW j \in 1..(l + 1), i < j
                 PROVE  new[i].to_id < new[j].from_id
    BY <1>4 DEF Apart
  <2>2. i \in 1..l BY <1>1, <2>1
  <2>3. CASE j = l + 1 BY <1>4, <1>6, <2>2, <2>3
  <2>4. CASE j # l + 1
    <3>1. j \in 1..l BY <1>1, <2>1, <2>4
    <3>. QED BY <1>1, <1>4, <2>1, <2>2, <3>1 DEF Apart
  <2>. QED BY <2>3, <2>4
<1>9. ASSUME NEW x \in Nat
      PROVE  Steps(new, DOMAIN new, x) <=> Steps(lines, S \union {n}, x)
  <2>1. Steps(new, DOMAIN new, x) <=> Steps(runs, DOMAIN runs, x)
                                      \/ (v.from_id <= x /\ x + 1 <= v.to_id)
    BY <1>1, <1>4 DEF Steps
  <2>2. Steps(lines, S \union {n}, x) <=> Steps(lines, S, x)
                                          \/ (v.from_id <= x /\ x + 1 <= v.to_id)
    BY DEF Steps, v
  <2>. QED BY <2>1, <2>2 DEF Merges
<1>10. ASSUME NEW j \in DOMAIN new
       PROVE  \E i \in S \union {n} : new[j].from_id = lines[i].from_id
  <2>1. CASE j = l + 1 BY <1>4, <2>1 DEF v
  <2>2. CASE j # l + 1
    <3>1. j \in 1..l /\ new[j] = runs[j] BY <1>1, <1>4, <2>2
    <3>. QED BY <1>4, <3>1 DEF Merges
  <2>. QED BY <2>1, <2>2
<1>. QED BY <1>3, <1>7, <1>8, <1>9, <1>10 DEF Merges, new, v

\* One that starts inside the last run, or where it ends, makes it longer at most.
LEMMA AbsorbMerges ==
    ASSUME NEW lines \in Seq(Runs), Forward(lines), NEW S \in SUBSET DOMAIN lines,
           NEW n \in DOMAIN lines, \A k \in S : lines[k].from_id <= lines[n].from_id,
           NEW runs, Merges(lines, S, runs),
           runs # <<>>, lines[n].from_id <= Last(runs).to_id
    PROVE  Merges(lines, S \union {n}, [runs EXCEPT ![Len(runs)] = Absorbed(@, lines[n])])
<1>. DEFINE v == lines[n]
            l == Len(runs)
            new == [runs EXCEPT ![l] = Absorbed(@, v)]
            u == runs[l]
            w == new[l]
<1>1. runs \in Seq(Runs) /\ Forward(runs) /\ Apart(runs) /\ l \in Nat /\ l \in 1..l
      /\ DOMAIN runs = 1..l
  BY DEF Merges
<1>2. v \in Runs /\ v.from_id \in Nat /\ v.to_id \in Nat /\ v.from_id <= v.to_id
  BY RunIs DEF Forward
<1>3. \A i \in 1..l : runs[i] \in Runs /\ runs[i].from_id \in Nat /\ runs[i].to_id \in Nat
                      /\ runs[i].from_id <= runs[i].to_id
  BY <1>1, RunIs DEF Forward
<1>4. w = Absorbed(u, v) /\ DOMAIN new = 1..l /\ \A i \in 1..l : i # l => new[i] = runs[i]
  BY <1>1
<1>5. v.from_id <= u.to_id BY DEF Last
<1>6. PICK k \in S : u.from_id = lines[k].from_id BY <1>1 DEF Merges
<1>7. u.from_id <= v.from_id BY <1>6
<1>8. u \in Runs /\ u.from_id \in Nat /\ u.to_id \in Nat /\ u.from_id <= u.to_id BY <1>1, <1>3
<1>9. w = [from_id |-> u.from_id, to_id |-> IF v.to_id > u.to_id THEN v.to_id ELSE u.to_id]
  <2>. HIDE DEF u, w, v
  <2>1. u = [from_id |-> u.from_id, to_id |-> u.to_id] BY <1>8, RunIs
  <2>2. w = [u EXCEPT !.to_id = IF v.to_id > u.to_id THEN v.to_id ELSE u.to_id]
    BY <1>4 DEF Absorbed
  <2>. QED BY <2>1, <2>2
<1>10. w \in Runs
  <2>1. u.from_id \in Ids /\ u.to_id \in Ids /\ v.to_id \in Ids BY <1>2, <1>8 DEF Runs
  <2>. HIDE DEF u, w, v
  <2>. QED BY <1>9, <2>1 DEF Runs
<1>11. new \in Seq(Runs)
  <2>1. new = [i \in 1..l |-> new[i]] BY <1>1
  <2>. HIDE DEF w, u
  <2>2. \A i \in 1..l : new[i] \in Runs
    <3>. TAKE i \in 1..l
    <3>1. CASE i = l BY <1>10, <3>1 DEF w
    <3>2. CASE i # l BY <1>3, <1>4, <3>2
    <3>. QED BY <3>1, <3>2
  <2>. HIDE DEF new, l
  <2>3. new \in [1..l -> Runs] BY <2>1, <2>2
  <2>. QED BY <1>1, <2>3
<1>12. /\ w.from_id = u.from_id /\ w.to_id \in Nat /\ u.to_id <= w.to_id /\ v.to_id <= w.to_id
       /\ w.to_id = u.to_id \/ w.to_id = v.to_id
  <2>. HIDE DEF u, w, v
  <2>. QED BY <1>2, <1>8, <1>9
<1>13. new[l] = w /\ runs[l] = u OBVIOUS
<1>. HIDE DEF u, w, new, l, v
<1>14. Forward(new)
  <2>1. \A i \in 1..l : new[i].from_id <= new[i].to_id
    <3>. TAKE i \in 1..l
    <3>1. CASE i = l BY <1>8, <1>12, <1>13, <3>1
    <3>2. CASE i # l BY <1>3, <1>4, <3>2
    <3>. QED BY <3>1, <3>2
  <2>. QED BY <1>4, <2>1 DEF Forward
<1>15. Apart(new)
  <2>1. SUFFICES ASSUME NEW i \in 1..l, NEW j \in 1..l, i < j
                 PROVE  new[i].to_id < new[j].from_id
    BY <1>4 DEF Apart
  <2>2. i # l BY <1>1, <2>1
  <2>3. new[i] = runs[i] BY <1>4, <2>2
  <2>4. new[j].from_id = runs[j].from_id
    <3>1. CASE j = l BY <1>12, <1>13, <3>1
    <3>2. CASE j # l BY <1>4, <3>2
    <3>. QED BY <3>1, <3>2
  <2>. QED BY <1>1, <2>1, <2>3, <2>4 DEF Apart
<1>16. ASSUME NEW x \in Nat
       PROVE  Steps(new, DOMAIN new, x) <=> Steps(lines, S \union {n}, x)
  <2>1. Steps(lines, S \union {n}, x) <=> Steps(lines, S, x)
                                          \/ (v.from_id <= x /\ x + 1 <= v.to_id)
    BY DEF Steps, v
  <2>2. (w.from_id <= x /\ x + 1 <= w.to_id) <=> \/ u.from_id <= x /\ x + 1 <= u.to_id
                                                 \/ v.from_id <= x /\ x + 1 <= v.to_id
    BY <1>2, <1>5, <1>7, <1>8, <1>12
  <2>3. Steps(new, DOMAIN new, x) <=> \/ \E i \in 1..l : i # l /\ new[i].from_id <= x /\ x + 1 <= new[i].to_id
                                      \/ w.from_id <= x /\ x + 1 <= w.to_id
    BY <1>1, <1>4, <1>13 DEF Steps
  <2>4. Steps(runs, DOMAIN runs, x) <=> \/ \E i \in 1..l : i # l /\ runs[i].from_id <= x /\ x + 1 <= runs[i].to_id
                                        \/ u.from_id <= x /\ x + 1 <= u.to_id
    BY <1>1, <1>13 DEF Steps
  <2>5. (\E i \in 1..l : i # l /\ new[i].from_id <= x /\ x + 1 <= new[i].to_id) <=>
        (\E i \in 1..l : i # l /\ runs[i].from_id <= x /\ x + 1 <= runs[i].to_id)
    BY <1>4
  <2>6. Steps(runs, DOMAIN runs, x) <=> Steps(lines, S, x) BY DEF Merges
  <2>. QED BY <2>1, <2>2, <2>3, <2>4, <2>5, <2>6
<1>17. ASSUME NEW j \in DOMAIN new
       PROVE  \E i \in S \union {n} : new[j].from_id = lines[i].from_id
  <2>1. j \in DOMAIN runs BY <1>1, <1>4
  <2>2. new[j].from_id = runs[j].from_id
    <3>1. CASE j = l BY <1>12, <1>13, <3>1
    <3>2. CASE j # l BY <1>1, <1>4, <2>1, <3>2
    <3>. QED BY <3>1, <3>2
  <2>3. PICK i \in S : runs[j].from_id = lines[i].from_id BY <2>1 DEF Merges
  <2>. QED BY <2>2, <2>3
<1>. QED BY <1>11, <1>14, <1>15, <1>16, <1>17 DEF Merges, new, l, v

\* Whichever it is,
LEMMA CoalesceMerges ==
    ASSUME NEW lines \in Seq(Runs), Forward(lines), NEW S \in SUBSET DOMAIN lines,
           NEW n \in DOMAIN lines, \A k \in S : lines[k].from_id <= lines[n].from_id,
           NEW runs, Merges(lines, S, runs)
    PROVE  Merges(lines, S \union {n}, Coalesce(runs, lines[n]))
<1>1. CASE runs # <<>> /\ lines[n].from_id <= Last(runs).to_id
  <2>1. Coalesce(runs, lines[n]) = [runs EXCEPT ![Len(runs)] = Absorbed(@, lines[n])]
    BY Zenon, <1>1 DEF Coalesce
  <2>2. Merges(lines, S \union {n}, [runs EXCEPT ![Len(runs)] = Absorbed(@, lines[n])])
    BY <1>1, AbsorbMerges
  <2>. QED BY Zenon, <2>1, <2>2
<1>2. CASE ~(runs # <<>> /\ lines[n].from_id <= Last(runs).to_id)
  <2>1. Coalesce(runs, lines[n]) = Append(runs, lines[n]) BY Zenon, <1>2 DEF Coalesce
  <2>2. runs # <<>> => Last(runs).to_id < lines[n].from_id
    <3>1. ASSUME runs # <<>> PROVE Last(runs).to_id < lines[n].from_id
      <4>1. runs \in Seq(Runs) /\ Last(runs) = runs[Len(runs)] /\ Len(runs) \in DOMAIN runs
        BY <3>1 DEF Merges, Last
      <4>2. runs[Len(runs)] \in Runs /\ lines[n] \in Runs BY <4>1
      <4>3. Last(runs).to_id \in Nat /\ lines[n].from_id \in Nat BY <4>1, <4>2, RunIs
      <4>. QED BY <1>2, <3>1, <4>3
    <3>. QED BY <3>1
  <2>. QED BY <2>1, <2>2, AppendMerges
<1>. QED BY <1>1, <1>2

\* What is so for none, and for one more wherever it is so, is so up to any number.
LEMMA CountingUp ==
    ASSUME NEW n \in Nat, NEW T, 0 \in T, \A k \in 0..(n - 1) : k \in T => k + 1 \in T
    PROVE  \A k \in 0..n : k \in T
<1>. DEFINE S == {k \in 0..n : k \notin T}
<1>1. SUFFICES ASSUME S # {} PROVE FALSE OBVIOUS
<1>2. S \in SUBSET Nat OBVIOUS
<1>3. Min(S) \in S /\ \A y \in S : Min(S) <= y BY <1>1, <1>2, MinIs
<1>. DEFINE m == Min(S)
<1>4. m \in 0..n /\ m \notin T /\ m # 0 BY <1>3
<1>5. \A y \in S : m <= y BY <1>3
<1>. HIDE DEF m
<1>6. m - 1 \in 0..(n - 1) /\ m - 1 \in 0..n /\ ~(m <= m - 1) /\ m - 1 + 1 = m BY <1>4
<1>7. m - 1 \notin S BY <1>5, <1>6
<1>8. m - 1 \in T BY <1>6, <1>7
<1>. QED BY <1>4, <1>6, <1>8

\* There is always one that no other starts after.
LEMMA LatestIs ==
    ASSUME NEW lines \in Seq(Runs), NEW S \in SUBSET DOMAIN lines, S # {}
    PROVE  Latest(lines, S) \in S /\ \A k \in S : lines[k].from_id <= lines[Latest(lines, S)].from_id
<1>. DEFINE F == {lines[k].from_id : k \in S}
<1>0. MaxId \in Nat BY LimitsAssumption DEF LimitsAssumption
<1>1. \A k \in S : lines[k] \in Runs OBVIOUS
<1>2. \A k \in S : lines[k].from_id \in Ids BY <1>1 DEF Runs
<1>3. F \in SUBSET (0..MaxId) /\ F # {} BY <1>0, <1>2 DEF Ids
<1>4. Max(F) \in F /\ \A y \in F : y <= Max(F) BY <1>0, <1>3, MaxIs
<1>5. PICK i \in S : Max(F) = lines[i].from_id BY <1>4
<1>6. \A k \in S : lines[k].from_id <= lines[i].from_id BY <1>4, <1>5
<1>. QED BY Zenon, <1>6 DEF Latest

\* The lines are merged one after the other, whatever is taken first.
LEMMA MergedIs ==
    ASSUME NEW lines, Len(lines) \in Nat, DOMAIN lines = 1..Len(lines),
           \A S \in SUBSET DOMAIN lines : S # {} => Latest(lines, S) \in S
    PROVE  LET merged[S \in SUBSET DOMAIN lines] ==
                   IF S = {} THEN <<>>
                   ELSE LET i == Latest(lines, S) IN Coalesce(merged[S \ {i}], lines[i])
           IN  \A S \in SUBSET DOMAIN lines :
                   merged[S] = IF S = {} THEN <<>>
                               ELSE Coalesce(merged[S \ {Latest(lines, S)}], lines[Latest(lines, S)])
<1>. DEFINE D == DOMAIN lines
            L(S) == Latest(lines, S)
            Put(runs, S) == Coalesce(runs, lines[L(S)])
            Upto(k) == {S \in SUBSET D : Cardinality(S) <= k}
            Of(f, S) == IF S = {} THEN <<>> ELSE Put(f[S \ {L(S)}], S)
            Is(f, k) == f = [S \in Upto(k) |-> Of(f, S)]
            n == Len(lines)
            T == {k \in Nat : \E f : Is(f, k)}
            merged == CHOOSE f : f = [S \in SUBSET D |-> Of(f, S)]
<1>1. /\ \A S \in SUBSET D : IsFiniteSet(S) /\ Cardinality(S) \in Nat /\ Cardinality(S) <= n
      /\ \A S \in SUBSET D : Cardinality(S) = 0 <=> S = {}
  <2>1. IsFiniteSet(D) /\ Cardinality(D) = n
    <3>1. D = 1..n /\ n \in Nat OBVIOUS
    <3>. HIDE DEF D, n
    <3>. QED BY <3>1, FS_Interval
  <2>2. \A S \in SUBSET D : IsFiniteSet(S) /\ Cardinality(S) <= Cardinality(D) BY <2>1, FS_Subset
  <2>3. \A S \in SUBSET D : Cardinality(S) \in Nat BY <2>2, FS_CardinalityType
  <2>. HIDE DEF D
  <2>4. \A S \in SUBSET D : Cardinality(S) = 0 <=> S = {} BY <2>2, FS_EmptySet
  <2>. QED BY <2>1, <2>2, <2>3, <2>4
<1>2. \A S \in SUBSET D : S # {} => L(S) \in S OBVIOUS
<1>3. \A S \in SUBSET D : S # {} => /\ S \ {L(S)} \in SUBSET D
                                    /\ Cardinality(S \ {L(S)}) = Cardinality(S) - 1
  <2>. HIDE DEF D, L
  <2>. QED BY <1>1, <1>2, FS_RemoveElement
<1>0. n \in Nat OBVIOUS
<1>. HIDE DEF D, L, Put, n
<1>4. 0 \in T
  <2>. DEFINE f == [S \in Upto(0) |-> <<>>]
  <2>1. \A S \in Upto(0) : S = {} BY <1>1
  <2>2. f = [S \in Upto(0) |-> Of(f, S)] BY <2>1
  <2>3. Is(f, 0) BY <2>2
  <2>. HIDE DEF f, Is
  <2>. QED BY <2>3
<1>5. ASSUME NEW k \in 0..(n - 1), k \in T PROVE k + 1 \in T
  <2>1. PICK g : Is(g, k) BY <1>5
  <2>2. k \in Nat /\ \A S \in Upto(k) : g[S] = Of(g, S)
    <3>. HIDE DEF Upto, Of
    <3>. QED BY <2>1
  <2>. DEFINE f == [S \in Upto(k + 1) |-> Of(g, S)]
  <2>3. ASSUME NEW S \in Upto(k + 1) PROVE f[S] = Of(f, S)
    <3>1. f[S] = Of(g, S) OBVIOUS
    <3>2. ASSUME S # {} PROVE f[S \ {L(S)}] = g[S \ {L(S)}]
      <4>. DEFINE R == S \ {L(S)}
      <4>1. R \in SUBSET D /\ Cardinality(R) = Cardinality(S) - 1 /\ Cardinality(S) \in Nat
        BY <1>1, <1>3, <3>2
      <4>2. Cardinality(R) \in Nat BY <1>1, <4>1
      <4>. HIDE DEF R
      <4>3. R \in Upto(k) /\ R \in Upto(k + 1) BY <2>2, <4>1, <4>2
      <4>4. f[R] = Of(g, R) BY <4>3
      <4>. QED BY <2>2, <4>3, <4>4 DEF R
    <3>. HIDE DEF f
    <3>. QED BY <3>1, <3>2
  <2>4. f = [S \in Upto(k + 1) |-> f[S]] OBVIOUS
  <2>. HIDE DEF f
  <2>5. f = [S \in Upto(k + 1) |-> Of(f, S)] BY <2>3, <2>4
  <2>6. Is(f, k + 1) BY <2>5
  <2>. HIDE DEF Is
  <2>. QED BY <2>2, <2>6
<1>6. n \in T
  <2>. HIDE DEF T
  <2>1. \A k \in 0..n : k \in T BY <1>0, <1>4, <1>5, CountingUp
  <2>. QED BY <1>0, <2>1
<1>7. Upto(n) = SUBSET D BY <1>1
<1>8. \E f : f = [S \in SUBSET D |-> Of(f, S)]
  <2>1. PICK f : Is(f, n) BY <1>6
  <2>. HIDE DEF Upto, Of
  <2>. QED BY <1>7, <2>1
<1>9. merged = [S \in SUBSET D |-> Of(merged, S)]
  <2>. DEFINE Total(f) == f = [S \in SUBSET D |-> Of(f, S)]
  <2>1. \E f : Total(f) BY <1>8
  <2>. HIDE DEF Total
  <2>2. Total(CHOOSE f : Total(f)) BY <2>1, Zenon
  <2>. QED BY <2>2 DEF Total
<1>. HIDE DEF merged
<1>10. \A S \in SUBSET D : merged[S] = Of(merged, S)
  <2>. HIDE DEF Of
  <2>. QED BY <1>9
<1>. QED BY <1>10 DEF D, L, Put, merged

\* Read to its end, a file is all of its lines.
LEMMA WholeSeq ==
    ASSUME NEW S, NEW s \in Seq(S)
    PROVE  SubSeq(s, 1, Len(s)) = s
<1>. DEFINE t == SubSeq(s, 1, Len(s))
<1>1. t \in Seq(S) /\ Len(t) = Len(s) /\ \A i \in 1..Len(s) : t[i] = s[i] OBVIOUS
<1>. HIDE DEF t
<1>2. DOMAIN t = 1..Len(t) /\ DOMAIN s = 1..Len(s) BY <1>1
<1>3. s = [i \in 1..Len(s) |-> s[i]] BY <1>2
<1>4. t = [i \in 1..Len(s) |-> t[i]] BY <1>1, <1>2
<1>. QED BY <1>1, <1>3, <1>4 DEF t

\* The runs of the archive are what all of its lines come to.
LEMMA SpansMerge ==
    ASSUME NEW lines \in Seq(Runs), Forward(lines), Len(lines) <= SpanCap
    PROVE  Merges(lines, DOMAIN lines, ChannelSpans(lines))
<1>. DEFINE D == DOMAIN lines
            n == Len(lines)
            merged == CHOOSE merged : merged = [S \in SUBSET D |->
                          IF S = {} THEN <<>>
                          ELSE Coalesce(merged[S \ {Latest(lines, S)}], lines[Latest(lines, S)])]
            T == {k \in Nat : \A S \in SUBSET D : Cardinality(S) <= k => Merges(lines, S, merged[S])}
<1>1. n \in Nat /\ D = 1..n /\ SpanCap \in Nat BY SpanCapAssumption
<1>2. SubSeq(lines, 1, IF n < SpanCap THEN n ELSE SpanCap) = lines
  <2>1. (IF n < SpanCap THEN n ELSE SpanCap) = n
    <3>1. n \in Nat /\ SpanCap \in Nat /\ n <= SpanCap BY <1>1
    <3>. HIDE DEF n
    <3>. QED BY <3>1
  <2>2. SubSeq(lines, 1, n) = lines BY WholeSeq
  <2>. QED BY <2>1, <2>2
<1>3. ChannelSpans(lines) = merged[D] BY Zenon, <1>2 DEF ChannelSpans
<1>4. \A S \in SUBSET D : S # {} =>
         /\ Latest(lines, S) \in S
         /\ \A k \in S : lines[k].from_id <= lines[Latest(lines, S)].from_id
  BY LatestIs
<1>5. \A S \in SUBSET D :
         merged[S] = IF S = {} THEN <<>>
                     ELSE Coalesce(merged[S \ {Latest(lines, S)}], lines[Latest(lines, S)])
  BY Zenon, <1>1, <1>4, MergedIs
<1>6. /\ IsFiniteSet(D) /\ Cardinality(D) = n
      /\ \A S \in SUBSET D : IsFiniteSet(S) /\ Cardinality(S) \in Nat
  <2>1. IsFiniteSet(D) /\ Cardinality(D) = n
    <3>. HIDE DEF D, n
    <3>. QED BY <1>1, FS_Interval
  <2>2. \A S \in SUBSET D : IsFiniteSet(S) BY <2>1, FS_Subset
  <2>. QED BY <2>1, <2>2, FS_CardinalityType
<1>. HIDE DEF merged, D, n
<1>7. Merges(lines, {}, merged[{}])
  <2>1. merged[{}] = <<>> BY <1>5
  <2>2. Merges(lines, {}, <<>>) BY DEF Merges, Forward, Apart, Steps
  <2>. QED BY <2>1, <2>2
<1>8. 0 \in T
  <2>1. \A S \in SUBSET D : Cardinality(S) <= 0 => S = {} BY <1>6, FS_EmptySet
  <2>. QED BY <1>7, <2>1
<1>9. ASSUME NEW k \in 0..(n - 1), k \in T PROVE k + 1 \in T
  <2>1. k \in Nat /\ k + 1 \in Nat BY <1>1
  <2>2. ASSUME NEW S \in SUBSET D, Cardinality(S) <= k + 1 PROVE Merges(lines, S, merged[S])
    <3>1. CASE S = {} BY <1>7, <3>1
    <3>2. CASE S # {}
      <4>. DEFINE i == Latest(lines, S)
                  R == S \ {i}
      <4>1. i \in S /\ \A j \in S : lines[j].from_id <= lines[i].from_id BY <1>4, <3>2
      <4>2. merged[S] = Coalesce(merged[R], lines[i]) BY Zenon, <1>5, <3>2
      <4>. HIDE DEF i
      <4>3. R \in SUBSET D /\ Cardinality(R) = Cardinality(S) - 1
        BY <1>6, <4>1, FS_RemoveElement
      <4>4. Cardinality(R) <= k BY <1>6, <2>1, <2>2, <4>3
      <4>5. Merges(lines, R, merged[R]) BY <1>9, <4>3, <4>4
      <4>6. R \union {i} = S /\ i \in DOMAIN lines /\ R \in SUBSET DOMAIN lines
        BY <4>1, <4>3 DEF D
      <4>7. \A j \in R : lines[j].from_id <= lines[i].from_id BY <4>1
      <4>. HIDE DEF R
      <4>8. Merges(lines, R \union {i}, Coalesce(merged[R], lines[i]))
        BY <4>5, <4>6, <4>7, CoalesceMerges
      <4>. QED BY Zenon, <4>2, <4>6, <4>8
    <3>. QED BY <3>1, <3>2
  <2>. QED BY <2>1, <2>2
<1>10. n \in T
  <2>. HIDE DEF T
  <2>1. \A k \in 0..n : k \in T BY <1>1, <1>8, <1>9, CountingUp
  <2>. QED BY <1>1, <2>1
<1>11. Merges(lines, D, merged[D]) BY <1>1, <1>6, <1>10
<1>. QED BY Zenon, <1>3, <1>11 DEF D

\* Runs apart cover exactly the stretches whose steps are all inside one.
LEMMA CoversIs ==
    ASSUME NEW runs \in Seq(Runs), Apart(runs), NEW a \in Nat, NEW b \in Nat, a < b
    PROVE  RunCovers(runs, a, b) <=> \A x \in a..(b - 1) : Steps(runs, DOMAIN runs, x)
<1>1. \A i \in DOMAIN runs : runs[i].from_id \in Nat /\ runs[i].to_id \in Nat
  <2>1. \A i \in DOMAIN runs : runs[i] \in Runs OBVIOUS
  <2>. QED BY <2>1, RunIs
<1>2. ASSUME RunCovers(runs, a, b), NEW x \in a..(b - 1) PROVE Steps(runs, DOMAIN runs, x)
  <2>1. PICK i \in DOMAIN runs : runs[i].from_id <= a /\ b <= runs[i].to_id BY <1>2 DEF RunCovers
  <2>2. runs[i].from_id <= x /\ x + 1 <= runs[i].to_id BY <1>1, <2>1
  <2>. QED BY <2>2 DEF Steps
<1>3. ASSUME \A x \in a..(b - 1) : Steps(runs, DOMAIN runs, x) PROVE RunCovers(runs, a, b)
  <2>1. PICK i \in DOMAIN runs : runs[i].from_id <= a /\ a + 1 <= runs[i].to_id BY <1>3 DEF Steps
  <2>2. ASSUME ~(b <= runs[i].to_id) PROVE FALSE
    <3>. DEFINE x == runs[i].to_id
    <3>1. x \in a..(b - 1) /\ x \in Nat BY <1>1, <2>1, <2>2
    <3>2. PICK k \in DOMAIN runs : runs[k].from_id <= x /\ x + 1 <= runs[k].to_id
      BY <1>3, <3>1 DEF Steps
    <3>3. i \in Nat /\ k \in Nat /\ k # i BY <1>1, <3>1, <3>2
    <3>4. CASE i < k
      <4>1. runs[i].to_id < runs[k].from_id BY <3>4 DEF Apart
      <4>. QED BY <1>1, <3>2, <4>1
    <3>5. CASE k < i
      <4>1. runs[k].to_id < runs[i].from_id BY <3>5 DEF Apart
      <4>. QED BY <1>1, <2>1, <3>1, <3>2, <4>1
    <3>. QED BY <3>3, <3>4, <3>5
  <2>. QED BY <2>1, <2>2 DEF RunCovers
<1>. QED BY <1>2, <1>3

\* A step adds a line between two ids, in order, or leaves the lines alone.
LEMMA LinesGrow ==
    ASSUME Inv, Next
    PROVE  ranges' = ranges
           \/ \E a \in 0..MaxId, b \in 0..MaxId : ranges' = Noted(ranges, a, b)
<1>. DEFINE P == ranges' = ranges
                 \/ \E a \in 0..MaxId, b \in 0..MaxId : ranges' = Noted(ranges, a, b)
<1>. SUFFICES P OBVIOUS
<1>0. MaxId \in Nat /\ 0 \in 0..MaxId BY LimitsAssumption DEF LimitsAssumption
<1>1. CASE GwNote
  <2>1. dispatch.id \in 0..MaxId /\ last_live \in 0..MaxId
    BY <1>0 DEF Inv, Types, GwOK, ServerOK
  <2>. QED BY <1>1, <2>1 DEF GwNote
<1>2. ASSUME NEW k \in JobSlots, JobEnd(k) PROVE P
  <2>. DEFINE j == jobs[k]
  <2>1. j \in Jobs /\ JobIs(j) BY DEF Inv, Types, JobsOK
  <2>2. /\ j.from \in 0..MaxId /\ j.until \in 0..MaxId /\ j.cursor \in 0..MaxId
        /\ j.edge \in 0..MaxId
    BY <2>1 DEF Jobs
  <2>3. j.pc = "end" /\ j.op \in {"none", "fetch", "forward", "backward"}
    BY <1>2, <2>1 DEF JobEnd, Jobs
  <2>4. j.op # "none" BY <2>1, <2>3 DEF JobIs
  <2>5. ranges' = CASE j.op = "fetch"    -> Noted(ranges, j.edge, j.cursor)
                    [] j.op = "forward"  -> RunForward(j)
                    [] j.op = "backward" -> RunBackward(j)
    BY <1>2 DEF JobEnd
  <2>. HIDE DEF j
  <2>6. CASE j.op = "fetch" BY <2>2, <2>5, <2>6
  <2>7. CASE j.op = "forward"
    <3>1. ranges' = RunForward(j) BY <2>5, <2>7
    <3>. QED BY <2>2, <3>1 DEF RunForward
  <2>8. CASE j.op = "backward"
    <3>1. ranges' = RunBackward(j) BY <2>5, <2>8
    <3>. QED BY <2>2, <3>1 DEF RunBackward
  <2>. QED BY <2>3, <2>4, <2>6, <2>7, <2>8
<1>3. ASSUME NEW i \in CheckSlots, CheckEnd(i) PROVE P
  <2>1. checks[i] \in Questions BY DEF Inv, Types, JobsOK
  <2>2. checks[i].after \in 0..MaxId /\ checks[i].until \in 0..MaxId BY <2>1 DEF Questions
  <2>. QED BY <1>3, <2>2 DEF CheckEnd
<1>4. CASE GwFold \/ GwKeep \/ GwDelete \/ GwElsewhere
  BY <1>4 DEF GwFold, GwKeep, GwDelete, GwElsewhere, diskVars
<1>5. ASSUME NEW k \in JobSlots,
             JobAnswered(k) \/ JobFailed(k) \/ JobUnlock(k) \/ JobFold(k) \/ JobKeep(k)
      PROVE  P
  BY <1>5 DEF JobAnswered, JobFailed, JobUnlock, JobFold, JobKeep, diskVars
<1>6. ASSUME NEW i \in CheckSlots, CheckAsk(i) PROVE P BY <1>6 DEF CheckAsk, diskVars
<1>7. CASE Discord BY <1>7 DEF Discord, Post, StartOver, Edit, Delete, diskVars
<1>8. CASE Looks BY <1>8 DEF Looks, UiOpen, UiFetch, UiFrame, UiCheck, diskVars
<1>9. CASE Presses BY <1>9 DEF Presses, UiAway, UiRetry, UiFill, UiOlder, diskVars
<1>10. CASE Exit \/ Launch BY <1>10 DEF Exit, Launch, diskVars
<1>. HIDE DEF P
<1>11. CASE Gateway BY <1>1, <1>4, <1>11 DEF Gateway
<1>12. ASSUME NEW k \in JobSlots, Job(k) PROVE P BY <1>2, <1>5, <1>12 DEF Job
<1>13. ASSUME NEW i \in CheckSlots, Check(i) PROVE P BY <1>3, <1>6, <1>13 DEF Check
<1>. QED BY <1>4, <1>7, <1>8, <1>9, <1>10, <1>11, <1>12, <1>13 DEF Next

\* So every line starts where it ends, or before.
LEMMA LinesForward ==
    Spec => []Forward(ranges)
<1>1. Init => Forward(ranges) BY DEF Init, Forward
<1>2. ASSUME Inv, Forward(ranges), [Next]_vars PROVE Forward(ranges)'
  <2>0. ranges \in Seq(Runs) BY <1>2 DEF Inv, Types, DiskOK
  <2>1. CASE ranges' = ranges BY <1>2, <2>1 DEF Forward
  <2>2. ASSUME NEW a \in 0..MaxId, NEW b \in 0..MaxId, ranges' = Noted(ranges, a, b)
        PROVE  Forward(ranges)'
    <3>1. CASE a = 0 \/ b = 0 BY <2>1, <2>2, <3>1 DEF Noted
    <3>2. CASE ~(a = 0 \/ b = 0)
      <4>. DEFINE new == Ordered(a, b)
      <4>1. new.from_id <= new.to_id
        <5>1. a \in Nat /\ b \in Nat BY LimitsAssumption DEF LimitsAssumption
        <5>. QED BY <5>1 DEF Ordered, Span
      <4>2. ranges' = Append(ranges, new) BY <2>2, <3>2 DEF Noted
      <4>. HIDE DEF new
      <4>3. /\ DOMAIN ranges' = 1..(Len(ranges) + 1) /\ DOMAIN ranges = 1..Len(ranges)
            /\ ranges'[Len(ranges) + 1] = new /\ Len(ranges) \in Nat
            /\ \A i \in 1..Len(ranges) : ranges'[i] = ranges[i]
        BY <2>0, <4>2
      <4>4. ASSUME NEW i \in DOMAIN ranges' PROVE ranges'[i].from_id <= ranges'[i].to_id
        <5>1. CASE i = Len(ranges) + 1 BY <4>1, <4>3, <5>1
        <5>2. CASE i # Len(ranges) + 1
          <6>1. i \in DOMAIN ranges /\ ranges'[i] = ranges[i] BY <4>3, <5>2
          <6>. QED BY <1>2, <6>1 DEF Forward
        <5>. QED BY <5>1, <5>2
      <4>. QED BY <4>4 DEF Forward
    <3>. QED BY <3>1, <3>2
  <2>3. CASE UNCHANGED vars BY <2>1, <2>3 DEF vars, diskVars
  <2>. QED BY <1>2, <2>1, <2>2, <2>3, LinesGrow
<1>. QED BY <1>1, <1>2, InvHolds, PTL DEF Spec

\* However many lines there are, up to as many as a reader has room for, sorting
\* them and merging them joins exactly the messages that the lines join.
THEOREM MergedRight ==
    Spec => [](Len(ranges) <= SpanCap => MergeIsRight)
<1>1. ASSUME Inv, Forward(ranges), Len(ranges) <= SpanCap PROVE MergeIsRight
  <2>1. ranges \in Seq(Runs) BY <1>1 DEF Inv, Types, DiskOK
  <2>. DEFINE runs == ChannelSpans(ranges)
  <2>2. Merges(ranges, DOMAIN ranges, runs) BY <1>1, <2>1, SpansMerge
  <2>. HIDE DEF runs
  <2>3. runs \in Seq(Runs) /\ Apart(runs) BY <2>2 DEF Merges
  <2>4. ASSUME NEW a \in Ids, NEW b \in Ids, a < b
        PROVE  RunCovers(runs, a, b) <=> Joined(ranges, a, b)
    <3>1. a \in Nat /\ b \in Nat BY DEF Ids
    <3>2. RunCovers(runs, a, b) <=> \A x \in a..(b - 1) : Steps(runs, DOMAIN runs, x)
      BY <2>3, <2>4, <3>1, CoversIs
    <3>3. \A x \in a..(b - 1) : x \in Nat BY <3>1
    <3>4. \A x \in a..(b - 1) : Steps(runs, DOMAIN runs, x) <=> Steps(ranges, DOMAIN ranges, x)
      BY <2>2, <3>3 DEF Merges
    <3>. QED BY <3>2, <3>4 DEF Joined, Steps
  <2>. QED BY <2>4 DEF MergeIsRight, runs
<1>. QED BY <1>1, InvHolds, LinesForward, PTL

================================================================================
