-------------------------- MODULE ArchiveLog_proofs ---------------------------
(***************************************************************************)
(* The log keeps up with the store, and a deletion stays one, for any      *)
(* messages, any texts and a file of any length.                           *)
(***************************************************************************)
EXTENDS ArchiveLog, WellFoundedInduction, TLAPS

-----------------------------------------------------------------------------
(* The inductive invariant.                                                   *)

Dispatches == [kind : {"message"}, id : Ids, text : Texts]
              \union [kind : {"delete"}, id : Ids, text : {Bare}]

\* Where the gateway thread is, and what it then has in hand.
GwOK ==
    \/ gw = NoDispatch
    \/ gw \in [pc : {"keep"}, id : Ids]
    \/ gw \in [pc : {"mark", "locked", "append", "flag"}, id : Ids, text : Texts \union {Bare}]

\* The same of the job.
JobOK ==
    /\ job.pc \in {"idle", "fold", "keep", "put"}
    /\ job.pc = "fold" => /\ DOMAIN job.page \subseteq Ids
                          /\ \A id \in DOMAIN job.page : job.page[id] \in Texts
    /\ job.pc \in {"keep", "put"} => job.left \subseteq Ids
    /\ job.pc = "put" => job.id \in Ids

\* The job has the guard exactly while it puts, the gateway thread the archive's
\* lock exactly while it marks.
LocksOK ==
    /\ guard \in {Free, "job"} /\ lock \in {Free, "gw"}
    /\ guard = "job" <=> job.pc = "put"
    /\ lock = "gw" <=> gw.pc \in {"locked", "append"}

ServerOK == said \in [Ids -> Texts \union {0}] /\ gone \subseteq Ids /\ wire \in Seq(Dispatches)
DiskOK == file \in Seq(Lines) /\ cut \in BOOLEAN
ClientOK ==
    /\ held \in [Ids -> Copies] /\ known \in [Ids -> Texts \union {Unknown, Marked}]
    /\ loaded \in BOOLEAN /\ reading \in BOOLEAN /\ refused \subseteq Ids
SpentOK == spent \in [told : Nat, pages : Nat, searches : Nat, deaths : Nat]

Types == ServerOK /\ DiskOK /\ ClientOK /\ SpentOK /\ GwOK /\ JobOK /\ LocksOK

\* Somebody is going to put this message.
Pending(id) ==
    \/ gw.pc = "keep" /\ gw.id = id
    \/ job.pc = "put" /\ job.id = id
    \/ job.pc \in {"keep", "put"} /\ id \in job.left

\* What is going to be put says something.
PendingSays == \A id \in Ids : Pending(id) => held[id].text \in Texts

\* A file that ends without a newline ends in half a line.
CutIsHalf == cut => Len(file) > 0 /\ ~file[Len(file)].whole

\* The last line of a message says t, and can be read unless it follows half a line.
Ends(id, t) ==
    \E i \in LinesOf(id) :
        /\ \A j \in LinesOf(id) : j <= i
        /\ file[i].text = t /\ ~file[i].deleted
        /\ file[i].whole \/ (i > 1 /\ ~file[i - 1].whole)

Stamped == \A id \in Ids \ refused : known[id] \in Texts => Ends(id, known[id])

HasLine(id, t) == \E i \in LinesOf(id) : file[i].text = t
Written(id) == HasLine(id, held[id].text)

WrittenOrPending ==
    \A id \in Ids \ refused : held[id] # NotHeld => Written(id) \/ Pending(id)

Inv == Types /\ PendingSays /\ CutIsHalf /\ Stamped /\ WrittenOrPending
-----------------------------------------------------------------------------
(* One line more.                                                             *)

\* What has a line keeps it.
LEMMA LinesStay ==
    ASSUME file \in Seq(Lines), NEW l \in Lines, file' = Append(file, l) \/ file' = file,
           NEW id, NEW t, HasLine(id, t)
    PROVE  HasLine(id, t)'
<1>1. PICK i \in DOMAIN file : file[i].id = id /\ file[i].text = t BY DEF HasLine, LinesOf
<1>2. i \in DOMAIN file' /\ file'[i] = file[i] BY <1>1
<1>. QED BY <1>1, <1>2 DEF HasLine, LinesOf

\* A line of another message is not the last one of this.
LEMMA EndsStays ==
    ASSUME file \in Seq(Lines), NEW l \in Lines, file' = Append(file, l),
           NEW id, id # l.id, NEW t, Ends(id, t)
    PROVE  Ends(id, t)'
<1>1. PICK i \in DOMAIN file : /\ file[i].id = id
                               /\ \A j \in DOMAIN file : file[j].id = id => j <= i
                               /\ file[i].text = t /\ ~file[i].deleted
                               /\ file[i].whole \/ (i > 1 /\ ~file[i - 1].whole)
  BY DEF Ends, LinesOf
<1>2. DOMAIN file' = 1..(Len(file) + 1) /\ DOMAIN file = 1..Len(file) /\ Len(file) \in Nat
  OBVIOUS
<1>3. \A j \in 1..Len(file) : file'[j] = file[j] OBVIOUS
<1>4. file'[Len(file) + 1].id # id OBVIOUS
<1>5. \A j \in DOMAIN file' : file'[j].id = id => j <= i BY <1>1, <1>2, <1>3, <1>4
<1>6. file'[i].whole \/ (i > 1 /\ ~file'[i - 1].whole)
  <2>1. i > 1 => i - 1 \in 1..Len(file) BY <1>2
  <2>. QED BY <1>1, <1>2, <1>3, <2>1
<1>7. i \in DOMAIN file' /\ file'[i] = file[i] BY <1>2, <1>3
<1>. QED BY <1>1, <1>5, <1>6, <1>7 DEF Ends, LinesOf

\* A readable last line without the mark, or the line after half a line.
LEMMA EndsAnew ==
    ASSUME file \in Seq(Lines), NEW l \in Lines, file' = Append(file, l), ~l.deleted,
           l.whole \/ (Len(file) > 0 /\ ~file[Len(file)].whole)
    PROVE  Ends(l.id, l.text)' /\ HasLine(l.id, l.text)'
<1>. DEFINE n == Len(file) + 1
<1>1. DOMAIN file' = 1..n /\ DOMAIN file = 1..Len(file) /\ Len(file) \in Nat OBVIOUS
<1>2. file'[n] = l /\ \A j \in 1..Len(file) : file'[j] = file[j] OBVIOUS
<1>3. n \in DOMAIN file' /\ \A j \in DOMAIN file' : j <= n BY <1>1
<1>4. l.whole \/ (n > 1 /\ ~file'[n - 1].whole)
  <2>1. n - 1 = Len(file) /\ (Len(file) > 0 => n > 1 /\ Len(file) \in 1..Len(file)) BY <1>1
  <2>2. Len(file) > 0 => file'[n - 1] = file[Len(file)] BY <1>2, <2>1
  <2>. QED BY <2>1, <2>2
<1>. HIDE DEF n
<1>. QED BY <1>2, <1>3, <1>4 DEF Ends, HasLine, LinesOf

\* What append() does to the disk: nothing, or one line that can be read unless the
\* file ended in half a line.
LEMMA AppendAdds ==
    ASSUME DiskOK, reading \in BOOLEAN, CutIsHalf, NEW id \in Ids, NEW t \in Texts \union {Bare},
           NEW d \in BOOLEAN, AppendLine(Line(id, t, d))
    PROVE  /\ DiskOK' /\ CutIsHalf'
           /\ reading => file' = file
           /\ ~reading => \E l \in Lines :
                 /\ file' = Append(file, l) /\ l.id = id /\ l.text = t /\ l.deleted = d
                 /\ l.whole \/ (Len(file) > 0 /\ ~file[Len(file)].whole)
<1>1. CASE reading
  <2>1. UNCHANGED disk BY <1>1 DEF AppendLine
  <2>. QED BY <1>1, <2>1 DEF DiskOK, CutIsHalf, disk
<1>2. CASE ~reading
  <2>. DEFINE l == [Line(id, t, d) EXCEPT !.whole = ~cut]
  <2>1. file' = Append(file, l) /\ cut' = FALSE BY <1>2 DEF AppendLine
  <2>2. l = [id |-> id, text |-> t, deleted |-> d, whole |-> ~cut] BY DEF Line
  <2>3. l \in Lines BY <2>2 DEF Lines, DiskOK
  <2>4. l.id = id /\ l.text = t /\ l.deleted = d /\ l.whole = ~cut BY <2>2
  <2>. HIDE DEF l
  <2>5. DiskOK' /\ CutIsHalf'
    <3>1. CutIsHalf' BY <2>1 DEF CutIsHalf
    <3>2. file' \in Seq(Lines) BY <2>1, <2>3 DEF DiskOK
    <3>3. cut' \in BOOLEAN BY <2>1
    <3>. QED BY <3>1, <3>2, <3>3 DEF DiskOK
  <2>6. l.whole \/ (Len(file) > 0 /\ ~file[Len(file)].whole) BY <2>4 DEF CutIsHalf, DiskOK
  <2>. QED BY <1>2, <2>1, <2>3, <2>4, <2>5, <2>6
<1>. QED BY <1>1, <1>2

-----------------------------------------------------------------------------
(* archive::put.                                                              *)

\* A put leaves the log in step, writes what is held, and touches no other message.
LEMMA PutKeeps ==
    ASSUME Types, CutIsHalf, Stamped, NEW id \in Ids, NEW t \in Texts, t = held[id].text,
           Put(id)
    PROVE  /\ DiskOK' /\ CutIsHalf' /\ Stamped'
           /\ known' \in [Ids -> Texts \union {Unknown, Marked}] /\ refused' \subseteq Ids
           /\ \A i, u : HasLine(i, u) => HasLine(i, u)'
           /\ \A i \in Ids \ {id} : i \notin refused' => i \notin refused
           /\ id \notin refused' => HasLine(id, t)'
<1>0. /\ DiskOK /\ reading \in BOOLEAN /\ refused \subseteq Ids
      /\ known \in [Ids -> Texts \union {Unknown, Marked}]
  BY DEF Types, ClientOK
<1>1. CASE known[id] = t
  <2>1. UNCHANGED <<disk, known, refused>> BY <1>1 DEF Put
  <2>2. file' = file /\ cut' = cut /\ known' = known /\ refused' = refused BY <2>1 DEF disk
  <2>3. \A i, u : HasLine(i, u)' <=> HasLine(i, u) BY <2>2 DEF HasLine, LinesOf
  <2>4. \A i, u : Ends(i, u)' <=> Ends(i, u) BY <2>2 DEF Ends, LinesOf
  <2>5. id \notin refused => Ends(id, t) BY <1>1 DEF Stamped
  <2>6. Ends(id, t) => HasLine(id, t) BY DEF Ends, HasLine
  <2>7. DiskOK' /\ CutIsHalf' BY <1>0, <2>2 DEF DiskOK, CutIsHalf
  <2>8. Stamped' BY <2>2, <2>4 DEF Stamped
  <2>. QED BY <1>0, <2>2, <2>3, <2>5, <2>6, <2>7, <2>8
<1>2. CASE known[id] # t
  <2>1. AppendLine(Line(id, t, FALSE)) BY <1>2 DEF Put
  <2>2. refused' = IF reading THEN refused \union {id} ELSE refused \ {id} BY <1>2 DEF Put
  <2>3. known' = [known EXCEPT ![id] = t] BY <1>2 DEF Put
  <2>4. t \in Texts \union {Bare} OBVIOUS
  <2>. DEFINE none == FALSE
  <2>11. none \in BOOLEAN /\ ~none OBVIOUS
  <2>12. AppendLine(Line(id, t, none)) BY <2>1
  <2>. HIDE DEF none
  <2>5. /\ DiskOK' /\ CutIsHalf'
        /\ reading => file' = file
        /\ ~reading => \E l \in Lines :
              /\ file' = Append(file, l) /\ l.id = id /\ l.text = t /\ ~l.deleted
              /\ l.whole \/ (Len(file) > 0 /\ ~file[Len(file)].whole)
    BY <1>0, <2>4, <2>11, <2>12, AppendAdds
  <2>6. known' \in [Ids -> Texts \union {Unknown, Marked}] /\ refused' \subseteq Ids
    BY <1>0, <2>2, <2>3
  <2>7. \A i \in Ids \ {id} : known'[i] = known[i] BY <1>0, <2>3
  <2>8. known'[id] = t BY <1>0, <2>3
  <2>9. CASE reading
    <3>1. file' = file BY <2>5, <2>9
    <3>2. \A i, u : HasLine(i, u)' <=> HasLine(i, u) BY <3>1 DEF HasLine, LinesOf
    <3>3. \A i, u : Ends(i, u)' <=> Ends(i, u) BY <3>1 DEF Ends, LinesOf
    <3>4. refused' = refused \union {id} BY <2>2, <2>9
    <3>5. Stamped' BY <3>3, <3>4, <2>7 DEF Stamped
    <3>. QED BY <2>5, <2>6, <3>2, <3>4, <3>5
  <2>10. CASE ~reading
    <3>1. PICK l \in Lines :
              /\ file' = Append(file, l) /\ l.id = id /\ l.text = t /\ ~l.deleted
              /\ l.whole \/ (Len(file) > 0 /\ ~file[Len(file)].whole)
      BY <2>5, <2>10
    <3>2. file \in Seq(Lines) BY <1>0 DEF DiskOK
    <3>3. \A i, u : HasLine(i, u) => HasLine(i, u)' BY <3>1, <3>2, LinesStay
    <3>4. \A i, u : i # id /\ Ends(i, u) => Ends(i, u)' BY <3>1, <3>2, EndsStays
    <3>5. Ends(id, t)' /\ HasLine(id, t)' BY <3>1, <3>2, EndsAnew
    <3>6. refused' = refused \ {id} BY <2>2, <2>10
    <3>7. Stamped' BY <2>7, <2>8, <3>4, <3>5, <3>6 DEF Stamped
    <3>. QED BY <2>5, <2>6, <3>3, <3>5, <3>6, <3>7
  <2>. QED BY <2>9, <2>10
<1>. QED BY <1>1, <1>2

-----------------------------------------------------------------------------
(* load_channel.                                                              *)

\* What is so for none, and for one more wherever it is so, is so up to any number.
LEMMA CountingUp ==
    ASSUME NEW n \in Nat, NEW T, 0 \in T, \A k \in 0..(n - 1) : k \in T => k + 1 \in T
    PROVE  \A k \in 0..n : k \in T
<1>. DEFINE S == {k \in 0..n : k \notin T}
            R == OpToRel(<, Nat)
<1>1. SUFFICES ASSUME S # {} PROVE FALSE OBVIOUS
<1>2. R = {ss \in Nat \X Nat : ss[1] < ss[2]} BY Zenon DEF OpToRel
<1>3. IsWellFoundedOn(R, Nat) BY NatLessThanWellFounded
<1>4. S \in SUBSET Nat OBVIOUS
<1>. HIDE DEF R
<1>5. PICK m \in S : \A y \in S : ~(<<y, m>> \in R) BY <1>1, <1>3, <1>4, WFMin
<1>6. m \in 0..n /\ m \notin T /\ m # 0 BY <1>5
<1>7. m - 1 \in 0..(n - 1) /\ m - 1 \in 0..n /\ m - 1 < m /\ m - 1 + 1 = m BY <1>6
<1>8. m - 1 \notin S
  <2>1. <<m - 1, m>> \in R BY <1>2, <1>6, <1>7
  <2>. QED BY <1>5, <2>1
<1>9. m - 1 \in T BY <1>7, <1>8
<1>. QED BY <1>6, <1>7, <1>9

\* One line read back into what is held.
ReadBack(h, l) == IF l.whole THEN [h EXCEPT ![l.id] = Restored(@, l)] ELSE h

\* The walk gives every message what it held, or what a readable line of it says,
\* and the mark if it had it or if a readable line has it.
Gives(h, id) ==
    /\ h[id].text = held[id].text \/ \E i \in Readable(id) : file[i].text = h[id].text
    /\ held[id].text \in Texts => h[id].text \in Texts
    /\ held[id].deleted => h[id].deleted

\* The walk is one line after the other, the last first.
LEMMA LoadedWalks ==
    ASSUME Len(file) \in Nat
    PROVE  \E after :
             /\ after[0] = held
             /\ \A k \in 1..Len(file) : after[k] = ReadBack(after[k - 1], file[Len(file) + 1 - k])
             /\ Loaded = after[Len(file)]
<1>. DEFINE n == Len(file)
            Is(f, m) == f = [k \in 0..m |-> IF k = 0 THEN held
                                            ELSE ReadBack(f[k - 1], file[n + 1 - k])]
            T == {m \in Nat : \E f : Is(f, m)}
            after == CHOOSE f : Is(f, n)
<1>0. n \in Nat OBVIOUS
<1>1. Loaded = after[n] BY Zenon DEF Loaded, ReadBack
<1>. HIDE DEF n
<1>2. 0 \in T
  <2>. DEFINE f == [k \in 0..0 |-> held]
  <2>1. Is(f, 0) OBVIOUS
  <2>. QED BY <2>1
<1>3. ASSUME NEW m \in 0..(n - 1), m \in T PROVE m + 1 \in T
  <2>1. PICK g : Is(g, m) BY <1>3
  <2>2. m \in Nat /\ \A k \in 0..m : g[k] = IF k = 0 THEN held
                                           ELSE ReadBack(g[k - 1], file[n + 1 - k]) BY <2>1
  <2>. DEFINE f == [k \in 0..(m + 1) |-> IF k = m + 1 THEN ReadBack(g[m], file[n + 1 - k])
                                         ELSE g[k]]
  <2>3. \A k \in 0..(m + 1) : f[k] = IF k = 0 THEN held ELSE ReadBack(f[k - 1], file[n + 1 - k])
    <3>. TAKE k \in 0..(m + 1)
    <3>1. CASE k = m + 1
      <4>1. f[k] = ReadBack(g[m], file[n + 1 - k]) /\ f[k - 1] = g[m] /\ k # 0 BY <2>2, <3>1
      <4>. QED BY <4>1
    <3>2. CASE k # m + 1
      <4>1. k \in 0..m /\ f[k] = g[k] BY <2>2, <3>2
      <4>2. k # 0 => k - 1 \in 0..m /\ f[k - 1] = g[k - 1] BY <2>2, <4>1
      <4>. QED BY <2>2, <4>1, <4>2
    <3>. QED BY <3>1, <3>2
  <2>4. f = [k \in 0..(m + 1) |-> f[k]] OBVIOUS
  <2>. HIDE DEF f
  <2>5. Is(f, m + 1) BY <2>3, <2>4
  <2>. QED BY <2>2, <2>5
<1>4. n \in T
  <2>. HIDE DEF T
  <2>1. \A k \in 0..n : k \in T BY <1>0, <1>2, <1>3, CountingUp
  <2>. QED BY <1>0, <2>1
<1>5. Is(after, n)
  <2>1. \E f : Is(f, n) BY <1>4
  <2>. HIDE DEF Is
  <2>. QED BY <2>1, Zenon
<1>6. after[0] = held /\ \A k \in 1..n : after[k] = ReadBack(after[k - 1], file[n + 1 - k])
  <2>. HIDE DEF after
  <2>1. \A k \in 0..n : after[k] = IF k = 0 THEN held ELSE ReadBack(after[k - 1], file[n + 1 - k])
    BY <1>5
  <2>. QED BY <1>0, <2>1
<1>. QED BY <1>1, <1>6 DEF n

\* What a line does to the copy of its message.
LEMMA RestoredIs ==
    ASSUME NEW m \in Copies, NEW l \in Lines
    PROVE  /\ Restored(m, l) \in Copies
           /\ Restored(m, l).text = l.text \/ (Restored(m, l).text = m.text /\ l.text = Bare)
           /\ Restored(m, l).deleted <=> (m.deleted \/ l.deleted)
<1>. DEFINE u == Upserted(m, l.text)
            d == m.deleted \/ l.deleted
            t == IF l.text # Bare \/ m = NotHeld THEN l.text ELSE m.text
<1>1. l.text \in Texts \union {Bare} /\ l.deleted \in BOOLEAN BY DEF Lines
<1>2. m = NotHeld \/ m.text \in Texts \union {Bare} BY DEF Copies
<1>3. m.deleted \in BOOLEAN
  <2>1. CASE m = NotHeld BY <2>1 DEF NotHeld
  <2>2. CASE m \in [text : Texts \union {Bare}, deleted : BOOLEAN] BY <2>2
  <2>. QED BY <2>1, <2>2 DEF Copies
<1>4. t \in Texts \union {Bare} BY <1>1, <1>2
<1>5. u = [text |-> t, deleted |-> m.deleted] BY DEF Upserted
<1>6. Restored(m, l) = [u EXCEPT !.deleted = d] BY DEF Restored
<1>7. t = l.text \/ (t = m.text /\ l.text = Bare) OBVIOUS
<1>8. d \in BOOLEAN BY <1>1, <1>3
<1>. HIDE DEF t, d, u
<1>9. Restored(m, l) = [text |-> t, deleted |-> d] BY <1>5, <1>6
<1>10. Restored(m, l).text = t /\ Restored(m, l).deleted = d BY <1>9
<1>11. Restored(m, l) \in Copies BY <1>4, <1>8, <1>9 DEF Copies
<1>12. d <=> (m.deleted \/ l.deleted) BY DEF d
<1>. QED BY <1>7, <1>10, <1>11, <1>12

\* One line read back keeps what the walk gives, and hands on its mark.
LEMMA ReadBackGives ==
    ASSUME file \in Seq(Lines), LogAssumption, NEW h \in [Ids -> Copies], NEW i \in DOMAIN file,
           NEW r, r = ReadBack(h, file[i]), \A id \in Ids : Gives(h, id)
    PROVE  /\ r \in [Ids -> Copies]
           /\ \A id \in Ids : Gives(r, id) /\ (h[id].deleted => r[id].deleted)
           /\ file[i].whole /\ file[i].deleted => r[file[i].id].deleted
<1>. DEFINE l == file[i]
<1>1. l \in Lines /\ l.id \in Ids /\ l.text \in Texts \union {Bare}
  <2>1. l \in Lines OBVIOUS
  <2>. QED BY <2>1 DEF Lines
<1>2. CASE ~l.whole
  <2>1. r = h BY <1>2 DEF ReadBack
  <2>. QED BY <1>2, <2>1
<1>3. CASE l.whole
  <2>. DEFINE m == Restored(h[l.id], l)
  <2>1. r = [h EXCEPT ![l.id] = m] BY <1>3 DEF ReadBack
  <2>2. h[l.id] \in Copies BY <1>1
  <2>3. /\ m \in Copies
        /\ m.text = l.text \/ (m.text = h[l.id].text /\ l.text = Bare)
        /\ m.deleted <=> (h[l.id].deleted \/ l.deleted)
    BY <1>1, <2>2, RestoredIs
  <2>4. i \in Readable(l.id) BY <1>3 DEF Readable
  <2>. HIDE DEF m
  <2>5. r \in [Ids -> Copies] /\ r[l.id] = m /\ \A id \in Ids \ {l.id} : r[id] = h[id]
    BY <1>1, <2>1, <2>3
  <2>6. Gives(r, l.id)
    <3>1. Gives(h, l.id) BY <1>1
    <3>2. r[l.id].text = held[l.id].text \/ \E j \in Readable(l.id) : file[j].text = r[l.id].text
      <4>1. CASE m.text = l.text BY <2>4, <2>5, <4>1
      <4>2. CASE m.text = h[l.id].text BY <2>5, <3>1, <4>2 DEF Gives
      <4>. QED BY <2>3, <4>1, <4>2
    <3>3. held[l.id].text \in Texts => r[l.id].text \in Texts
      <4>1. CASE m.text = l.text /\ l.text # Bare BY <1>1, <2>5, <4>1
      <4>2. CASE m.text = h[l.id].text BY <2>5, <3>1, <4>2 DEF Gives
      <4>3. CASE m.text = l.text /\ l.text = Bare
        <5>1. h[l.id].text \in Texts => m.text = h[l.id].text
          <6>1. ASSUME h[l.id].text \in Texts PROVE m.text # Bare
            <7>1. m = Upserted(h[l.id], l.text) \/ m.text = Upserted(h[l.id], l.text).text
              BY DEF m, Restored
            <7>2. h[l.id] # NotHeld BY <6>1 DEF LogAssumption, NotHeld
            <7>3. Upserted(h[l.id], l.text).text = h[l.id].text BY <4>3, <7>2 DEF Upserted
            <7>. QED BY <6>1, <7>1, <7>3 DEF LogAssumption, Bare
          <6>. QED BY <4>3, <6>1
        <5>. QED BY <2>5, <3>1, <5>1 DEF Gives
      <4>. QED BY <2>3, <4>1, <4>2, <4>3
    <3>4. held[l.id].deleted => r[l.id].deleted BY <2>3, <2>5, <3>1 DEF Gives
    <3>. QED BY <3>2, <3>3, <3>4 DEF Gives
  <2>7. ASSUME NEW id \in Ids \ {l.id} PROVE Gives(r, id)
    <3>1. Gives(h, id) /\ r[id] = h[id] BY <2>5
    <3>. QED BY <3>1 DEF Gives
  <2>8. r[l.id].deleted <=> (h[l.id].deleted \/ l.deleted) BY <2>3, <2>5
  <2>9. \A id \in Ids : Gives(r, id) BY <2>6, <2>7
  <2>10. \A id \in Ids : h[id].deleted => r[id].deleted BY <2>5, <2>8
  <2>. QED BY <2>5, <2>8, <2>9, <2>10
<1>. QED BY <1>2, <1>3

\* What the channel shows when it is opened.
LEMMA LoadedGives ==
    ASSUME Types
    PROVE  /\ Loaded \in [Ids -> Copies]
           /\ \A id \in Ids : /\ Gives(Loaded, id)
                              /\ (\E i \in Readable(id) : file[i].deleted) => Loaded[id].deleted
<1>. DEFINE n == Len(file)
<1>1. file \in Seq(Lines) /\ held \in [Ids -> Copies] /\ n \in Nat /\ DOMAIN file = 1..n
  BY DEF Types, DiskOK, ClientOK
<1>2. PICK after : /\ after[0] = held
                   /\ \A k \in 1..n : after[k] = ReadBack(after[k - 1], file[n + 1 - k])
                   /\ Loaded = after[n]
  BY <1>1, LoadedWalks
<1>. DEFINE Right(k) ==
               /\ after[k] \in [Ids -> Copies]
               /\ \A id \in Ids :
                     /\ Gives(after[k], id)
                     /\ \A i \in Readable(id) : i > n - k /\ file[i].deleted => after[k][id].deleted
            T == {k \in Nat : Right(k)}
<1>. HIDE DEF n
<1>3. 0 \in T
  <2>1. \A id \in Ids : Gives(held, id) BY DEF Gives
  <2>2. \A id \in Ids : \A i \in Readable(id) : ~(i > n - 0) BY <1>1 DEF Readable
  <2>3. Right(0) BY <1>1, <1>2, <2>1, <2>2
  <2>. QED BY <2>3
<1>4. ASSUME NEW k \in 0..(n - 1), k \in T PROVE k + 1 \in T
  <2>. DEFINE i == n - k
              r == after[k + 1]
  <2>1. k + 1 \in 1..n /\ k + 1 - 1 = k /\ n + 1 - (k + 1) = i /\ i \in DOMAIN file /\ k + 1 \in Nat
    BY <1>1
  <2>2. r = ReadBack(after[k], file[i]) BY <1>2, <2>1
  <2>3. Right(k) BY <1>4
  <2>4. i \in Int /\ n - (k + 1) = i - 1 BY <1>1
  <2>. HIDE DEF i, r
  <2>5. /\ r \in [Ids -> Copies]
        /\ \A id \in Ids : Gives(r, id) /\ (after[k][id].deleted => r[id].deleted)
        /\ file[i].whole /\ file[i].deleted => r[file[i].id].deleted
    BY SMTT(30), <1>1, <2>1, <2>2, <2>3, ReadBackGives, LogAssumption
  <2>6. ASSUME NEW id \in Ids, NEW j \in Readable(id), j > i - 1, file[j].deleted
        PROVE  r[id].deleted
    <3>1. CASE j = i BY <2>5, <2>6, <3>1 DEF Readable
    <3>2. CASE j # i
      <4>1. j > n - k BY <1>1, <2>4, <2>6, <3>2 DEF Readable, i
      <4>. QED BY <2>3, <2>5, <2>6, <4>1
    <3>. QED BY <3>1, <3>2
  <2>7. Right(k + 1) BY <2>4, <2>5, <2>6 DEF r
  <2>. HIDE DEF Right
  <2>. QED BY <2>1, <2>7
<1>5. Right(n)
  <2>. HIDE DEF T
  <2>. HIDE DEF Right
  <2>0. n \in Nat BY <1>1
  <2>1. \A k \in 0..n : k \in T BY <2>0, <1>3, <1>4, CountingUp
  <2>2. n \in 0..n BY <2>0
  <2>. QED BY <2>1, <2>2 DEF T
<1>6. \A id \in Ids : \A i \in Readable(id) : i > n - n BY <1>1 DEF Readable
<1>. QED BY <1>2, <1>5, <1>6

-----------------------------------------------------------------------------
(* One step.                                                                  *)

\* What is not held has no text, and only that.
LEMMA CopyIs ==
    ASSUME NEW m \in Copies
    PROVE  /\ m = NotHeld <=> m.text = -1
           /\ m # NotHeld => m.text \in Texts \union {Bare} /\ m.deleted \in BOOLEAN
           /\ -1 \notin Texts \union {Bare}
<1>1. -1 \notin Texts \union {Bare} BY LogAssumption DEF LogAssumption, Bare
<1>2. CASE m = NotHeld BY <1>1, <1>2 DEF NotHeld
<1>3. CASE m # NotHeld
  <2>1. m \in [text : Texts \union {Bare}, deleted : BOOLEAN] BY <1>3 DEF Copies
  <2>. QED BY <1>1, <1>3, <2>1
<1>. QED BY <1>2, <1>3

\* What an upsert with a text makes of a copy.
LEMMA UpsertedSays ==
    ASSUME NEW m \in Copies, NEW t \in Texts
    PROVE  Upserted(m, t) \in Copies /\ Upserted(m, t).text = t /\ Upserted(m, t).deleted = m.deleted
<1>1. t # Bare BY LogAssumption DEF LogAssumption, Bare
<1>2. Upserted(m, t) = [text |-> t, deleted |-> m.deleted] BY <1>1 DEF Upserted
<1>3. m.deleted \in BOOLEAN
  <2>1. CASE m = NotHeld BY <2>1 DEF NotHeld
  <2>2. CASE m # NotHeld BY <2>2, CopyIs
  <2>. QED BY <2>1, <2>2
<1>4. Upserted(m, t) \in [text : Texts \union {Bare}, deleted : BOOLEAN] BY <1>2, <1>3
<1>. QED BY <1>2, <1>4 DEF Copies

\* While nothing is written the log says what it said.
LEMMA LogStays ==
    ASSUME Inv, UNCHANGED <<disk, known, refused>>
    PROVE  /\ DiskOK' /\ CutIsHalf' /\ Stamped'
           /\ \A i, u : HasLine(i, u)' <=> HasLine(i, u)
<1>1. file' = file /\ cut' = cut /\ known' = known /\ refused' = refused BY DEF disk
<1>2. \A i, u : HasLine(i, u)' <=> HasLine(i, u) BY <1>1 DEF HasLine, LinesOf
<1>3. \A i, u : Ends(i, u)' <=> Ends(i, u) BY <1>1 DEF Ends, LinesOf
<1>4. DiskOK' /\ CutIsHalf' BY <1>1 DEF Inv, Types, DiskOK, CutIsHalf
<1>5. Stamped' BY <1>1, <1>3 DEF Inv, Stamped
<1>. QED BY <1>2, <1>4, <1>5

\* While moreover no copy changes and who puts what does not, all is as it was.
LEMMA RestStays ==
    ASSUME Inv, UNCHANGED <<disk, held, known, refused>>,
           \A id \in Ids : Pending(id)' <=> Pending(id)
    PROVE  DiskOK' /\ CutIsHalf' /\ Stamped' /\ PendingSays' /\ WrittenOrPending'
<1>1. /\ DiskOK' /\ CutIsHalf' /\ Stamped'
      /\ \A i, u : HasLine(i, u)' <=> HasLine(i, u)
  BY LogStays
<1>2. held' = held /\ refused' = refused OBVIOUS
<1>3. PendingSays' BY <1>2 DEF Inv, PendingSays
<1>4. \A id : Written(id)' <=> Written(id) BY <1>1, <1>2 DEF Written
<1>5. WrittenOrPending' BY <1>2, <1>4 DEF Inv, WrittenOrPending
<1>. QED BY <1>1, <1>3, <1>5

\* Discord posts, edits and takes back.
LEMMA ServerKeeps ==
    ASSUME Inv, NEW id \in Ids, TakeBack(id) \/ \E t \in Texts : Write(id, t)
    PROVE  Inv'
<1>1. UNCHANGED <<disk, held, known, loaded, gw, job, guard, lock, reading, refused>>
  BY DEF TakeBack, Write
<1>2. ServerOK' /\ SpentOK'
  <2>1. ServerOK /\ SpentOK BY DEF Inv, Types
  <2>2. CASE TakeBack(id)
    <3>1. Tell("delete", id, Bare) /\ said' = said /\ gone' = gone \union {id}
      BY <2>2 DEF TakeBack
    <3>2. [kind |-> "delete", id |-> id, text |-> Bare] \in Dispatches BY DEF Dispatches
    <3>. QED BY <2>1, <3>1, <3>2 DEF Tell, ServerOK, SpentOK
  <2>3. ASSUME NEW t \in Texts, Write(id, t) PROVE ServerOK' /\ SpentOK'
    <3>1. Tell("message", id, t) /\ said' = [said EXCEPT ![id] = t] /\ gone' = gone
      BY <2>3 DEF Write
    <3>2. [kind |-> "message", id |-> id, text |-> t] \in Dispatches BY DEF Dispatches
    <3>3. wire' \in Seq(Dispatches) /\ SpentOK'
      BY <2>1, <3>1, <3>2 DEF Tell, ServerOK, SpentOK
    <3>4. said' \in [Ids -> Texts \union {0}] BY <2>1, <3>1 DEF ServerOK
    <3>. QED BY <2>1, <3>1, <3>3, <3>4 DEF ServerOK
  <2>. QED BY <2>2, <2>3
<1>3. \A i \in Ids : Pending(i)' <=> Pending(i) BY <1>1 DEF Pending
<1>4. DiskOK' /\ CutIsHalf' /\ Stamped' /\ PendingSays' /\ WrittenOrPending'
  BY <1>1, <1>3, RestStays
<1>5. ClientOK' /\ GwOK' /\ JobOK' /\ LocksOK'
  BY <1>1 DEF Inv, Types, ClientOK, GwOK, JobOK, LocksOK
<1>. QED BY <1>2, <1>4, <1>5 DEF Inv, Types

\* What Discord sent first.
LEMMA FirstOnTheWire ==
    ASSUME Inv, wire # <<>>
    PROVE  /\ Head(wire).id \in Ids /\ Tail(wire) \in Seq(Dispatches)
           /\ Head(wire).kind = "message" => Head(wire).text \in Texts
<1>1. wire \in Seq(Dispatches) BY DEF Inv, Types, ServerOK
<1>2. Head(wire) \in Dispatches /\ Tail(wire) \in Seq(Dispatches) BY <1>1
<1>. QED BY <1>2 DEF Dispatches

\* A live message is folded into the store, and is going to be put.
LEMMA GwFoldKeeps == ASSUME Inv, GwFold PROVE Inv'
<1>0. PICK d : d = Head(wire) OBVIOUS
<1>1. /\ d.id \in Ids /\ d.text \in Texts /\ wire' = Tail(wire) /\ wire' \in Seq(Dispatches)
      /\ gw.pc = "idle" /\ gw' = [pc |-> "keep", id |-> d.id]
      /\ held' = [held EXCEPT ![d.id] = Upserted(@, d.text)]
      /\ UNCHANGED <<said, gone, disk, known, loaded, job, guard, lock, reading, refused, spent>>
  BY <1>0, FirstOnTheWire DEF GwFold
<1>2. held \in [Ids -> Copies] BY DEF Inv, Types, ClientOK
<1>3. held[d.id] \in Copies BY <1>1, <1>2
<1>4. /\ Upserted(held[d.id], d.text) \in Copies /\ Upserted(held[d.id], d.text).text = d.text
  BY <1>1, <1>3, UpsertedSays
<1>5. /\ held' \in [Ids -> Copies] /\ held'[d.id].text = d.text
      /\ \A id \in Ids \ {d.id} : held'[id] = held[id]
  BY <1>1, <1>2, <1>4
<1>6. \A id \in Ids : id # d.id => (Pending(id)' <=> Pending(id)) BY <1>1 DEF Pending
<1>7. Pending(d.id)' BY <1>1 DEF Pending
<1>8. /\ DiskOK' /\ CutIsHalf' /\ Stamped'
      /\ \A i, u : HasLine(i, u)' <=> HasLine(i, u)
  BY <1>1, LogStays
<1>9. PendingSays' BY <1>1, <1>5, <1>6 DEF Inv, PendingSays
<1>10. WrittenOrPending'
  <2>1. SUFFICES ASSUME NEW id \in Ids \ refused, held'[id] # NotHeld, id # d.id
                 PROVE  Written(id)' \/ Pending(id)'
    BY <1>1, <1>7 DEF WrittenOrPending
  <2>2. held[id] # NotHeld /\ held'[id] = held[id] BY <1>5, <2>1
  <2>3. Written(id) \/ Pending(id) BY <2>2 DEF Inv, WrittenOrPending
  <2>. QED BY <1>6, <1>8, <2>1, <2>2, <2>3 DEF Written
<1>11. ServerOK' /\ ClientOK' /\ SpentOK' /\ GwOK' /\ JobOK' /\ LocksOK'
  <2>1. ServerOK' BY <1>1 DEF Inv, Types, ServerOK
  <2>2. ClientOK' BY <1>1, <1>5 DEF Inv, Types, ClientOK
  <2>3. GwOK' /\ gw'.pc = "keep" BY <1>1 DEF GwOK
  <2>4. JobOK' /\ LocksOK' /\ SpentOK' BY <1>1, <2>3 DEF Inv, Types, JobOK, LocksOK, SpentOK
  <2>. QED BY <2>1, <2>2, <2>3, <2>4
<1>. QED BY <1>8, <1>9, <1>10, <1>11 DEF Inv, Types

\* A put of what is to be put: every message is written or waits as before.
LEMMA PutWrites ==
    ASSUME Inv, NEW id \in Ids, Pending(id), Put(id), held' = held,
           \A i \in Ids \ {id} : Pending(i) <=> Pending(i)', Pending(id)' => Pending(id)
    PROVE  DiskOK' /\ CutIsHalf' /\ Stamped' /\ PendingSays' /\ WrittenOrPending'
           /\ known' \in [Ids -> Texts \union {Unknown, Marked}] /\ refused' \subseteq Ids
<1>1. PICK t \in Texts : t = held[id].text BY DEF Inv, PendingSays
<1>2. /\ DiskOK' /\ CutIsHalf' /\ Stamped'
      /\ known' \in [Ids -> Texts \union {Unknown, Marked}] /\ refused' \subseteq Ids
      /\ \A i, u : HasLine(i, u) => HasLine(i, u)'
      /\ \A i \in Ids \ {id} : i \notin refused' => i \notin refused
      /\ id \notin refused' => HasLine(id, t)'
  BY <1>1, PutKeeps DEF Inv
<1>3. PendingSays' BY DEF Inv, PendingSays
<1>4. ASSUME NEW i \in Ids \ refused', held'[i] # NotHeld PROVE Written(i)' \/ Pending(i)'
  <2>1. CASE i = id BY <1>1, <1>2, <1>4, <2>1 DEF Written
  <2>2. CASE i # id
    <3>1. i \notin refused /\ held[i] # NotHeld BY <1>2, <1>4, <2>2
    <3>2. Written(i) \/ Pending(i) BY <3>1 DEF Inv, WrittenOrPending
    <3>. QED BY <1>2, <2>2, <3>2 DEF Written
  <2>. QED BY <2>1, <2>2
<1>5. WrittenOrPending' BY <1>4 DEF WrittenOrPending
<1>. QED BY <1>2, <1>3, <1>5

\* The gateway thread puts what it folded.
LEMMA GwKeepKeeps == ASSUME Inv, GwKeep PROVE Inv'
<1>1. PICK id : id = gw.id OBVIOUS
<1>2. /\ gw.pc = "keep" /\ Put(id) /\ gw' = NoDispatch
      /\ UNCHANGED <<server, held, loaded, job, guard, lock, reading, spent>>
  BY <1>1 DEF GwKeep
<1>3. id \in Ids BY <1>1, <1>2 DEF Inv, Types, GwOK, NoDispatch
<1>4. gw'.pc = "idle" BY <1>2 DEF NoDispatch
<1>5. /\ \A i \in Ids \ {id} : Pending(i) <=> Pending(i)'
      /\ Pending(id) /\ (Pending(id)' => Pending(id))
  BY <1>1, <1>2, <1>4 DEF Pending
<1>6. /\ DiskOK' /\ CutIsHalf' /\ Stamped' /\ PendingSays' /\ WrittenOrPending'
      /\ known' \in [Ids -> Texts \union {Unknown, Marked}] /\ refused' \subseteq Ids
  BY <1>2, <1>3, <1>5, PutWrites
<1>7. ServerOK' /\ ClientOK' /\ SpentOK' /\ GwOK' /\ JobOK' /\ LocksOK'
  BY <1>2, <1>4, <1>6
  DEF Inv, Types, ServerOK, ClientOK, SpentOK, GwOK, JobOK, LocksOK, server
<1>. QED BY <1>6, <1>7 DEF Inv, Types

\* The copy that is going to be marked.
LEMMA GwCopyKeeps == ASSUME Inv, GwCopy PROVE Inv'
<1>0. PICK id : id = Head(wire).id OBVIOUS
<1>. DEFINE t == IF held[id] = NotHeld THEN Bare ELSE held[id].text
<1>1. /\ id \in Ids /\ wire' = Tail(wire) /\ wire' \in Seq(Dispatches) /\ gw.pc = "idle"
      /\ gw' = [pc |-> "mark", id |-> id, text |-> t]
      /\ UNCHANGED <<said, gone, disk, held, known, loaded, job, guard, lock, reading, refused,
                     spent>>
  BY <1>0, FirstOnTheWire DEF GwCopy
<1>2. held[id] \in Copies BY <1>1 DEF Inv, Types, ClientOK
<1>3. t \in Texts \union {Bare} BY <1>2, CopyIs
<1>. HIDE DEF t
<1>4. gw'.pc = "mark" /\ GwOK' BY <1>1, <1>3 DEF GwOK
<1>5. \A i \in Ids : Pending(i)' <=> Pending(i) BY <1>1, <1>4 DEF Pending
<1>6. DiskOK' /\ CutIsHalf' /\ Stamped' /\ PendingSays' /\ WrittenOrPending'
  BY <1>1, <1>5, RestStays
<1>7. ServerOK' /\ ClientOK' /\ SpentOK' /\ JobOK' /\ LocksOK'
  BY <1>1, <1>4 DEF Inv, Types, ServerOK, ClientOK, SpentOK, JobOK, LocksOK
<1>. QED BY <1>4, <1>6, <1>7 DEF Inv, Types

\* The two locks of mark_deleted.
LEMMA GwLocksKeep == ASSUME Inv, GwLock \/ GwCompose PROVE Inv'
<1>1. /\ UNCHANGED <<server, disk, held, known, loaded, job, guard, reading, refused, spent>>
      /\ \/ gw.pc = "mark" /\ lock' = "gw" /\ gw' = [gw EXCEPT !.pc = "locked"]
         \/ gw.pc = "locked" /\ lock' = lock /\ gw' = [gw EXCEPT !.pc = "append"]
  BY DEF GwLock, GwCompose
<1>2. gw \in [pc : {"mark", "locked", "append", "flag"}, id : Ids, text : Texts \union {Bare}]
  BY <1>1 DEF Inv, Types, GwOK, NoDispatch
<1>3. gw'.pc \in {"locked", "append"} /\ GwOK' BY <1>1, <1>2 DEF GwOK
<1>4. \A i \in Ids : Pending(i)' <=> Pending(i) BY <1>1, <1>3 DEF Pending
<1>5. DiskOK' /\ CutIsHalf' /\ Stamped' /\ PendingSays' /\ WrittenOrPending'
  BY <1>1, <1>4, RestStays
<1>6. ServerOK' /\ ClientOK' /\ SpentOK' /\ JobOK'
  BY <1>1 DEF Inv, Types, ServerOK, ClientOK, SpentOK, JobOK, server
<1>7. LocksOK' BY <1>1, <1>3 DEF Inv, Types, LocksOK
<1>. QED BY <1>3, <1>5, <1>6, <1>7 DEF Inv, Types

\* The mark is the last line of its message, and its stamp is no text's.
LEMMA GwMarkKeeps == ASSUME Inv, GwMark PROVE Inv'
<1>0. PICK id, t : id = gw.id /\ t = gw.text OBVIOUS
<1>. DEFINE yes == TRUE
<1>1. /\ gw.pc = "append" /\ AppendLine(Line(id, t, yes))
      /\ known' = StampMarked(id) /\ lock' = Free /\ gw' = [gw EXCEPT !.pc = "flag"]
      /\ UNCHANGED <<server, held, loaded, job, guard, reading, refused, spent>>
  BY <1>0 DEF GwMark
<1>2. yes \in BOOLEAN OBVIOUS
<1>. HIDE DEF yes
<1>3. gw \in [pc : {"mark", "locked", "append", "flag"}, id : Ids, text : Texts \union {Bare}]
  BY <1>1 DEF Inv, Types, GwOK, NoDispatch
<1>4. id \in Ids /\ t \in Texts \union {Bare} /\ gw'.pc = "flag" /\ GwOK'
  BY <1>0, <1>1, <1>3 DEF GwOK
<1>5. /\ DiskOK' /\ CutIsHalf'
      /\ reading => file' = file
      /\ ~reading => \E l \in Lines :
            /\ file' = Append(file, l) /\ l.id = id /\ l.text = t
            /\ l.whole \/ (Len(file) > 0 /\ ~file[Len(file)].whole)
  BY <1>1, <1>2, <1>4, AppendAdds DEF Inv, Types, ClientOK
<1>6. known' = [known EXCEPT ![id] = IF @ = Unknown THEN Unknown ELSE Marked]
  BY <1>1 DEF StampMarked
<1>7. /\ known' \in [Ids -> Texts \union {Unknown, Marked}]
      /\ known'[id] \notin Texts /\ \A i \in Ids \ {id} : known'[i] = known[i]
  BY <1>4, <1>6, LogAssumption DEF Inv, Types, ClientOK, LogAssumption, Unknown, Marked
<1>8. file \in Seq(Lines) BY DEF Inv, Types, DiskOK
<1>9. \A i, u : HasLine(i, u) => HasLine(i, u)'
  <2>1. CASE reading BY <1>5, <2>1 DEF HasLine, LinesOf
  <2>2. CASE ~reading BY <1>5, <1>8, <2>2, LinesStay
  <2>. QED BY <2>1, <2>2
<1>10. \A i, u : i # id /\ Ends(i, u) => Ends(i, u)'
  <2>1. CASE reading BY <1>5, <2>1 DEF Ends, LinesOf
  <2>2. CASE ~reading BY <1>5, <1>8, <2>2, EndsStays
  <2>. QED BY <2>1, <2>2
<1>11. Stamped' BY <1>1, <1>7, <1>10 DEF Inv, Stamped
<1>12. \A i \in Ids : Pending(i)' <=> Pending(i) BY <1>1, <1>4 DEF Pending
<1>13. PendingSays' BY <1>1, <1>12 DEF Inv, PendingSays
<1>14. WrittenOrPending' BY <1>1, <1>9, <1>12 DEF Inv, WrittenOrPending, Written
<1>15. ServerOK' /\ SpentOK' /\ JobOK' BY <1>1 DEF Inv, Types, ServerOK, SpentOK, JobOK, server
<1>16. ClientOK' BY <1>1, <1>7 DEF Inv, Types, ClientOK
<1>17. LocksOK' BY <1>1, <1>4 DEF Inv, Types, LocksOK, Free
<1>. QED BY <1>4, <1>5, <1>11, <1>13, <1>14, <1>15, <1>16, <1>17 DEF Inv, Types

\* The copy gets its flag.
LEMMA GwFlagKeeps == ASSUME Inv, GwFlag PROVE Inv'
<1>0. PICK id : id = gw.id OBVIOUS
<1>1. /\ gw.pc = "flag" /\ gw' = NoDispatch
      /\ held' = [held EXCEPT ![id] = IF @ = NotHeld THEN NotHeld ELSE [@ EXCEPT !.deleted = TRUE]]
      /\ UNCHANGED <<server, disk, known, loaded, job, guard, lock, reading, refused, spent>>
  BY <1>0 DEF GwFlag
<1>2. id \in Ids BY <1>0, <1>1 DEF Inv, Types, GwOK, NoDispatch
<1>3. held \in [Ids -> Copies] BY DEF Inv, Types, ClientOK
<1>. DEFINE m == IF held[id] = NotHeld THEN NotHeld ELSE [held[id] EXCEPT !.deleted = TRUE]
<1>4. m \in Copies /\ m.text = held[id].text /\ (m = NotHeld <=> held[id] = NotHeld)
  <2>1. held[id] \in Copies BY <1>2, <1>3
  <2>2. CASE held[id] = NotHeld BY <2>1, <2>2
  <2>3. CASE held[id] # NotHeld
    <3>1. held[id] \in [text : Texts \union {Bare}, deleted : BOOLEAN] BY <2>1, <2>3 DEF Copies
    <3>2. m = [held[id] EXCEPT !.deleted = TRUE] BY <2>3
    <3>3. m \in [text : Texts \union {Bare}, deleted : BOOLEAN] /\ m.text = held[id].text
      BY <3>1, <3>2
    <3>4. m \in Copies BY <3>3 DEF Copies
    <3>. QED BY <2>1, <2>3, <3>3, <3>4, CopyIs
  <2>. QED BY <2>2, <2>3
<1>5. held' = [held EXCEPT ![id] = m] BY <1>1, <1>2, <1>3
<1>. HIDE DEF m
<1>6. held' \in [Ids -> Copies]
      /\ \A i \in Ids : held'[i].text = held[i].text /\ (held'[i] = NotHeld <=> held[i] = NotHeld)
  BY <1>2, <1>3, <1>4, <1>5
<1>7. gw'.pc = "idle" BY <1>1 DEF NoDispatch
<1>8. \A i \in Ids : Pending(i)' <=> Pending(i) BY <1>1, <1>7 DEF Pending
<1>9. /\ DiskOK' /\ CutIsHalf' /\ Stamped'
      /\ \A i, u : HasLine(i, u)' <=> HasLine(i, u)
  BY <1>1, LogStays
<1>10. PendingSays' BY <1>6, <1>8 DEF Inv, PendingSays
<1>11. \A i \in Ids : Written(i)' <=> Written(i) BY <1>6, <1>9 DEF Written
<1>12. WrittenOrPending' BY <1>1, <1>6, <1>8, <1>11 DEF Inv, WrittenOrPending
<1>13. ServerOK' /\ ClientOK' /\ SpentOK' /\ GwOK' /\ JobOK' /\ LocksOK'
  BY <1>1, <1>6, <1>7
  DEF Inv, Types, ServerOK, ClientOK, SpentOK, GwOK, JobOK, LocksOK, server
<1>. QED BY <1>9, <1>10, <1>12, <1>13 DEF Inv, Types

\* A page is fetched.
LEMMA JobAnsweredKeeps == ASSUME Inv, JobAnswered PROVE Inv'
<1>. DEFINE page == [id \in {i \in Ids \ gone : said[i] # 0} |-> said[id]]
<1>1. /\ job.pc = "idle" /\ job' = [pc |-> "fold", page |-> page]
      /\ spent' = [spent EXCEPT !.pages = @ + 1]
      /\ UNCHANGED <<server, disk, held, known, loaded, gw, guard, lock, reading, refused>>
  BY DEF JobAnswered
<1>2. DOMAIN page \subseteq Ids /\ \A id \in DOMAIN page : page[id] \in Texts
  BY DEF Inv, Types, ServerOK
<1>. HIDE DEF page
<1>3. job'.pc = "fold" /\ JobOK' BY <1>1, <1>2 DEF JobOK
<1>4. \A i \in Ids : Pending(i)' <=> Pending(i) BY <1>1, <1>3 DEF Pending
<1>5. DiskOK' /\ CutIsHalf' /\ Stamped' /\ PendingSays' /\ WrittenOrPending'
  BY <1>1, <1>4, RestStays
<1>6. SpentOK' BY <1>1 DEF Inv, Types, SpentOK
<1>7. ServerOK' /\ ClientOK' /\ GwOK' /\ LocksOK'
  BY <1>1, <1>3 DEF Inv, Types, ServerOK, ClientOK, GwOK, LocksOK, server
<1>. QED BY <1>3, <1>5, <1>6, <1>7 DEF Inv, Types

\* The page is folded into the store, and each message of it is going to be put.
LEMMA JobFoldKeeps == ASSUME Inv, JobFold PROVE Inv'
<1>0. PICK page : page = job.page OBVIOUS
<1>1. /\ job.pc = "fold" /\ job' = [pc |-> "keep", left |-> DOMAIN page]
      /\ held' = [id \in Ids |-> IF id \in DOMAIN page THEN Upserted(held[id], page[id])
                                 ELSE held[id]]
      /\ UNCHANGED <<server, disk, known, loaded, gw, guard, lock, reading, refused, spent>>
  BY <1>0 DEF JobFold
<1>2. DOMAIN page \subseteq Ids /\ \A id \in DOMAIN page : page[id] \in Texts
  BY <1>0, <1>1 DEF Inv, Types, JobOK
<1>3. held \in [Ids -> Copies] BY DEF Inv, Types, ClientOK
<1>4. /\ \A id \in DOMAIN page : held'[id] \in Copies /\ held'[id].text \in Texts
      /\ \A id \in Ids \ DOMAIN page : held'[id] = held[id]
  <2>1. \A id \in DOMAIN page : held'[id] = Upserted(held[id], page[id]) BY <1>1, <1>2
  <2>2. \A id \in DOMAIN page : /\ Upserted(held[id], page[id]) \in Copies
                                /\ Upserted(held[id], page[id]).text = page[id]
    BY <1>2, <1>3, UpsertedSays
  <2>3. \A id \in Ids \ DOMAIN page : held'[id] = held[id] BY <1>1
  <2>. QED BY <1>2, <2>1, <2>2, <2>3
<1>5. held' \in [Ids -> Copies]
  <2>1. \A id \in Ids : held'[id] \in Copies BY <1>3, <1>4
  <2>2. held' = [id \in Ids |-> held'[id]] BY <1>1
  <2>. QED BY <2>1, <2>2
<1>6. job'.pc = "keep" /\ job'.left = DOMAIN page BY <1>1
<1>7. /\ \A id \in Ids \ DOMAIN page : Pending(id)' <=> Pending(id)
      /\ \A id \in DOMAIN page : Pending(id)'
  BY <1>1, <1>6 DEF Pending
<1>8. /\ DiskOK' /\ CutIsHalf' /\ Stamped'
      /\ \A i, u : HasLine(i, u)' <=> HasLine(i, u)
  BY <1>1, LogStays
<1>9. PendingSays' BY <1>4, <1>7 DEF Inv, PendingSays
<1>10. WrittenOrPending'
  <2>1. SUFFICES ASSUME NEW id \in Ids \ refused, held'[id] # NotHeld, id \notin DOMAIN page
                 PROVE  Written(id)' \/ Pending(id)'
    BY <1>1, <1>7 DEF WrittenOrPending
  <2>2. held[id] # NotHeld /\ held'[id] = held[id] BY <1>4, <2>1
  <2>3. Written(id) \/ Pending(id) BY <2>2 DEF Inv, WrittenOrPending
  <2>. QED BY <1>7, <1>8, <2>1, <2>2, <2>3 DEF Written
<1>11. JobOK' BY <1>1, <1>2 DEF JobOK
<1>12. ServerOK' /\ ClientOK' /\ SpentOK' /\ GwOK' /\ LocksOK'
  BY <1>1, <1>5, <1>6 DEF Inv, Types, ServerOK, ClientOK, SpentOK, GwOK, LocksOK, server
<1>. QED BY <1>8, <1>9, <1>10, <1>11, <1>12 DEF Inv, Types

\* The next message of the page is chosen, or none is left.
LEMMA JobGuardKeeps == ASSUME Inv, JobGuard PROVE Inv'
<1>0. PICK left : left = job.left OBVIOUS
<1>1. /\ job.pc = "keep" /\ guard = Free
      /\ UNCHANGED <<server, disk, held, known, loaded, gw, lock, reading, refused, spent>>
      /\ \/ left = {} /\ job' = NoJob /\ guard' = guard
         \/ \E id \in left : /\ job' = [pc |-> "put", id |-> id, left |-> left \ {id}]
                             /\ guard' = "job"
  BY <1>0 DEF JobGuard
<1>2. left \subseteq Ids BY <1>0, <1>1 DEF Inv, Types, JobOK
<1>3. JobOK' /\ (guard' = "job" <=> job'.pc = "put") /\ guard' \in {Free, "job"}
      /\ \A i \in Ids : Pending(i)' <=> Pending(i)
  <2>1. CASE left = {} /\ job' = NoJob /\ guard' = guard
    <3>1. job'.pc = "idle" BY <2>1 DEF NoJob
    <3>2. JobOK' /\ (guard' = "job" <=> job'.pc = "put") /\ guard' \in {Free, "job"}
      BY <1>1, <2>1, <3>1 DEF JobOK, Free
    <3>. QED BY <1>0, <1>1, <2>1, <3>1, <3>2 DEF Pending
  <2>2. ASSUME NEW id \in left, job' = [pc |-> "put", id |-> id, left |-> left \ {id}],
               guard' = "job"
        PROVE  JobOK' /\ (guard' = "job" <=> job'.pc = "put") /\ guard' \in {Free, "job"}
               /\ \A i \in Ids : Pending(i)' <=> Pending(i)
    <3>1. job'.pc = "put" /\ job'.id = id /\ job'.left = left \ {id} BY <2>2
    <3>2. JobOK' BY <1>2, <2>2, <3>1 DEF JobOK
    <3>3. \A i \in Ids : Pending(i)' <=> Pending(i) BY <1>0, <1>1, <2>2, <3>1 DEF Pending
    <3>. QED BY <2>2, <3>1, <3>2, <3>3
  <2>. QED BY <1>1, <2>1, <2>2
<1>4. DiskOK' /\ CutIsHalf' /\ Stamped' /\ PendingSays' /\ WrittenOrPending'
  BY <1>1, <1>3, RestStays
<1>5. ServerOK' /\ ClientOK' /\ SpentOK' /\ GwOK' /\ LocksOK'
  BY <1>1, <1>3 DEF Inv, Types, ServerOK, ClientOK, SpentOK, GwOK, LocksOK, server
<1>. QED BY <1>3, <1>4, <1>5 DEF Inv, Types

\* The job puts the message it chose.
LEMMA JobPutKeeps == ASSUME Inv, JobPut PROVE Inv'
<1>1. PICK id : id = job.id OBVIOUS
<1>2. /\ job.pc = "put" /\ Put(id) /\ guard' = Free /\ job' = [pc |-> "keep", left |-> job.left]
      /\ UNCHANGED <<server, held, loaded, gw, lock, reading, spent>>
  BY <1>1 DEF JobPut
<1>3. id \in Ids /\ job.left \subseteq Ids BY <1>1, <1>2 DEF Inv, Types, JobOK
<1>4. job'.pc = "keep" /\ job'.left = job.left /\ JobOK' BY <1>2, <1>3 DEF JobOK
<1>5. /\ \A i \in Ids \ {id} : Pending(i) <=> Pending(i)'
      /\ Pending(id) /\ (Pending(id)' => Pending(id))
  BY <1>1, <1>2, <1>4 DEF Pending
<1>6. /\ DiskOK' /\ CutIsHalf' /\ Stamped' /\ PendingSays' /\ WrittenOrPending'
      /\ known' \in [Ids -> Texts \union {Unknown, Marked}] /\ refused' \subseteq Ids
  BY <1>2, <1>3, <1>5, PutWrites
<1>7. ServerOK' /\ ClientOK' /\ SpentOK' /\ GwOK'
  BY <1>2, <1>6 DEF Inv, Types, ServerOK, ClientOK, SpentOK, GwOK, server
<1>8. LocksOK' BY <1>2, <1>4 DEF Inv, Types, LocksOK, Free
<1>. QED BY <1>4, <1>6, <1>7, <1>8 DEF Inv, Types

\* The channel is opened: what it then shows was held, or a line says it.
LEMMA OpenKeeps == ASSUME Inv, Open PROVE Inv'
<1>1. /\ loaded' = TRUE
      /\ held' = held \/ held' = Loaded
      /\ UNCHANGED <<server, disk, known, gw, job, guard, lock, reading, refused, spent>>
  BY DEF Open
<1>2. held \in [Ids -> Copies] BY DEF Inv, Types, ClientOK
<1>3. /\ held' \in [Ids -> Copies]
      /\ \A id \in Ids :
           /\ held'[id].text = held[id].text \/ \E i \in Readable(id) : file[i].text = held'[id].text
           /\ held[id].text \in Texts => held'[id].text \in Texts
  <2>1. CASE held' = held BY <1>2, <2>1
  <2>2. CASE held' = Loaded
    <3>1. Loaded \in [Ids -> Copies] /\ \A id \in Ids : Gives(Loaded, id)
      BY LoadedGives DEF Inv
    <3>. HIDE DEF Loaded
    <3>. QED BY <2>2, <3>1 DEF Gives
  <2>. QED BY <1>1, <2>1, <2>2
<1>4. \A i \in Ids : Pending(i)' <=> Pending(i) BY <1>1 DEF Pending
<1>5. /\ DiskOK' /\ CutIsHalf' /\ Stamped'
      /\ \A i, u : HasLine(i, u)' <=> HasLine(i, u)
  BY <1>1, LogStays
<1>6. PendingSays' BY <1>3, <1>4 DEF Inv, PendingSays
<1>7. ASSUME NEW id \in Ids \ refused, held'[id] # NotHeld PROVE Written(id)' \/ Pending(id)'
  <2>1. PICK t : t = held'[id].text OBVIOUS
  <2>2. CASE t = held[id].text
    <3>1. held[id] # NotHeld BY <1>2, <1>3, <1>7, <2>1, <2>2, CopyIs
    <3>2. Written(id) \/ Pending(id) BY <3>1 DEF Inv, WrittenOrPending
    <3>. QED BY <1>4, <1>5, <2>1, <2>2, <3>2 DEF Written
  <2>3. CASE \E i \in Readable(id) : file[i].text = t
    <3>1. HasLine(id, t) BY <2>3 DEF HasLine, LinesOf, Readable
    <3>. QED BY <1>5, <2>1, <3>1 DEF Written
  <2>. QED BY <1>3, <2>1, <2>2, <2>3
<1>8. WrittenOrPending' BY <1>1, <1>7 DEF WrittenOrPending
<1>9. ServerOK' /\ SpentOK' /\ GwOK' /\ JobOK' /\ LocksOK'
  BY <1>1 DEF Inv, Types, ServerOK, SpentOK, GwOK, JobOK, LocksOK, server
<1>10. loaded' \in BOOLEAN BY <1>1
<1>11. ClientOK' BY <1>1, <1>3, <1>10 DEF Inv, Types, ClientOK
<1>. QED BY <1>5, <1>6, <1>8, <1>9, <1>11 DEF Inv, Types

\* A search opens the file, and closes it.
LEMMA SearchKeeps == ASSUME Inv, SearchOpens \/ SearchCloses PROVE Inv'
<1>1. /\ UNCHANGED <<server, disk, held, known, loaded, gw, job, guard, lock, refused>>
      /\ reading' \in BOOLEAN
      /\ spent' = [spent EXCEPT !.searches = @ + 1] \/ spent' = spent
  BY DEF SearchOpens, SearchCloses
<1>2. \A i \in Ids : Pending(i)' <=> Pending(i) BY <1>1 DEF Pending
<1>3. DiskOK' /\ CutIsHalf' /\ Stamped' /\ PendingSays' /\ WrittenOrPending'
  BY <1>1, <1>2, RestStays
<1>4. SpentOK' BY <1>1 DEF Inv, Types, SpentOK
<1>5. ServerOK' /\ ClientOK' /\ GwOK' /\ JobOK' /\ LocksOK'
  BY <1>1 DEF Inv, Types, ServerOK, ClientOK, GwOK, JobOK, LocksOK, server
<1>. QED BY <1>3, <1>4, <1>5 DEF Inv, Types

\* The process ends, perhaps with half a line on the disk.
LEMMA DieKeeps == ASSUME Inv, Die PROVE Inv'
<1>1. /\ spent' = [spent EXCEPT !.deaths = @ + 1] /\ wire' = <<>>
      /\ held' = [id \in Ids |-> NotHeld] /\ known' = [id \in Ids |-> Unknown]
      /\ loaded' = FALSE /\ gw' = NoDispatch /\ job' = NoJob
      /\ guard' = Free /\ lock' = Free /\ reading' = FALSE /\ refused' = {}
      /\ said' = said /\ gone' = gone
  BY DEF Die
<1>2. /\ gw.pc = "append" => gw.id \in Ids /\ gw.text \in Texts \union {Bare}
      /\ job.pc = "put" => job.id \in Ids /\ held[job.id].text \in Texts
  <2>1. gw.pc = "append" => gw.id \in Ids /\ gw.text \in Texts \union {Bare}
    BY DEF Inv, Types, GwOK, NoDispatch
  <2>2. job.pc = "put" => job.id \in Ids BY DEF Inv, Types, JobOK
  <2>3. job.pc = "put" => Pending(job.id) BY DEF Pending
  <2>. QED BY <2>1, <2>2, <2>3 DEF Inv, PendingSays
<1>3. \/ UNCHANGED disk
      \/ \E id \in Ids, t \in Texts \union {Bare}, d \in BOOLEAN : Half(Line(id, t, d))
  <2>1. CASE UNCHANGED disk BY <2>1
  <2>2. CASE gw.pc = "append" /\ Half(Line(gw.id, gw.text, TRUE)) BY <1>2, <2>2
  <2>3. CASE job.pc = "put" /\ Half(Line(job.id, held[job.id].text, FALSE)) BY <1>2, <2>3
  <2>. QED BY <2>1, <2>2, <2>3 DEF Die
<1>4. DiskOK' /\ CutIsHalf'
  <2>1. CASE UNCHANGED disk BY <2>1 DEF Inv, Types, DiskOK, CutIsHalf, disk
  <2>2. ASSUME NEW id \in Ids, NEW t \in Texts \union {Bare}, NEW d \in BOOLEAN,
               Half(Line(id, t, d))
        PROVE  DiskOK' /\ CutIsHalf'
    <3>0. PICK base : base = Line(id, t, d) OBVIOUS
    <3>. DEFINE l == [base EXCEPT !.whole = FALSE]
    <3>1. file' = Append(file, l) /\ cut' = TRUE BY <2>2, <3>0 DEF Half
    <3>2. base \in Lines BY <3>0 DEF Line, Lines
    <3>3. l \in Lines /\ ~l.whole BY <3>2 DEF Lines
    <3>. HIDE DEF l
    <3>4. file \in Seq(Lines) BY DEF Inv, Types, DiskOK
    <3>5. file' \in Seq(Lines) /\ Len(file') > 0 /\ file'[Len(file')] = l BY <3>1, <3>3, <3>4
    <3>6. cut' \in BOOLEAN BY <3>1
    <3>. QED BY <3>3, <3>5, <3>6 DEF DiskOK, CutIsHalf
  <2>. QED BY <1>3, <2>1, <2>2
<1>5. gw'.pc = "idle" /\ job'.pc = "idle" BY <1>1 DEF NoDispatch, NoJob
<1>6. \A id : ~Pending(id)' BY <1>5 DEF Pending
<1>7. \A id \in Ids : held'[id] = NotHeld /\ known'[id] = Unknown BY <1>1
<1>8. Unknown \notin Texts BY LogAssumption DEF LogAssumption, Unknown
<1>9. PendingSays' /\ Stamped' /\ WrittenOrPending'
  BY <1>6, <1>7, <1>8 DEF PendingSays, Stamped, WrittenOrPending
<1>10. ServerOK'
  <2>1. wire' \in Seq(Dispatches) BY <1>1
  <2>. QED BY <1>1, <2>1 DEF Inv, Types, ServerOK
<1>11. ClientOK'
  <2>1. held' \in [Ids -> Copies] /\ known' \in [Ids -> Texts \union {Unknown, Marked}]
    BY <1>1 DEF Copies
  <2>2. loaded' \in BOOLEAN /\ reading' \in BOOLEAN /\ refused' \subseteq Ids BY <1>1
  <2>. QED BY <2>1, <2>2 DEF ClientOK
<1>12. SpentOK' BY <1>1 DEF Inv, Types, SpentOK
<1>13. GwOK' /\ JobOK' /\ LocksOK' BY <1>1, <1>5 DEF GwOK, JobOK, LocksOK, Free
<1>. QED BY <1>4, <1>9, <1>10, <1>11, <1>12, <1>13 DEF Inv, Types

-----------------------------------------------------------------------------
(* Every behaviour.                                                           *)

\* Every step keeps the invariant.
LEMMA NextKeeps == ASSUME Inv, [Next]_vars PROVE Inv'
<1>1. ASSUME NEW id \in Ids, TakeBack(id) \/ \E t \in Texts : Write(id, t) PROVE Inv'
  BY <1>1, ServerKeeps
<1>2. CASE Gateway
  BY <1>2, GwFoldKeeps, GwKeepKeeps, GwCopyKeeps, GwLocksKeep, GwMarkKeeps, GwFlagKeeps
  DEF Gateway
<1>3. CASE JobAnswered \/ Job
  BY <1>3, JobAnsweredKeeps, JobFoldKeeps, JobGuardKeeps, JobPutKeeps DEF Job
<1>4. CASE Open \/ SearchOpens \/ SearchCloses \/ Die
  BY <1>4, OpenKeeps, SearchKeeps, DieKeeps
<1>5. CASE UNCHANGED vars
  <2>1. UNCHANGED <<server, disk, held, known, loaded, gw, job, guard, lock, reading, refused,
                    spent>>
    BY <1>5 DEF vars
  <2>2. \A i \in Ids : Pending(i)' <=> Pending(i) BY <2>1 DEF Pending
  <2>3. DiskOK' /\ CutIsHalf' /\ Stamped' /\ PendingSays' /\ WrittenOrPending'
    BY <2>1, <2>2, RestStays
  <2>4. ServerOK' /\ ClientOK' /\ SpentOK' /\ GwOK' /\ JobOK' /\ LocksOK'
    BY <2>1 DEF Inv, Types, ServerOK, ClientOK, SpentOK, GwOK, JobOK, LocksOK, server
  <2>. QED BY <2>3, <2>4 DEF Inv, Types
<1>. QED BY <1>1, <1>2, <1>3, <1>4, <1>5 DEF Next

\* The invariant holds at the start.
LEMMA InitHolds == ASSUME Init PROVE Inv
<1>1. gw.pc = "idle" /\ job.pc = "idle" /\ guard = Free /\ lock = Free
  BY DEF Init, NoDispatch, NoJob
<1>2. \A id : ~Pending(id) BY <1>1 DEF Pending
<1>3. Unknown \notin Texts BY LogAssumption DEF LogAssumption, Unknown
<1>4. PendingSays /\ Stamped /\ WrittenOrPending
  BY <1>2, <1>3 DEF Init, PendingSays, Stamped, WrittenOrPending
<1>5. ServerOK
  <2>1. wire \in Seq(Dispatches) BY DEF Init
  <2>. QED BY <2>1 DEF Init, ServerOK
<1>6. DiskOK /\ CutIsHalf
  <2>1. file \in Seq(Lines) BY DEF Init
  <2>2. cut \in BOOLEAN /\ ~cut BY DEF Init
  <2>. QED BY <2>1, <2>2 DEF DiskOK, CutIsHalf
<1>7. ClientOK
  <2>1. held \in [Ids -> Copies] /\ known \in [Ids -> Texts \union {Unknown, Marked}]
    BY DEF Init, Copies
  <2>2. loaded \in BOOLEAN /\ reading \in BOOLEAN /\ refused \subseteq Ids BY DEF Init
  <2>. QED BY <2>1, <2>2 DEF ClientOK
<1>8. SpentOK BY DEF Init, SpentOK
<1>9. GwOK /\ JobOK /\ LocksOK BY <1>1 DEF Init, GwOK, JobOK, LocksOK, Free
<1>. QED BY <1>4, <1>5, <1>6, <1>7, <1>8, <1>9 DEF Inv, Types

\* The invariant holds in every state that is reached.
LEMMA InvHolds == Spec => []Inv
<1>. QED BY InitHolds, NextKeeps, PTL DEF Spec

\* Every variable has its type, and who holds a lock is where it is held.
THEOREM TypeCorrect == Spec => []TypeOK
<1>1. ASSUME Inv PROVE TypeOK
  <2>1. job.pc = "put" => held[job.id].text \in Texts
    <3>1. job.pc = "put" => Pending(job.id) /\ job.id \in Ids
      BY <1>1 DEF Pending, Inv, Types, JobOK
    <3>. QED BY <1>1, <3>1 DEF Inv, PendingSays
  <2>2. gw.pc \in {"idle", "keep", "mark", "locked", "append", "flag"}
    BY <1>1 DEF Inv, Types, GwOK, NoDispatch
  <2>3. (guard = "job") = (job.pc = "put") /\ (lock = "gw") = (gw.pc \in {"locked", "append"})
    BY <1>1 DEF Inv, Types, LocksOK
  <2>. QED
    BY <1>1, <2>1, <2>2, <2>3 DEF TypeOK, Inv, Types, ServerOK, DiskOK, ClientOK, JobOK, LocksOK
<1>. QED BY <1>1, InvHolds, PTL

\* What archive::put takes for written is the last line of its message and can be
\* read, unless it met an open file or follows half a line; and between two
\* handlers whatever the store shows of a message has a line that says it.
THEOREM KeepsUp == Spec => []LogKeepsUp
<1>1. ASSUME Inv PROVE LogKeepsUp
  <2>1. SUFFICES ASSUME NEW id \in Ids \ refused
                 PROVE  /\ known[id] \in Texts =>
                              /\ LinesOf(id) # {}
                              /\ LET i == LastLine(id)
                                 IN  /\ file[i].text = known[id] /\ ~file[i].deleted
                                     /\ file[i].whole \/ ~file[i - 1].whole
                        /\ (gw.pc = "idle" /\ job.pc = "idle" /\ held[id] # NotHeld) =>
                              \E i \in LinesOf(id) : file[i].text = held[id].text
    BY DEF LogKeepsUp
  <2>2. ASSUME known[id] \in Texts
        PROVE  /\ LinesOf(id) # {}
               /\ file[LastLine(id)].text = known[id] /\ ~file[LastLine(id)].deleted
               /\ file[LastLine(id)].whole \/ ~file[LastLine(id) - 1].whole
    <3>1. PICK i \in LinesOf(id) :
              /\ \A j \in LinesOf(id) : j <= i
              /\ file[i].text = known[id] /\ ~file[i].deleted
              /\ file[i].whole \/ (i > 1 /\ ~file[i - 1].whole)
      BY <1>1, <2>1, <2>2 DEF Inv, Stamped, Ends
    <3>2. \A j \in LinesOf(id) : j \in Int BY <1>1 DEF Inv, Types, DiskOK, LinesOf
    <3>3. LastLine(id) \in LinesOf(id) /\ \A j \in LinesOf(id) : j <= LastLine(id)
      BY <3>1 DEF LastLine
    <3>4. LastLine(id) = i BY <3>1, <3>2, <3>3
    <3>. QED BY <3>1, <3>4
  <2>3. ASSUME gw.pc = "idle", job.pc = "idle", held[id] # NotHeld
        PROVE  \E i \in LinesOf(id) : file[i].text = held[id].text
    <3>1. ~Pending(id) BY <2>3 DEF Pending
    <3>2. Written(id) BY <1>1, <2>1, <2>3, <3>1 DEF Inv, WrittenOrPending
    <3>. QED BY <3>2 DEF Written, HasLine
  <2>. QED BY <2>2, <2>3
<1>. QED BY <1>1, InvHolds, PTL

-----------------------------------------------------------------------------
(* A deletion stays one.                                                      *)

\* Only opening the channel sets archive_loaded; and while the process lives, what
\* happens to a copy is that it stays, is upserted, gets its flag or is read back.
LEMMA CopySteps ==
    ASSUME Inv, Next, NEW id \in Ids
    PROVE  \/ held'[id] = held[id] /\ loaded' = loaded
           \/ loaded' = loaded /\ \E t \in Texts : held'[id] = Upserted(held[id], t)
           \/ loaded' = loaded /\ held'[id] = [held[id] EXCEPT !.deleted = TRUE]
                /\ held[id] # NotHeld
           \/ Open
           \/ spent'.deaths # spent.deaths /\ ~loaded'
<1>0. held \in [Ids -> Copies] BY DEF Inv, Types, ClientOK
<1>1. ASSUME NEW i \in Ids, TakeBack(i) \/ \E t \in Texts : Write(i, t)
      PROVE  held'[id] = held[id] /\ loaded' = loaded
  BY <1>1 DEF TakeBack, Write
<1>2. CASE GwKeep \/ GwCopy \/ GwLock \/ GwCompose \/ GwMark \/ JobAnswered \/ JobGuard \/ JobPut
           \/ SearchOpens \/ SearchCloses
  BY <1>2 DEF GwKeep, GwCopy, GwLock, GwCompose, GwMark, JobAnswered, JobGuard, JobPut,
              SearchOpens, SearchCloses
<1>3. CASE GwFold
  <2>1. PICK d : d = Head(wire) OBVIOUS
  <2>2. /\ d.id \in Ids /\ d.text \in Texts /\ loaded' = loaded
        /\ held' = [held EXCEPT ![d.id] = Upserted(@, d.text)]
    BY <1>3, <2>1, FirstOnTheWire DEF GwFold
  <2>3. CASE id = d.id BY <1>0, <2>2, <2>3
  <2>4. CASE id # d.id BY <1>0, <2>2, <2>4
  <2>. QED BY <2>3, <2>4
<1>4. CASE GwFlag
  <2>1. PICK i : i = gw.id OBVIOUS
  <2>2. /\ loaded' = loaded
        /\ held' = [held EXCEPT ![i] = IF @ = NotHeld THEN NotHeld ELSE [@ EXCEPT !.deleted = TRUE]]
    BY <1>4, <2>1 DEF GwFlag
  <2>3. CASE id = i /\ held[id] # NotHeld BY <1>0, <2>2, <2>3
  <2>4. CASE id # i \/ held[id] = NotHeld BY <1>0, <2>2, <2>4
  <2>. QED BY <2>3, <2>4
<1>5. CASE JobFold
  <2>1. PICK page : page = job.page OBVIOUS
  <2>2. /\ held' = [i \in Ids |-> IF i \in DOMAIN page THEN Upserted(held[i], page[i])
                                  ELSE held[i]]
        /\ loaded' = loaded /\ \A i \in DOMAIN page : page[i] \in Texts
    BY <1>5, <2>1 DEF JobFold, Inv, Types, JobOK
  <2>3. CASE id \in DOMAIN page BY <2>2, <2>3
  <2>4. CASE id \notin DOMAIN page BY <2>2, <2>4
  <2>. QED BY <2>3, <2>4
<1>6. CASE Die
  <2>1. spent' = [spent EXCEPT !.deaths = @ + 1] /\ loaded' = FALSE BY <1>6 DEF Die
  <2>2. spent'.deaths # spent.deaths BY <2>1 DEF Inv, Types, SpentOK
  <2>. QED BY <2>1, <2>2
<1>7. CASE Open BY <1>7
<1>8. CASE Gateway BY <1>2, <1>3, <1>4, <1>8 DEF Gateway
<1>9. CASE Job BY <1>2, <1>5, <1>9 DEF Job
<1>. QED BY <1>1, <1>2, <1>6, <1>7, <1>8, <1>9 DEF Next

\* Nothing takes a deletion's flag away while the process lives, and opening the
\* channel gives it to whatever has a mark in the log that can be read.
THEOREM FlagStays == Spec => DeletionsStick
<1>. DEFINE Sticks(id) ==
         /\ spent'.deaths = spent.deaths /\ held[id].deleted => held'[id].deleted
         /\ Opening /\ (\E i \in Readable(id) : file[i].deleted) => held'[id].deleted
<1>1. ASSUME Inv, Next, NEW id \in Ids PROVE Sticks(id)
  <2>0. held[id] \in Copies BY <1>1 DEF Inv, Types, ClientOK
  <2>1. CASE held'[id] = held[id] /\ loaded' = loaded BY <2>1 DEF Opening
  <2>2. ASSUME loaded' = loaded, NEW t \in Texts, held'[id] = Upserted(held[id], t)
        PROVE  Sticks(id)
    <3>1. held'[id].deleted = held[id].deleted BY <2>0, <2>2, UpsertedSays
    <3>. QED BY <2>2, <3>1 DEF Opening
  <2>3. CASE /\ loaded' = loaded /\ held'[id] = [held[id] EXCEPT !.deleted = TRUE]
             /\ held[id] # NotHeld
    <3>1. held[id] \in [text : Texts \union {Bare}, deleted : BOOLEAN]
      BY <2>0, <2>3 DEF Copies
    <3>2. held'[id].deleted BY <2>3, <3>1
    <3>. QED BY <3>2
  <2>4. CASE Open
    <3>1. /\ held[id].deleted => Loaded[id].deleted
          /\ (\E i \in Readable(id) : file[i].deleted) => Loaded[id].deleted
      BY <1>1, LoadedGives DEF Inv, Gives
    <3>2. held' = IF gw.pc = "append" THEN held ELSE Loaded BY <2>4 DEF Open
    <3>. HIDE DEF Loaded
    <3>. QED BY <3>1, <3>2 DEF Opening
  <2>5. CASE spent'.deaths # spent.deaths /\ ~loaded' BY <2>5 DEF Opening
  <2>. HIDE DEF Sticks
  <2>. QED BY <1>1, <2>1, <2>2, <2>3, <2>4, <2>5, CopySteps
<1>2. ASSUME Inv, [Next]_vars PROVE [\A id \in Ids : Sticks(id)]_vars
  BY <1>1, <1>2
<1>. QED BY <1>2, InvHolds, PTL DEF Spec, DeletionsStick

=============================================================================
