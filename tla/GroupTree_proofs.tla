--------------------------- MODULE GroupTree_proofs ---------------------------
(***************************************************************************)
(* What holds of a group and the trees its members keep, for every number  *)
(* of people, every size of tree that is a power of two and every bound.   *)
(*                                                                         *)
(* The types and that a held key is the one the tree has hold of every     *)
(* behaviour. So do the others, which say what is so until a commit is     *)
(* made that not everybody can follow (spoilt). Their argument: between    *)
(* commits all members hold one tree (AtRest); a commit that is made is    *)
(* one that every other member reads and ends up on the author's tree by   *)
(* (GoingRound). That a path is read is the hard part: the reader's        *)
(* resolution of each level is the one the path was sealed to, because no  *)
(* node beside it is cut short, and the first entry it has a key for is    *)
(* one it is sealed to, because every parent above a member either is a    *)
(* key it holds or lists it (Knows) and no held key is stale (Current).    *)
(***************************************************************************)
EXTENDS GroupTree, FiniteSetTheorems, SequenceTheorems, WellFoundedInduction, TLAPS

-----------------------------------------------------------------------------
(* Counting and powers of two.                                              *)

\* What is so for none, and for one more wherever it is so, is so up to any number.
LEMMA CountingUp ==
    ASSUME NEW n \in Nat, NEW T, 0 \in T, \A k \in 0..(n - 1) : k \in T => k + 1 \in T
    PROVE  \A k \in 0..n : k \in T
<1>. DEFINE S == {k \in 0..n : k \notin T}
            R == OpToRel(<, Nat)
<1>1. SUFFICES ASSUME S # {} PROVE FALSE OBVIOUS
<1>2. R = {ss \in Nat \X Nat : ss[1] < ss[2]} BY Zenon DEF OpToRel
<1>3. IsWellFoundedOn(R, Nat) BY NatLessThanWellFounded
<1>4. S \in SUBSET Nat OBVIOUS
<1>. HIDE DEF R
<1>5. PICK m \in S : \A y \in S : ~(<<y, m>> \in R) BY <1>1, <1>3, <1>4, WFMin
<1>6. m \in 0..n /\ m \notin T /\ m # 0 BY <1>5
<1>7. m - 1 \in 0..(n - 1) /\ m - 1 \in 0..n /\ m - 1 < m /\ m - 1 + 1 = m BY <1>6
<1>8. m - 1 \notin S
  <2>1. <<m - 1, m>> \in R BY <1>2, <1>6, <1>7
  <2>. QED BY <1>5, <2>1
<1>9. m - 1 \in T BY <1>7, <1>8
<1>. QED BY <1>6, <1>7, <1>9

\* The same for every number there is.
LEMMA CountingOn ==
    ASSUME NEW T, 0 \in T, \A k \in Nat : k \in T => k + 1 \in T
    PROVE  \A k \in Nat : k \in T
<1>. TAKE k \in Nat
<1>1. \A j \in 0..k : j \in T BY CountingUp
<1>. QED BY <1>1

\* Doubling from one: there is such a function, and it is Pow2.
LEMMA Pow2Is ==
    Pow2[0] = 1 /\ \A k \in Nat : Pow2[k + 1] = 2 * Pow2[k]
<1>. DEFINE Is(f, m) == f = [k \in 0..m |-> IF k = 0 THEN 1 ELSE 2 * f[k - 1]]
            Obeys(f, m) == f[0] = 1 /\ \A k \in 1..m : f[k] = 2 * f[k - 1]
            T == {m \in Nat : \E f : Obeys(f, m)}
            upto(m) == CHOOSE f : Obeys(f, m)
            all == [m \in Nat |-> upto(m)[m]]
<1>1. 0 \in T
  <2>. DEFINE f == [k \in 0..0 |-> 1]
  <2>1. Obeys(f, 0) OBVIOUS
  <2>. QED BY <2>1
<1>2. ASSUME NEW m \in Nat, m \in T PROVE m + 1 \in T
  <2>1. PICK g : Obeys(g, m) BY <1>2
  <2>. DEFINE f == [k \in 0..(m + 1) |-> IF k = m + 1 THEN 2 * g[m] ELSE g[k]]
  <2>2. f[0] = 1 BY <2>1
  <2>3. ASSUME NEW k \in 1..(m + 1) PROVE f[k] = 2 * f[k - 1]
    <3>1. CASE k = m + 1 BY <3>1
    <3>2. CASE k # m + 1
      <4>1. k \in 1..m /\ k \in 0..(m + 1) /\ k - 1 \in 0..(m + 1) /\ k - 1 # m + 1 BY <3>2
      <4>2. f[k] = g[k] /\ f[k - 1] = g[k - 1] BY <3>2, <4>1
      <4>. QED BY <2>1, <4>1, <4>2
    <3>. QED BY <3>1, <3>2
  <2>. HIDE DEF f
  <2>4. Obeys(f, m + 1) BY <2>2, <2>3
  <2>. QED BY <2>4
<1>3. \A m \in Nat : Obeys(upto(m), m)
  <2>1. \A m \in Nat : m \in T
    <3>. HIDE DEF T
    <3>. QED BY <1>1, <1>2, CountingOn
  <2>2. \A m \in Nat : \E f : Obeys(f, m) BY <2>1
  <2>. HIDE DEF Obeys
  <2>. QED BY <2>2
<1>4. ASSUME NEW m \in Nat PROVE upto(m + 1)[m] = upto(m)[m]
  <2>. DEFINE g == upto(m)
              h == upto(m + 1)
              K == {k \in 0..m : g[k] = h[k]}
  <2>1. Obeys(g, m) /\ Obeys(h, m + 1) BY <1>3
  <2>. HIDE DEF g, h
  <2>2. 0 \in K BY <2>1
  <2>3. ASSUME NEW k \in 0..(m - 1), k \in K PROVE k + 1 \in K
    <3>1. k + 1 \in 1..m /\ k + 1 \in 1..(m + 1) /\ k + 1 - 1 = k /\ k + 1 \in 0..m OBVIOUS
    <3>2. g[k + 1] = 2 * g[k] /\ h[k + 1] = 2 * h[k] BY <2>1, <3>1
    <3>. QED BY <2>3, <3>1, <3>2
  <2>4. \A k \in 0..m : k \in K
    <3>. HIDE DEF K
    <3>. QED BY <2>2, <2>3, CountingUp
  <2>5. g[m] = h[m] BY <2>4
  <2>. QED BY <2>5 DEF g, h
<1>5. all = [k \in Nat |-> IF k = 0 THEN 1 ELSE 2 * all[k - 1]]
  <2>1. ASSUME NEW k \in Nat PROVE all[k] = IF k = 0 THEN 1 ELSE 2 * all[k - 1]
    <3>1. all[k] = upto(k)[k] /\ Obeys(upto(k), k) BY <1>3
    <3>2. CASE k = 0 BY <3>1, <3>2
    <3>3. CASE k # 0
      <4>1. k - 1 \in Nat /\ k \in 1..k /\ k - 1 + 1 = k BY <3>3
      <4>2. upto(k)[k] = 2 * upto(k)[k - 1]
        <5>. HIDE DEF upto
        <5>. QED BY <3>1, <4>1
      <4>3. upto(k)[k - 1] = upto(k - 1)[k - 1]
        <5>. HIDE DEF upto
        <5>. QED BY <1>4, <4>1
      <4>4. all[k - 1] = upto(k - 1)[k - 1] BY <4>1
      <4>. HIDE DEF upto, all
      <4>. QED BY <3>1, <3>3, <4>2, <4>3, <4>4
    <3>. QED BY <3>2, <3>3
  <2>2. all = [k \in Nat |-> all[k]] OBVIOUS
  <2>. HIDE DEF all
  <2>. QED BY <2>1, <2>2
<1>6. Pow2 = [k \in Nat |-> IF k = 0 THEN 1 ELSE 2 * Pow2[k - 1]]
  <2>. DEFINE Def(f) == f = [k \in Nat |-> IF k = 0 THEN 1 ELSE 2 * f[k - 1]]
  <2>1. Def(all) BY <1>5
  <2>2. Pow2 = CHOOSE f : Def(f) BY DEF Pow2
  <2>. HIDE DEF Def, all
  <2>3. Def(Pow2) BY <2>1, <2>2
  <2>. QED BY <2>3 DEF Def
<1>7. ASSUME NEW k \in Nat PROVE Pow2[k + 1] = 2 * Pow2[k]
  <2>1. k + 1 \in Nat /\ k + 1 # 0 /\ k + 1 - 1 = k OBVIOUS
  <2>. QED BY <1>6, <2>1
<1>8. Pow2[0] = 1 BY <1>6
<1>. QED BY <1>7, <1>8

\* A power is a number, and more than its exponent.
LEMMA Pow2Type == \A k \in Nat : Pow2[k] \in Nat /\ Pow2[k] > k
<1>. DEFINE T == {k \in Nat : Pow2[k] \in Nat /\ Pow2[k] > k}
<1>1. 0 \in T BY Pow2Is
<1>2. ASSUME NEW k \in Nat, k \in T PROVE k + 1 \in T
  <2>1. Pow2[k + 1] = 2 * Pow2[k] BY Pow2Is
  <2>. QED BY <1>2, <2>1
<1>3. \A k \in Nat : k \in T
  <2>. HIDE DEF T
  <2>. QED BY <1>1, <1>2, CountingOn
<1>. QED BY <1>3

\* A power divides every later one.
LEMMA Pow2Divides ==
    ASSUME NEW i \in Nat, NEW j \in Nat, i <= j
    PROVE  \E m \in Nat : m >= 1 /\ Pow2[j] = Pow2[i] * m
<1>. DEFINE T == {d \in Nat : \E m \in Nat : m >= 1 /\ Pow2[i + d] = Pow2[i] * m}
<1>0. Pow2[i] \in Nat BY Pow2Type
<1>1. 0 \in T
  <2>1. i + 0 = i /\ Pow2[i] = Pow2[i] * 1 BY <1>0
  <2>. QED BY <2>1
<1>2. ASSUME NEW d \in Nat, d \in T PROVE d + 1 \in T
  <2>1. PICK m \in Nat : m >= 1 /\ Pow2[i + d] = Pow2[i] * m BY <1>2
  <2>2. i + (d + 1) = (i + d) + 1 /\ i + d \in Nat OBVIOUS
  <2>3. Pow2[i + (d + 1)] = 2 * (Pow2[i] * m) BY <2>1, <2>2, Pow2Is
  <2>4. 2 * (Pow2[i] * m) = Pow2[i] * (2 * m) BY <1>0
  <2>5. 2 * m \in Nat /\ 2 * m >= 1 BY <2>1
  <2>. QED BY <2>3, <2>4, <2>5
<1>3. \A d \in Nat : d \in T
  <2>. HIDE DEF T
  <2>. QED BY <1>1, <1>2, CountingOn
<1>4. j - i \in Nat /\ i + (j - i) = j OBVIOUS
<1>5. j - i \in T BY <1>3, <1>4
<1>. QED BY <1>4, <1>5

\* And is less than it.
LEMMA Pow2Grows ==
    ASSUME NEW i \in Nat, NEW j \in Nat, i < j
    PROVE  Pow2[i] < Pow2[j] /\ 2 * Pow2[i] <= Pow2[j]
<1>1. i + 1 \in Nat /\ i + 1 <= j OBVIOUS
<1>2. PICK m \in Nat : m >= 1 /\ Pow2[j] = Pow2[i + 1] * m BY <1>1, Pow2Divides
<1>3. Pow2[i + 1] = 2 * Pow2[i] /\ Pow2[i] \in Nat /\ Pow2[i] >= 1 BY Pow2Is, Pow2Type
<1>4. Pow2[i + 1] * m >= Pow2[i + 1] BY <1>2, <1>3
<1>. QED BY <1>2, <1>3, <1>4

-----------------------------------------------------------------------------
(* The index arithmetic: a node by a leaf below it and its level.           *)

\* The parent at level k of everything a leaf is under, itself at level 0.
Ancestor(b, k) == (b \div Pow2[k]) * Pow2[k + 1] + Pow2[k] - 1

\* A quotient, by the interval it stands for.
LEMMA Quotient ==
    ASSUME NEW a \in Nat, NEW p \in Nat, p >= 1, NEW q \in Nat
    PROVE  a \div p = q <=> (p * q <= a /\ a < p * q + p)
<1>1. /\ a \div p \in Nat /\ a % p \in 0 .. p - 1
      /\ a = p * (a \div p) + (a % p)
  OBVIOUS
<1>. DEFINE r == a \div p
            s == a % p
<1>2. r \in Nat /\ s \in Nat /\ s < p /\ a = p * r + s BY <1>1
<1>3. r = q => (p * q <= a /\ a < p * q + p) BY <1>2
<1>4. ASSUME p * q <= a, a < p * q + p PROVE r = q
  <2>. HIDE DEF r, s
  <2>1. CASE r >= q + 1
    <3>1. p * r >= p * (q + 1) BY <1>2, <2>1
    <3>2. p * (q + 1) = p * q + p OBVIOUS
    <3>3. p * r \in Nat /\ p * q \in Nat BY <1>2
    <3>. QED BY <1>2, <1>4, <3>1, <3>2, <3>3
  <2>2. CASE q >= r + 1
    <3>1. p * q >= p * (r + 1) BY <1>2, <2>2
    <3>2. p * (r + 1) = p * r + p BY <1>2
    <3>3. p * r \in Nat /\ p * q \in Nat BY <1>2
    <3>. QED BY <1>2, <1>4, <3>1, <3>2, <3>3
  <2>. QED BY <1>2, <2>1, <2>2
<1>. QED BY <1>3, <1>4

\* A level up, the quotient is half.
LEMMA Halved ==
    ASSUME NEW b \in Nat, NEW k \in Nat
    PROVE  /\ b \div Pow2[k] \in Nat
           /\ b \div Pow2[k + 1] = (b \div Pow2[k]) \div 2
<1>1. Pow2[k] \in Nat /\ Pow2[k] >= 1 /\ Pow2[k + 1] = 2 * Pow2[k] BY Pow2Is, Pow2Type
<1>. DEFINE p == Pow2[k]
<1>. HIDE DEF p
<1>2. p \in Nat /\ p >= 1 BY <1>1 DEF p
<1>3. b \div p \in Nat BY <1>2
<1>4. (b \div p) \div 2 = b \div (2 * p) BY <1>2
<1>. QED BY <1>1, <1>3, <1>4 DEF p

\* What an ancestor is, in numbers without a quotient.
LEMMA AncestorIs ==
    ASSUME NEW b \in Nat, NEW k \in Nat
    PROVE  /\ Ancestor(b, k) \in Nat
           /\ \E q \in Nat : /\ q = b \div Pow2[k]
                             /\ Ancestor(b, k) = 2 * (Pow2[k] * q) + Pow2[k] - 1
<1>1. Pow2[k] \in Nat /\ Pow2[k] >= 1 /\ Pow2[k + 1] = 2 * Pow2[k] BY Pow2Is, Pow2Type
<1>. DEFINE q == b \div Pow2[k]
<1>2. q \in Nat BY Halved
<1>. HIDE DEF q
<1>3. q * Pow2[k + 1] = 2 * (Pow2[k] * q) BY <1>1, <1>2
<1>4. Ancestor(b, k) = q * Pow2[k + 1] + Pow2[k] - 1 BY DEF Ancestor, q
<1>5. Pow2[k] * q \in Nat BY <1>1, <1>2
<1>6. Ancestor(b, k) = 2 * (Pow2[k] * q) + Pow2[k] - 1 BY <1>3, <1>4
<1>7. Ancestor(b, k) \in Nat BY <1>1, <1>5, <1>6
<1>. QED BY <1>2, <1>6, <1>7 DEF q

\* The lowest node above a leaf is the leaf's own.
LEMMA AncestorZero == ASSUME NEW b \in Nat PROVE Ancestor(b, 0) = 2 * b
<1>1. PICK q \in Nat : q = b \div Pow2[0] /\ Ancestor(b, 0) = 2 * (Pow2[0] * q) + Pow2[0] - 1
  BY AncestorIs
<1>2. Pow2[0] = 1 BY Pow2Is
<1>3. q = b BY <1>1, <1>2
<1>. QED BY <1>1, <1>2, <1>3

\* Every node is an odd number of its level's powers, less one.
LEMMA LevelIs ==
    ASSUME NEW n \in Nodes
    PROVE  /\ Level[n] \in Nat
           /\ \E q \in Nat : n = 2 * (Pow2[Level[n]] * q) + Pow2[Level[n]] - 1
<1>. DEFINE Fits(k) == (n + 1) % Pow2[k] = 0
            T == {k \in Nat : Fits(k)}
<1>0. n \in Nat BY MembersAssumption DEF Nodes, MAX_NODES
<1>1. \E k \in 0 .. n + 1 : Fits(k) /\ ~Fits(k + 1)
  <2>1. SUFFICES ASSUME \A k \in 0 .. n + 1 : Fits(k) => Fits(k + 1) PROVE FALSE OBVIOUS
  <2>2. 0 \in T BY Pow2Is, <1>0
  <2>3. ASSUME NEW k \in 0 .. (n + 2) - 1, k \in T PROVE k + 1 \in T
    <3>1. k \in 0 .. n + 1 /\ k + 1 \in Nat BY <1>0
    <3>. QED BY <2>1, <2>3, <3>1
  <2>4. \A k \in 0 .. n + 2 : k \in T
    <3>. HIDE DEF T
    <3>1. n + 2 \in Nat BY <1>0
    <3>. QED BY <2>2, <2>3, <3>1, CountingUp
  <2>5. (n + 1) % Pow2[n + 2] = 0 BY <2>4, <1>0
  <2>6. n + 2 \in Nat /\ Pow2[n + 2] \in Nat /\ Pow2[n + 2] > n + 2 BY <1>0, Pow2Type
  <2>7. (n + 1) % Pow2[n + 2] = n + 1 BY <1>0, <2>6
  <2>. QED BY <1>0, <2>5, <2>7
<1>2. Level[n] \in 0 .. n + 1 /\ Fits(Level[n]) /\ ~Fits(Level[n] + 1)
  <2>1. Level[n] = CHOOSE k \in 0 .. n + 1 : Fits(k) /\ ~Fits(k + 1) BY DEF Level
  <2>. HIDE DEF Fits
  <2>. QED BY <1>1, <2>1
<1>. DEFINE k == Level[n]
<1>3. k \in Nat BY <1>0, <1>2
<1>4. Pow2[k] \in Nat /\ Pow2[k] >= 1 /\ Pow2[k + 1] = 2 * Pow2[k] BY <1>3, Pow2Is, Pow2Type
<1>. DEFINE p == Pow2[k]
            m == (n + 1) \div p
<1>5. m \in Nat /\ n + 1 = p * m
  <2>. HIDE DEF k
  <2>1. p \in Nat /\ p >= 1 /\ (n + 1) % p = 0 BY <1>2, <1>4 DEF k
  <2>. HIDE DEF p
  <2>2. n + 1 = p * ((n + 1) \div p) + ((n + 1) % p) BY <1>0, <2>1
  <2>3. (n + 1) \div p \in Nat BY <1>0, <2>1
  <2>. QED BY <2>1, <2>2, <2>3
<1>6. m % 2 = 1
  <2>1. SUFFICES ASSUME m % 2 = 0 PROVE FALSE BY <1>5
  <2>. DEFINE h == m \div 2
  <2>2. h \in Nat /\ m = 2 * h BY <1>5, <2>1
  <2>3. p \in Nat /\ p >= 1 /\ (n + 1) % (2 * p) # 0 BY <1>2, <1>4
  <2>. HIDE DEF k, p, m, h
  <2>4. n + 1 = (2 * p) * h BY <1>5, <2>2, <2>3
  <2>5. \A d \in Nat : d >= 1 => (d * h) % d = 0 BY <2>2
  <2>6. 2 * p \in Nat /\ 2 * p >= 1 BY <2>3
  <2>. QED BY <2>3, <2>4, <2>5, <2>6
<1>7. PICK q \in Nat : m = 2 * q + 1
  <2>1. m \div 2 \in Nat /\ m = 2 * (m \div 2) + 1 BY <1>5, <1>6
  <2>. QED BY <2>1
<1>. HIDE DEF k, p, m
<1>8. p * m = 2 * (p * q) + p BY <1>4, <1>7 DEF p
<1>9. p * q \in Nat BY <1>4 DEF p
<1>10. n = 2 * (p * q) + p - 1 BY <1>0, <1>5, <1>8, <1>9, <1>4 DEF p
<1>. QED BY <1>3, <1>10 DEF k, p

\* And of no other power.
LEMMA LevelUnique ==
    ASSUME NEW i \in Nat, NEW j \in Nat, NEW q \in Nat, NEW r \in Nat,
           2 * (Pow2[i] * q) + Pow2[i] = 2 * (Pow2[j] * r) + Pow2[j]
    PROVE  i = j
<1>1. ASSUME NEW a \in Nat, NEW b \in Nat, a < b, NEW x \in Nat, NEW y \in Nat,
             2 * (Pow2[a] * x) + Pow2[a] = 2 * (Pow2[b] * y) + Pow2[b]
      PROVE  FALSE
  <2>1. a + 1 \in Nat /\ a + 1 <= b BY <1>1
  <2>2. PICK m \in Nat : m >= 1 /\ Pow2[b] = Pow2[a + 1] * m BY <2>1, Pow2Divides
  <2>3. Pow2[a + 1] = 2 * Pow2[a] /\ Pow2[a] \in Nat /\ Pow2[a] >= 1 BY Pow2Is, Pow2Type
  <2>. DEFINE p == Pow2[a]
  <2>. HIDE DEF p
  <2>4. p \in Nat /\ p >= 1 /\ Pow2[b] = 2 * (p * m) BY <2>2, <2>3 DEF p
  <2>5. 2 * ((2 * (p * m)) * y) + 2 * (p * m) = p * (2 * (2 * (m * y) + m)) BY <2>4
  <2>6. 2 * (p * x) + p = p * (2 * x + 1) BY <2>4
  <2>7. p * (2 * x + 1) = p * (2 * (2 * (m * y) + m)) BY <1>1, <2>4, <2>5, <2>6 DEF p
  <2>. DEFINE z == 2 * (m * y) + m
  <2>8. m * y \in Nat OBVIOUS
  <2>9. z \in Nat BY <2>8
  <2>. HIDE DEF z
  <2>10. p * (2 * x + 1) = p * (2 * z) BY <2>7 DEF z
  <2>11. 2 * x + 1 = 2 * z
    <3>1. 2 * x + 1 \in Int /\ 2 * z \in Int BY <2>9
    <3>2. \A u, v \in Int : p * u = p * v => u = v
      <4>1. SUFFICES ASSUME NEW u \in Int, NEW v \in Int, p * u = p * v, u # v PROVE FALSE
        OBVIOUS
      <4>2. p * (u - v) = 0 BY <2>4, <4>1
      <4>3. CASE u - v >= 1 
        <5>1. p * (u - v) >= p * 1 BY <2>4, <4>3
        <5>. QED BY <2>4, <4>2, <5>1
      <4>4. CASE v - u >= 1
        <5>1. p * (v - u) >= p * 1 BY <2>4, <4>4
        <5>2. p * (v - u) = 0 BY <2>4, <4>1
        <5>. QED BY <2>4, <5>1, <5>2
      <4>. QED BY <4>1, <4>3, <4>4
    <3>. QED BY <2>10, <3>1, <3>2
  <2>. QED BY <2>9, <2>11
<1>2. ~(i < j) BY <1>1
<1>3. ~(j < i) BY <1>1
<1>. QED BY <1>2, <1>3

\* The walk up from a leaf goes one level at a time.
LEMMA LevelOfAncestor ==
    ASSUME NEW b \in Nat, NEW k \in Nat, Ancestor(b, k) \in Nodes
    PROVE  Level[Ancestor(b, k)] = k
<1>. DEFINE n == Ancestor(b, k)
<1>1. PICK q \in Nat : n = 2 * (Pow2[k] * q) + Pow2[k] - 1 BY AncestorIs
<1>2. Level[n] \in Nat BY LevelIs
<1>3. PICK r \in Nat : n = 2 * (Pow2[Level[n]] * r) + Pow2[Level[n]] - 1 BY LevelIs
<1>. HIDE DEF n
<1>4. Pow2[k] \in Nat /\ Pow2[Level[n]] \in Nat BY <1>2, Pow2Type
<1>5. Pow2[k] * q \in Nat /\ Pow2[Level[n]] * r \in Nat BY <1>4
<1>6. 2 * (Pow2[k] * q) + Pow2[k] = 2 * (Pow2[Level[n]] * r) + Pow2[Level[n]]
  <2>. DEFINE x == Pow2[k] * q
              y == Pow2[Level[n]] * r
              u == Pow2[k]
              v == Pow2[Level[n]]
  <2>1. x \in Int /\ y \in Int /\ u \in Int /\ v \in Int BY <1>4, <1>5
  <2>2. n = 2 * x + u - 1 /\ n = 2 * y + v - 1 BY <1>1, <1>3
  <2>. HIDE DEF x, y, u, v
  <2>3. 2 * x + u = 2 * y + v BY <2>1, <2>2
  <2>. QED BY <2>3 DEF x, y, u, v
<1>7. k = Level[n] BY <1>2, <1>6, LevelUnique
<1>. QED BY <1>7 DEF n

\* A leaf is under a node when that is its ancestor at the node's level.
LEMMA UnderIs ==
    ASSUME NEW n \in Nodes, NEW b \in Nat
    PROVE  2 * b \in Under[n] <=> n = Ancestor(b, Level[n])
<1>. DEFINE k == Level[n]
            p == Pow2[k]
<1>0. n \in Nat BY MembersAssumption DEF Nodes, MAX_NODES
<1>1. k \in Nat BY LevelIs
<1>2. PICK q \in Nat : n = 2 * (p * q) + p - 1 BY LevelIs
<1>. DEFINE r == b \div p
<1>3. PICK r1 \in Nat : r1 = r /\ Ancestor(b, k) = 2 * (p * r1) + p - 1 BY <1>1, AncestorIs
<1>. HIDE DEF k
<1>4. p \in Nat /\ p >= 1 BY <1>1, Pow2Type
<1>5. Under[n] = IF k = 0 THEN {n} ELSE (n + 1 - p) .. (n - 1 + p) BY DEF Under, k
<1>6. k = 0 => p = 1 BY Pow2Is
<1>. HIDE DEF p
<1>7. r = q <=> (p * q <= b /\ b < p * q + p) BY <1>4, Quotient
<1>. HIDE DEF r
<1>8. p * q \in Nat BY <1>4
<1>9. 2 * b \in Under[n] <=> (p * q <= b /\ b < p * q + p)
  <2>1. CASE k = 0 BY <1>0, <1>2, <1>5, <1>6, <1>8, <2>1
  <2>2. CASE k # 0
    <3>1. 2 * b \in Under[n] <=> n + 1 - p <= 2 * b /\ 2 * b <= n - 1 + p
      BY <1>0, <1>4, <1>5, <2>2
    <3>. QED BY <1>0, <1>2, <1>4, <1>8, <3>1
  <2>. QED BY <2>1, <2>2
<1>10. r = q => n = Ancestor(b, k) BY <1>2, <1>3
<1>11. ASSUME n = Ancestor(b, k) PROVE r1 = q
  <2>1. 2 * (p * q) + p - 1 = 2 * (p * r1) + p - 1 BY <1>2, <1>3, <1>11
  <2>2. p * r1 \in Nat BY <1>4
  <2>3. p * q = p * r1 BY <1>4, <1>8, <2>1, <2>2
  <2>4. CASE q >= r1 + 1
    <3>1. p * q >= p * (r1 + 1) /\ p * (r1 + 1) = p * r1 + p BY <1>4, <2>4
    <3>. QED BY <1>4, <1>8, <2>2, <2>3, <3>1
  <2>5. CASE r1 >= q + 1
    <3>1. p * r1 >= p * (q + 1) /\ p * (q + 1) = p * q + p BY <1>4, <2>5
    <3>. QED BY <1>4, <1>8, <2>2, <2>3, <3>1
  <2>. QED BY <2>4, <2>5
<1>. QED BY <1>3, <1>7, <1>9, <1>10, <1>11 DEF k

\* Leaves share an ancestor when they share the quotient.
LEMMA AncestorSame ==
    ASSUME NEW a \in Nat, NEW b \in Nat, NEW k \in Nat
    PROVE  Ancestor(a, k) = Ancestor(b, k) <=> a \div Pow2[k] = b \div Pow2[k]
<1>1. Pow2[k] \in Nat /\ Pow2[k] >= 1 BY Pow2Type
<1>2. PICK q \in Nat : q = a \div Pow2[k] /\ Ancestor(a, k) = 2 * (Pow2[k] * q) + Pow2[k] - 1
  BY AncestorIs
<1>3. PICK r \in Nat : r = b \div Pow2[k] /\ Ancestor(b, k) = 2 * (Pow2[k] * r) + Pow2[k] - 1
  BY AncestorIs
<1>. DEFINE p == Pow2[k]
            x == p * q
            y == p * r
<1>4. p \in Nat /\ p >= 1 /\ x \in Nat /\ y \in Nat BY <1>1
<1>5. Ancestor(a, k) = 2 * x + p - 1 /\ Ancestor(b, k) = 2 * y + p - 1 BY <1>2, <1>3
<1>6. x = y => q = r
  <2>. HIDE DEF p
  <2>1. CASE q >= r + 1
    <3>1. p * q >= p * (r + 1) /\ p * (r + 1) = p * r + p BY <1>4, <2>1
    <3>. QED BY <1>4, <3>1
  <2>2. CASE r >= q + 1
    <3>1. p * r >= p * (q + 1) /\ p * (q + 1) = p * q + p BY <1>4, <2>2
    <3>. QED BY <1>4, <3>1
  <2>. QED BY <2>1, <2>2
<1>7. q = r => x = y OBVIOUS
<1>. HIDE DEF p, x, y
<1>8. Ancestor(a, k) = Ancestor(b, k) <=> x = y BY <1>4, <1>5
<1>. QED BY <1>2, <1>3, <1>6, <1>7, <1>8

\* A level up they share it all the more.
LEMMA SharedAbove ==
    ASSUME NEW a \in Nat, NEW b \in Nat, NEW i \in Nat, NEW j \in Nat, i <= j,
           a \div Pow2[i] = b \div Pow2[i]
    PROVE  a \div Pow2[j] = b \div Pow2[j]
<1>. DEFINE T == {d \in Nat : a \div Pow2[i + d] = b \div Pow2[i + d]}
<1>1. 0 \in T
  <2>1. i + 0 = i OBVIOUS
  <2>. QED BY <2>1
<1>2. ASSUME NEW d \in Nat, d \in T PROVE d + 1 \in T
  <2>1. i + d \in Nat /\ i + (d + 1) = (i + d) + 1 OBVIOUS
  <2>2. a \div Pow2[(i + d) + 1] = (a \div Pow2[i + d]) \div 2 BY <2>1, Halved
  <2>3. b \div Pow2[(i + d) + 1] = (b \div Pow2[i + d]) \div 2 BY <2>1, Halved
  <2>. QED BY <1>2, <2>1, <2>2, <2>3
<1>3. \A d \in Nat : d \in T
  <2>. HIDE DEF T
  <2>. QED BY <1>1, <1>2, CountingOn
<1>4. j - i \in Nat /\ i + (j - i) = j OBVIOUS
<1>5. j - i \in T BY <1>3, <1>4
<1>. QED BY <1>4, <1>5

\* The tree is full at its widest.
LEMMA WidestIs ==
    /\ MAX_MEMBERS \in Nat /\ MAX_MEMBERS >= 1
    /\ \E m \in Nat : MAX_MEMBERS = Pow2[m]
    /\ Leaves = 0 .. MAX_MEMBERS - 1 /\ Nodes = 0 .. 2 * MAX_MEMBERS - 1
    /\ Nodes \subseteq Nat /\ Leaves \subseteq Nat
BY MembersAssumption DEF Leaves, Nodes, MAX_NODES

\* A power that fits the widest tree divides it.
LEMMA PowerOfWidest ==
    ASSUME NEW k \in Nat, Pow2[k] <= MAX_MEMBERS
    PROVE  \E m \in Nat : m >= 1 /\ MAX_MEMBERS = Pow2[k] * m
<1>1. PICK t \in Nat : MAX_MEMBERS = Pow2[t] BY WidestIs
<1>2. k <= t
  <2>1. SUFFICES ASSUME t < k PROVE FALSE OBVIOUS
  <2>2. Pow2[t] < Pow2[k] BY <2>1, Pow2Grows
  <2>. QED BY <1>1, <2>2, Pow2Type
<1>. QED BY <1>1, <1>2, Pow2Divides

\* So the ancestors of its leaves are nodes.
LEMMA AncestorInNodes ==
    ASSUME NEW b \in Leaves, NEW k \in Nat, Pow2[k] <= MAX_MEMBERS
    PROVE  Ancestor(b, k) \in Nodes
<1>0. b \in Nat /\ b < MAX_MEMBERS BY WidestIs
<1>1. PICK m \in Nat : m >= 1 /\ MAX_MEMBERS = Pow2[k] * m BY PowerOfWidest
<1>2. PICK q \in Nat : q = b \div Pow2[k] /\ Ancestor(b, k) = 2 * (Pow2[k] * q) + Pow2[k] - 1
  BY <1>0, AncestorIs
<1>3. Pow2[k] \in Nat /\ Pow2[k] >= 1 BY Pow2Type
<1>. DEFINE p == Pow2[k]
<1>. HIDE DEF p
<1>4. p \in Nat /\ p >= 1 /\ MAX_MEMBERS = p * m BY <1>1, <1>3 DEF p
<1>5. p * q <= b BY <1>0, <1>2, <1>4, Quotient DEF p
<1>6. p * q \in Nat BY <1>4
<1>7. q + 1 <= m
  <2>1. SUFFICES ASSUME q >= m PROVE FALSE OBVIOUS
  <2>2. p * q >= p * m BY <1>4, <2>1
  <2>. QED BY <1>0, <1>4, <1>5, <2>2, <1>6
<1>8. p * (q + 1) <= p * m /\ p * (q + 1) = p * q + p BY <1>4, <1>7
<1>. DEFINE x == p * q
<1>9. x \in Nat /\ x + p <= MAX_MEMBERS /\ Ancestor(b, k) = 2 * x + p - 1
  BY <1>2, <1>4, <1>6, <1>8 DEF p
<1>. HIDE DEF x
<1>. QED BY <1>4, <1>9, WidestIs

\* One step up.
LEMMA ParentIs ==
    ASSUME NEW b \in Nat, NEW k \in Nat, Ancestor(b, k) \in Nodes
    PROVE  /\ Parent[Ancestor(b, k)] = Ancestor(b, k + 1)
           /\ (b \div Pow2[k]) % 2 = 0 => Ancestor(b, k + 1) = Ancestor(b, k) + Pow2[k]
           /\ (b \div Pow2[k]) % 2 # 0 => Ancestor(b, k + 1) = Ancestor(b, k) - Pow2[k]
<1>. DEFINE n == Ancestor(b, k)
            p == Pow2[k]
<1>1. PICK q \in Nat : q = b \div p /\ n = 2 * (p * q) + p - 1 BY AncestorIs
<1>2. PICK r \in Nat : r = b \div Pow2[k + 1] /\ Ancestor(b, k + 1) = 2 * (Pow2[k + 1] * r) + Pow2[k + 1] - 1
  <2>1. k + 1 \in Nat OBVIOUS
  <2>. QED BY <2>1, AncestorIs
<1>3. p \in Nat /\ p >= 1 /\ Pow2[k + 1] = 2 * p BY Pow2Is, Pow2Type
<1>4. r = q \div 2 BY <1>1, <1>2, Halved
<1>5. Level[n] = k BY LevelOfAncestor
<1>6. Parent[n] = IF (n \div (2 * p)) % 2 = 0 THEN n + p ELSE n - p BY <1>3, <1>5 DEF Parent
<1>. DEFINE up == Ancestor(b, k + 1)
<1>7. up = 2 * ((2 * p) * r) + 2 * p - 1 BY <1>2, <1>3
<1>8. n \in Nat BY AncestorIs
<1>. HIDE DEF n, up
<1>. HIDE DEF p
<1>9. n \div (2 * p) = q
  <2>1. (2 * p) * q = 2 * (p * q) /\ p * q \in Nat BY <1>3
  <2>. DEFINE x == p * q
  <2>2. n = 2 * x + p - 1 /\ (2 * p) * q = 2 * x /\ x \in Nat BY <1>1, <2>1
  <2>. HIDE DEF x
  <2>3. (2 * p) * q <= n /\ n < (2 * p) * q + 2 * p BY <1>3, <2>2
  <2>4. 2 * p \in Nat /\ 2 * p >= 1 BY <1>3
  <2>. QED BY <1>8, <2>3, <2>4, Quotient
<1>. DEFINE y == p * r
<1>10. y \in Nat /\ up = 4 * y + 2 * p - 1
  <2>1. (2 * p) * r = 2 * (p * r) /\ p * r \in Nat BY <1>3
  <2>. QED BY <1>3, <1>7, <2>1
<1>11. CASE q % 2 = 0
  <2>1. q = 2 * r BY <1>4, <1>11
  <2>2. p * q = 2 * y BY <1>3, <2>1
  <2>. HIDE DEF y
  <2>3. n = 4 * y + p - 1 BY <1>1, <1>3, <1>10, <2>2
  <2>4. up = n + p BY <1>3, <1>10, <2>3
  <2>. QED BY <1>1, <1>6, <1>9, <1>11, <2>4 DEF p, n, up
<1>12. CASE q % 2 # 0
  <2>1. q = 2 * r + 1 BY <1>4, <1>12
  <2>2. p * q = 2 * y + p BY <1>3, <2>1
  <2>. HIDE DEF y
  <2>3. n = 4 * y + 2 * p + p - 1 BY <1>1, <1>3, <1>10, <2>2
  <2>4. up = n - p BY <1>3, <1>10, <2>3
  <2>. QED BY <1>1, <1>6, <1>9, <1>12, <2>4 DEF p, n, up
<1>. QED BY <1>11, <1>12

\* The other child of the parent: it holds the leaves that come together with
\* this one a level up and not before.
LEMMA SiblingIs ==
    ASSUME NEW b \in Leaves, NEW k \in Nat, Pow2[k + 1] <= MAX_MEMBERS
    PROVE  /\ Sibling[Ancestor(b, k)] \in Nodes
           /\ Level[Sibling[Ancestor(b, k)]] = k
           /\ \A a \in Nat : 2 * a \in Under[Sibling[Ancestor(b, k)]] <=>
                                /\ a \div Pow2[k + 1] = b \div Pow2[k + 1]
                                /\ a \div Pow2[k] # b \div Pow2[k]
<1>0. b \in Nat /\ b < MAX_MEMBERS BY WidestIs
<1>. DEFINE p == Pow2[k]
            n == Ancestor(b, k)
            up == Ancestor(b, k + 1)
            s == Sibling[n]
<1>1. p \in Nat /\ p >= 1 /\ Pow2[k + 1] = 2 * p /\ p <= MAX_MEMBERS
  <2>1. p \in Nat /\ p >= 1 /\ Pow2[k + 1] = 2 * p BY Pow2Is, Pow2Type
  <2>. HIDE DEF p
  <2>. QED BY <2>1, WidestIs
<1>2. n \in Nodes /\ up \in Nodes
  <2>1. k + 1 \in Nat OBVIOUS
  <2>. QED BY <1>1, <2>1, AncestorInNodes
<1>3. Level[n] = k /\ Level[up] = k + 1
  <2>1. k + 1 \in Nat OBVIOUS
  <2>. QED BY <1>0, <1>2, <2>1, LevelOfAncestor
<1>4. PICK q \in Nat : q = b \div p /\ n = 2 * (p * q) + p - 1 BY <1>0, AncestorIs
<1>5. /\ Parent[n] = up
      /\ q % 2 = 0 => up = n + p
      /\ q % 2 # 0 => up = n - p
  BY <1>0, <1>2, <1>4, ParentIs
<1>6. n \in Nat /\ up \in Nat BY <1>2, WidestIs
<1>7. s = IF n < up THEN up + p ELSE up - p
  <2>1. k + 1 - 1 = k OBVIOUS
  <2>2. Right[up] = up + p /\ Left[up] = up - p BY <1>2, <1>3, <2>1 DEF Right, Left
  <2>3. s = IF n < Parent[n] THEN Right[Parent[n]] ELSE Left[Parent[n]] BY <1>2 DEF Sibling
  <2>. QED BY <1>5, <2>2, <2>3
<1>. DEFINE t == IF q % 2 = 0 THEN q + 1 ELSE q - 1
            c == p * t
<1>8. t \in Nat /\ t # q /\ t \div 2 = q \div 2 OBVIOUS
<1>9. \A x \in Nat : x = t <=> (x \div 2 = q \div 2 /\ x # q) OBVIOUS
<1>10. s = 2 * c + p - 1
  <2>. HIDE DEF n, up, p, s
  <2>1. p * q \in Nat BY <1>1
  <2>2. CASE q % 2 = 0
    <3>1. p * t = p * q + p BY <1>1, <2>2
    <3>2. up = n + p /\ n < up BY <1>1, <1>5, <1>6, <2>2
    <3>3. s = n + p + p BY <1>7, <3>2
    <3>. DEFINE x == p * q
    <3>4. n = 2 * x + p - 1 /\ c = x + p /\ x \in Nat BY <1>4, <2>1, <3>1
    <3>. HIDE DEF x, c
    <3>. QED BY <1>1, <3>3, <3>4
  <2>3. CASE q % 2 # 0
    <3>1. p * t = p * q - p BY <1>1, <2>3
    <3>2. up = n - p /\ ~(n < up) BY <1>1, <1>5, <1>6, <2>3
    <3>3. s = n - p - p BY <1>7, <3>2
    <3>. DEFINE x == p * q
    <3>4. n = 2 * x + p - 1 /\ c = x - p /\ x \in Nat BY <1>4, <2>1, <3>1
    <3>. HIDE DEF x, c
    <3>. QED BY <1>1, <3>3, <3>4
  <2>. QED BY <2>2, <2>3
<1>11. c \in Leaves /\ c \div p = t
  <2>1. PICK m \in Nat : m >= 1 /\ MAX_MEMBERS = Pow2[k + 1] * m BY PowerOfWidest
  <2>. HIDE DEF p, t
  <2>2. p * q <= b BY <1>0, <1>1, <1>4, Quotient
  <2>. DEFINE h == q \div 2
  <2>3. h \in Nat /\ (q = 2 * h \/ q = 2 * h + 1) /\ (t = 2 * h \/ t = 2 * h + 1)
    <3>1. t = 2 * (t \div 2) \/ t = 2 * (t \div 2) + 1 BY <1>8
    <3>2. q = 2 * (q \div 2) \/ q = 2 * (q \div 2) + 1 OBVIOUS
    <3>3. q \div 2 \in Nat OBVIOUS
    <3>. QED BY <1>8, <3>1, <3>2, <3>3
  <2>. HIDE DEF h
  <2>4. h < m
    <3>1. SUFFICES ASSUME h >= m PROVE FALSE BY <2>3
    <3>2. p * q >= p * (2 * h) BY <1>1, <2>3
    <3>3. p * (2 * h) >= p * (2 * m) BY <1>1, <2>3, <3>1
    <3>4. p * (2 * m) = (2 * p) * m BY <1>1
    <3>5. p * q \in Nat BY <1>1
    <3>6. p * (2 * h) \in Nat /\ p * (2 * m) \in Nat BY <1>1, <2>3
    <3>7. MAX_MEMBERS = p * (2 * m) BY <1>1, <2>1, <3>4
    <3>. QED BY <1>0, <2>2, <3>2, <3>3, <3>5, <3>6, <3>7
  <2>5. t + 1 <= 2 * m BY <2>3, <2>4
  <2>6. p * (t + 1) <= p * (2 * m) BY <1>1, <1>8, <2>5
  <2>7. p * (t + 1) = p * t + p /\ p * (2 * m) = (2 * p) * m BY <1>1, <1>8
  <2>8. c \in Nat BY <1>1, <1>8
  <2>9. p * t + p <= MAX_MEMBERS BY <1>1, <2>1, <2>6, <2>7
  <2>10. c < MAX_MEMBERS
    <3>1. c + p <= MAX_MEMBERS BY <2>9
    <3>. HIDE DEF c
    <3>. QED BY <1>1, <2>8, <3>1, WidestIs
  <2>11. c \div p = t BY <1>1, <1>8, <2>8, Quotient
  <2>. QED BY <2>8, <2>10, <2>11, WidestIs
<1>12. s = Ancestor(c, k)
  <2>0. c \in Nat BY <1>11, WidestIs
  <2>1. PICK x \in Nat : x = c \div p /\ Ancestor(c, k) = 2 * (p * x) + p - 1
    <3>. HIDE DEF c
    <3>. QED BY <2>0, AncestorIs
  <2>2. x = t BY <1>11, <2>1
  <2>. HIDE DEF s, p, t
  <2>. QED BY <1>10, <2>1, <2>2
<1>13. s \in Nodes BY <1>1, <1>11, <1>12, AncestorInNodes
<1>14. Level[s] = k BY <1>11, <1>12, <1>13, WidestIs, LevelOfAncestor
<1>15. ASSUME NEW a \in Nat
       PROVE  2 * a \in Under[s] <=> /\ a \div Pow2[k + 1] = b \div Pow2[k + 1]
                                     /\ a \div Pow2[k] # b \div Pow2[k]
  <2>1. 2 * a \in Under[s] <=> Ancestor(c, k) = Ancestor(a, k)
    BY <1>12, <1>13, <1>14, UnderIs
  <2>0. c \in Nat BY <1>11, WidestIs
  <2>2. 2 * a \in Under[s] <=> c \div Pow2[k] = a \div Pow2[k]
    <3>. HIDE DEF c, s
    <3>1. Ancestor(c, k) = Ancestor(a, k) <=> c \div Pow2[k] = a \div Pow2[k]
      BY <2>0, AncestorSame
    <3>. QED BY <2>1, <3>1
  <2>3. a \div Pow2[k] \in Nat /\ a \div Pow2[k + 1] = (a \div Pow2[k]) \div 2 BY Halved
  <2>4. b \div Pow2[k + 1] = q \div 2 BY <1>0, <1>4, Halved
  <2>5. 2 * a \in Under[s] <=> a \div Pow2[k] = t BY <1>11, <2>2
  <2>. HIDE DEF t, s
  <2>. QED BY <1>4, <1>9, <2>3, <2>4, <2>5
<1>. QED BY <1>13, <1>14, <1>15

-----------------------------------------------------------------------------
(* Heights, walks and paths.                                                *)

\* The levels of a tree of so many leaves.
Height(count) == Level[Root(count)]

\* Where the root of a tree is, whatever its width.
LEMMA RootIs ==
    ASSUME NEW count \in 1 .. MAX_MEMBERS
    PROVE  /\ Height(count) \in Nat
           /\ Root(count) \in Nodes /\ Root(count) = Pow2[Height(count)] - 1
           /\ Pow2[Height(count)] <= 2 * count - 1
           /\ 2 * count - 1 < Pow2[Height(count) + 1]
           /\ Pow2[Height(count)] <= MAX_MEMBERS
<1>. DEFINE w == 2 * count - 1
            Fits(j) == Pow2[j] <= w /\ w < Pow2[j + 1]
            T == {j \in Nat : Pow2[j] <= w}
            k == CHOOSE j \in 0 .. w : Fits(j)
<1>0. w \in Nat /\ w >= 1 /\ w < 2 * MAX_MEMBERS BY WidestIs
<1>. HIDE DEF w
<1>1. \E j \in 0 .. w : Fits(j)
  <2>1. SUFFICES ASSUME \A j \in 0 .. w : ~Fits(j) PROVE FALSE OBVIOUS
  <2>2. 0 \in T BY <1>0, Pow2Is
  <2>3. ASSUME NEW j \in 0 .. w - 1, j \in T PROVE j + 1 \in T
    <3>1. j \in 0 .. w /\ j + 1 \in Nat BY <1>0
    <3>2. ~Fits(j) BY <2>1, <3>1
    <3>3. Pow2[j + 1] \in Nat BY <3>1, Pow2Type
    <3>. QED BY <1>0, <2>3, <3>1, <3>2, <3>3
  <2>4. \A j \in 0 .. w : j \in T
    <3>. HIDE DEF T
    <3>. QED BY <1>0, <2>2, <2>3, CountingUp
  <2>5. Pow2[w] <= w BY <1>0, <2>4
  <2>6. Pow2[w] > w /\ Pow2[w] \in Nat BY <1>0, Pow2Type
  <2>. QED BY <1>0, <2>5, <2>6
<1>2. k \in 0 .. w /\ Fits(k)
  <2>. HIDE DEF Fits
  <2>. QED BY <1>1
<1>3. Root(count) = Pow2[k] - 1
  <2>1. NodeWidth(count) = w BY DEF NodeWidth, w
  <2>. QED BY <2>1 DEF Root
<1>. HIDE DEF k
<1>4. k \in Nat /\ Pow2[k] \in Nat /\ Pow2[k] >= 1 BY <1>0, <1>2, Pow2Type
<1>5. Pow2[k] <= MAX_MEMBERS
  <2>1. PICK m \in Nat : MAX_MEMBERS = Pow2[m] BY WidestIs
  <2>2. Pow2[m + 1] = 2 * MAX_MEMBERS BY <2>1, Pow2Is
  <2>3. k <= m
    <3>1. SUFFICES ASSUME m + 1 <= k PROVE FALSE BY <1>4
    <3>2. m + 1 \in Nat OBVIOUS
    <3>3. Pow2[m + 1] <= Pow2[k]
      <4>1. CASE m + 1 = k BY <1>4, <4>1
      <4>2. CASE m + 1 < k
        <5>1. Pow2[m + 1] < Pow2[k] BY <1>4, <3>2, <4>2, Pow2Grows
        <5>. QED BY <1>4, <3>2, <5>1, Pow2Type
      <4>. QED BY <1>4, <3>1, <4>1, <4>2
    <3>. QED BY <1>0, <1>2, <1>4, <2>2, <3>3, WidestIs
  <2>4. CASE k = m BY <1>4, <2>1, <2>4
  <2>5. CASE k < m
    <3>1. Pow2[k] < Pow2[m] BY <1>4, <2>5, Pow2Grows
    <3>. QED BY <1>4, <2>1, <3>1, WidestIs
  <2>. QED BY <1>4, <2>3, <2>4, <2>5
<1>6. Ancestor(0, k) = Root(count) /\ Root(count) \in Nodes
  <2>1. PICK q \in Nat : q = 0 \div Pow2[k] /\ Ancestor(0, k) = 2 * (Pow2[k] * q) + Pow2[k] - 1
    BY <1>4, AncestorIs
  <2>2. q = 0 BY <1>4, <2>1
  <2>3. Ancestor(0, k) = Pow2[k] - 1 BY <1>4, <2>1, <2>2
  <2>4. 0 \in Leaves BY WidestIs
  <2>5. Ancestor(0, k) \in Nodes BY <1>4, <1>5, <2>4, AncestorInNodes
  <2>. QED BY <1>3, <2>3, <2>5
<1>7. Level[Root(count)] = k
  <2>1. 0 \in Nat OBVIOUS
  <2>. QED BY <1>4, <1>6, <2>1, LevelOfAncestor
<1>. QED BY <1>2, <1>3, <1>4, <1>5, <1>6, <1>7 DEF Height, w

\* From the height of the tree on, its leaves have one ancestor.
LEMMA AboveRoot ==
    ASSUME NEW count \in 1 .. MAX_MEMBERS, NEW b \in 0 .. count - 1,
           NEW k \in Nat, Height(count) <= k
    PROVE  /\ b < Pow2[k] /\ b \div Pow2[k] = 0 /\ Ancestor(b, k) = Pow2[k] - 1
<1>. DEFINE h == Height(count)
<1>1. h \in Nat /\ 2 * count - 1 < Pow2[h + 1] BY RootIs
<1>. HIDE DEF h
<1>2. Pow2[h + 1] = 2 * Pow2[h] /\ Pow2[h] \in Nat BY <1>1, Pow2Is, Pow2Type
<1>3. count \in Nat /\ b \in Nat /\ b <= count - 1 BY WidestIs
<1>4. b < Pow2[h] BY <1>1, <1>2, <1>3
<1>5. Pow2[h] <= Pow2[k] /\ Pow2[k] \in Nat /\ Pow2[k] >= 1
  <2>1. Pow2[k] \in Nat /\ Pow2[k] >= 1 BY Pow2Type
  <2>2. CASE h = k BY <1>2, <2>2, <2>1
  <2>3. CASE h < k
    <3>1. Pow2[h] < Pow2[k] BY <1>1, <2>3, Pow2Grows
    <3>. QED BY <1>2, <2>1, <3>1
  <2>. QED BY <1>1, <2>2, <2>3 DEF h
<1>6. b < Pow2[k] BY <1>2, <1>3, <1>4, <1>5
<1>7. b \div Pow2[k] = 0 BY <1>3, <1>5, <1>6
<1>8. PICK q \in Nat : q = b \div Pow2[k] /\ Ancestor(b, k) = 2 * (Pow2[k] * q) + Pow2[k] - 1
  BY <1>3, AncestorIs
<1>9. q = 0 BY <1>7, <1>8
<1>10. Ancestor(b, k) = Pow2[k] - 1 BY <1>5, <1>8, <1>9
<1>. QED BY <1>6, <1>7, <1>10

\* Levels within a tree have powers no more than the widest.
LEMMA WithinHeight ==
    ASSUME NEW count \in 1 .. MAX_MEMBERS, NEW k \in 0 .. Height(count)
    PROVE  k \in Nat /\ Pow2[k] <= MAX_MEMBERS
<1>. DEFINE h == Height(count)
<1>1. h \in Nat /\ Pow2[h] <= MAX_MEMBERS BY RootIs
<1>. HIDE DEF h
<1>2. k \in Nat /\ k <= h BY <1>1 DEF h
<1>3. Pow2[k] \in Nat /\ Pow2[h] \in Nat BY <1>1, <1>2, Pow2Type
<1>4. CASE k = h BY <1>1, <1>2, <1>4
<1>5. CASE k < h
  <2>1. Pow2[k] < Pow2[h] BY <1>1, <1>2, <1>5, Pow2Grows
  <2>. QED BY <1>1, <1>2, <1>3, <2>1, WidestIs
<1>. QED BY <1>1, <1>2, <1>4, <1>5

\* The walk from a leaf to the root meets its ancestors, one level after the other.
LEMMA ClimbIs ==
    ASSUME NEW count \in 1 .. MAX_MEMBERS, NEW b \in 0 .. count - 1
    PROVE  Climb(2 * b, count) = [i \in 1 .. Height(count) + 1 |-> Ancestor(b, i - 1)]
<1>. DEFINE h == Height(count)
            n == 2 * b
            Walk(f, steps) == f = [i \in 0 .. steps |-> IF i = 0 THEN n ELSE Parent[f[i - 1]]]
            Is(f) == Walk(f, h)
            at == CHOOSE f : Is(f)
<1>0. h \in Nat BY RootIs
<1>1. b \in Nat /\ b \in Leaves /\ n = Ancestor(b, 0)
  <2>1. b \in Nat /\ b \in Leaves BY WidestIs
  <2>. QED BY <2>1, AncestorZero
<1>2. \A k \in 0 .. h : Ancestor(b, k) \in Nodes BY <1>1, WithinHeight, AncestorInNodes
<1>3. \A k \in 0 .. h - 1 : Parent[Ancestor(b, k)] = Ancestor(b, k + 1)
  <2>1. \A k \in 0 .. h - 1 : k \in 0 .. h /\ k \in Nat BY <1>0
  <2>. QED BY <1>1, <1>2, <2>1, ParentIs
<1>4. n \in Nodes /\ Level[n] = 0
  <2>1. 0 \in 0 .. h BY <1>0
  <2>2. Ancestor(b, 0) \in Nodes BY <1>2, <2>1
  <2>. QED BY <1>1, <2>2, LevelOfAncestor
<1>5. Climb(n, count) = [i \in 1 .. h + 1 |-> at[i - 1]]
  <2>1. Level[Root(count)] - Level[n] = h BY <1>0, <1>4 DEF Height
  <2>2. Climb(n, count) = [i \in 1 .. (Level[Root(count)] - Level[n]) + 1 |->
                             (CHOOSE f : Walk(f, Level[Root(count)] - Level[n]))[i - 1]]
    BY Zenon DEF Climb
  <2>. HIDE DEF Walk
  <2>. QED BY <2>1, <2>2
<1>. HIDE DEF h, n
<1>6. Is(at)
  <2>. DEFINE g == [i \in 0 .. h |-> Ancestor(b, i)]
  <2>1. \A i \in 0 .. h : g[i] = IF i = 0 THEN n ELSE Parent[g[i - 1]]
    <3>. TAKE i \in 0 .. h
    <3>1. CASE i = 0 BY <1>1, <3>1
    <3>2. CASE i # 0
      <4>1. i - 1 \in 0 .. h - 1 /\ i - 1 \in 0 .. h /\ i - 1 + 1 = i BY <1>0, <3>2
      <4>2. Parent[Ancestor(b, i - 1)] = Ancestor(b, i) BY <1>3, <4>1
      <4>. QED BY <3>2, <4>1, <4>2
    <3>. QED BY <3>1, <3>2
  <2>2. g = [i \in 0 .. h |-> g[i]] OBVIOUS
  <2>. HIDE DEF g
  <2>3. Is(g) BY <2>1, <2>2
  <2>. HIDE DEF Is
  <2>. QED BY <2>3
<1>7. \A i \in 0 .. h : at[i] = IF i = 0 THEN n ELSE Parent[at[i - 1]]
  <2>. HIDE DEF at
  <2>. QED BY <1>6
<1>. HIDE DEF at
<1>. DEFINE T == {i \in 0 .. h : at[i] = Ancestor(b, i)}
<1>8. 0 \in T BY <1>0, <1>1, <1>7
<1>9. ASSUME NEW i \in 0 .. h - 1, i \in T PROVE i + 1 \in T
  <2>1. i + 1 \in 0 .. h /\ i + 1 # 0 /\ i + 1 - 1 = i BY <1>0
  <2>2. at[i + 1] = Parent[at[i]] BY <1>7, <2>1
  <2>. QED BY <1>3, <1>9, <2>1, <2>2
<1>10. \A i \in 0 .. h : i \in T
  <2>. HIDE DEF T
  <2>. QED BY <1>0, <1>8, <1>9, CountingUp
<1>11. \A i \in 1 .. h + 1 : i - 1 \in 0 .. h BY <1>0
<1>12. \A i \in 1 .. h + 1 : at[i - 1] = Ancestor(b, i - 1) BY <1>10, <1>11
<1>13. [i \in 1 .. h + 1 |-> at[i - 1]] = [i \in 1 .. h + 1 |-> Ancestor(b, i - 1)] BY <1>12
<1>. QED BY <1>5, <1>13 DEF h, n

\* The direct path of a leaf, and beside it the copath.
LEMMA PathIs ==
    ASSUME NEW count \in 1 .. MAX_MEMBERS, NEW b \in 0 .. count - 1
    PROVE  /\ DirectPath[LeafToNode(b)][count] = [i \in 1 .. Height(count) |-> Ancestor(b, i)]
           /\ Copath[LeafToNode(b)][count] =
                 [i \in 1 .. Height(count) |-> Sibling[Ancestor(b, i - 1)]]
           /\ \A i \in 1 .. Height(count) : Ancestor(b, i) \in Nodes
<1>. DEFINE h == Height(count)
            c == Climb(2 * b, count)
<1>0. h \in Nat BY RootIs
<1>1. b \in Nat /\ b \in Leaves /\ 2 * b \in Nodes /\ LeafToNode(b) = 2 * b
  BY WidestIs DEF LeafToNode
<1>2. DirectPath[2 * b][count] = SubSeq(c, 2, Len(c)) BY <1>1 DEF DirectPath
<1>3. Copath[2 * b][count] = [i \in 1 .. Len(c) - 1 |-> Sibling[c[i]]] BY <1>1 DEF Copath
<1>4. c = [i \in 1 .. h + 1 |-> Ancestor(b, i - 1)] BY ClimbIs
<1>. HIDE DEF c, h
<1>5. c \in Seq(Nat) /\ Len(c) = h + 1
  <2>1. \A i \in 1 .. h + 1 : Ancestor(b, i - 1) \in Nat
    <3>1. \A i \in 1 .. h + 1 : i - 1 \in Nat BY <1>0
    <3>. QED BY <1>1, <3>1, AncestorIs
  <2>2. c \in [1 .. h + 1 -> Nat] BY <1>4, <2>1
  <2>3. h + 1 \in Nat BY <1>0
  <2>4. c \in Seq(Nat) BY <2>2, <2>3, SeqDef
  <2>. QED BY <1>4, <2>3, <2>4
<1>6. SubSeq(c, 2, h + 1) = [i \in 1 .. h |-> c[2 + i - 1]]
  <2>. QED BY <1>0, <1>5
<1>7. \A i \in 1 .. h : c[2 + i - 1] = Ancestor(b, i)
  <2>1. \A i \in 1 .. h : 2 + i - 1 \in 1 .. h + 1 /\ 2 + i - 1 - 1 = i BY <1>0
  <2>. QED BY <1>4, <2>1
<1>8. \A i \in 1 .. h : c[i] = Ancestor(b, i - 1)
  <2>1. \A i \in 1 .. h : i \in 1 .. h + 1 BY <1>0
  <2>. QED BY <1>4, <2>1
<1>9. DirectPath[2 * b][count] = [i \in 1 .. h |-> Ancestor(b, i)] BY <1>2, <1>5, <1>6, <1>7
<1>10. h + 1 - 1 = h BY <1>0
<1>11. Copath[2 * b][count] = [i \in 1 .. h |-> Sibling[Ancestor(b, i - 1)]]
  <2>0. Len(c) - 1 = h BY <1>0, <1>5
  <2>1. Copath[2 * b][count] = [i \in 1 .. h |-> Sibling[c[i]]] BY <1>3, <2>0, Zenon
  <2>2. \A i \in 1 .. h : Sibling[c[i]] = Sibling[Ancestor(b, i - 1)] BY <1>8
  <2>. QED BY <2>1, <2>2
<1>12. \A i \in 1 .. h : Ancestor(b, i) \in Nodes
  <2>1. \A i \in 1 .. h : i \in 0 .. h BY <1>0
  <2>. QED BY <1>1, <2>1, WithinHeight, AncestorInNodes DEF h
<1>. QED BY <1>1, <1>9, <1>11, <1>12 DEF h

\* Leaves are the nodes of level zero.
LEMMA LeavesAre ==
    /\ \A b \in Leaves : /\ LeafToNode(b) = 2 * b /\ 2 * b \in Nodes
                         /\ NodeToLeaf(2 * b) = b /\ IsLeaf(2 * b)
                         /\ Level[2 * b] = 0
    /\ \A n \in Nodes : IsLeaf(n) <=> Level[n] = 0
    /\ \A n \in Nodes : IsLeaf(n) => NodeToLeaf(n) \in Leaves /\ n = 2 * NodeToLeaf(n)
<1>1. ASSUME NEW b \in Leaves
      PROVE  /\ LeafToNode(b) = 2 * b /\ 2 * b \in Nodes
             /\ NodeToLeaf(2 * b) = b /\ IsLeaf(2 * b) /\ Level[2 * b] = 0
  <2>1. b \in Nat /\ b < MAX_MEMBERS BY WidestIs
  <2>2. 2 * b \in Nodes BY <2>1, WidestIs
  <2>3. Ancestor(b, 0) = 2 * b BY <2>1, AncestorZero
  <2>4. Level[2 * b] = 0 BY <2>1, <2>2, <2>3, LevelOfAncestor
  <2>. QED BY <2>1, <2>2, <2>4 DEF LeafToNode, NodeToLeaf, IsLeaf
<1>2. ASSUME NEW n \in Nodes PROVE IsLeaf(n) <=> Level[n] = 0
  <2>. DEFINE k == Level[n]
  <2>1. k \in Nat BY LevelIs
  <2>2. PICK q \in Nat : n = 2 * (Pow2[k] * q) + Pow2[k] - 1 BY LevelIs
  <2>. HIDE DEF k
  <2>3. CASE k = 0
    <3>1. n = 2 * q BY <2>2, <2>3, Pow2Is
    <3>. QED BY <2>3, <3>1 DEF k, IsLeaf
  <2>4. CASE k # 0
    <3>1. k - 1 \in Nat /\ k - 1 + 1 = k BY <2>1, <2>4
    <3>2. Pow2[k] = 2 * Pow2[k - 1] /\ Pow2[k - 1] \in Nat BY <3>1, Pow2Is, Pow2Type
    <3>. DEFINE x == Pow2[k] * q
                y == Pow2[k - 1]
    <3>3. x \in Nat /\ y \in Nat /\ n = 2 * x + 2 * y - 1 BY <2>2, <3>2
    <3>. HIDE DEF x, y
    <3>. QED BY <2>4, <3>3 DEF k, IsLeaf
  <2>. QED BY <2>3, <2>4 DEF k
<1>3. ASSUME NEW n \in Nodes, IsLeaf(n) PROVE NodeToLeaf(n) \in Leaves /\ n = 2 * NodeToLeaf(n)
  BY <1>3, WidestIs DEF NodeToLeaf, IsLeaf
<1>. QED BY <1>1, <1>2, <1>3

\* What is under a node ends with a leaf.
LEMMA LastUnder ==
    ASSUME NEW n \in Nodes, NEW m \in Under[n]
    PROVE  m \in Nat /\ \E a \in Nat : 2 * a \in Under[n] /\ m <= 2 * a
<1>. DEFINE k == Level[n]
            p == Pow2[k]
<1>0. n \in Nat BY WidestIs
<1>1. k \in Nat BY LevelIs
<1>2. PICK q \in Nat : n = 2 * (p * q) + p - 1 BY LevelIs
<1>. HIDE DEF k
<1>3. p \in Nat /\ p >= 1 BY <1>1, Pow2Type
<1>4. Under[n] = IF k = 0 THEN {n} ELSE (n + 1 - p) .. (n - 1 + p) BY DEF Under, k
<1>5. k = 0 => p = 1 BY Pow2Is
<1>6. p * q \in Nat BY <1>3
<1>. DEFINE x == p * q
            a == x + p - 1
<1>. HIDE DEF p, x
<1>7. x \in Nat /\ n = 2 * x + p - 1 BY <1>2, <1>6 DEF x
<1>8. a \in Nat BY <1>3, <1>7
<1>9. 2 * a = n + p - 1 BY <1>3, <1>7
<1>10. CASE k = 0
  <2>1. p = 1 /\ n = 2 * a BY <1>3, <1>5, <1>7, <1>10
  <2>. QED BY <1>0, <1>4, <1>8, <1>10, <2>1
<1>11. CASE k # 0
  <2>1. m \in (n + 1 - p) .. (n - 1 + p) BY <1>4, <1>11
  <2>2. m \in Nat /\ m <= 2 * a BY <1>0, <1>3, <1>7, <1>9, <2>1
  <2>3. 2 * a \in Under[n] BY <1>0, <1>3, <1>4, <1>9, <1>11
  <2>. QED BY <1>8, <2>2, <2>3
<1>. QED BY <1>10, <1>11

\* What a node has under it is under whatever it is under itself.
LEMMA Nested ==
    ASSUME NEW n \in Nodes, NEW m \in Nodes, n \in Under[m], NEW b \in Nat, 2 * b \in Under[n]
    PROVE  /\ 2 * b \in Under[m]
           /\ Level[n] <= Level[m]
           /\ n # m => Level[n] < Level[m]
<1>. DEFINE i == Level[n]
            k == Level[m]
            p == Pow2[i]
            t == Pow2[k]
<1>0. n \in Nat /\ m \in Nat BY WidestIs
<1>1. i \in Nat /\ k \in Nat BY LevelIs
<1>2. n = Ancestor(b, i) BY UnderIs
<1>3. PICK q \in Nat : q = b \div p /\ n = 2 * (p * q) + p - 1 BY <1>1, <1>2, AncestorIs
<1>4. PICK r \in Nat : m = 2 * (t * r) + t - 1 BY LevelIs
<1>5. Under[m] = IF k = 0 THEN {m} ELSE (m + 1 - t) .. (m - 1 + t) BY DEF Under
<1>6. k = 0 => t = 1 BY Pow2Is
<1>. HIDE DEF i, k
<1>7. p \in Nat /\ p >= 1 /\ t \in Nat /\ t >= 1 BY <1>1, Pow2Type
<1>8. p * q \in Nat /\ t * r \in Nat BY <1>7
<1>9. p * q <= b /\ b < p * q + p BY <1>3, <1>7, Quotient
<1>10. m + 1 - t <= n /\ n <= m - 1 + t
  <2>1. CASE k = 0 BY <1>0, <1>5, <1>6, <2>1
  <2>2. CASE k # 0 BY <1>0, <1>5, <1>7, <2>2
  <2>. QED BY <2>1, <2>2
<1>. DEFINE x == p * q
            y == t * r
<1>11. x \in Nat /\ y \in Nat /\ n = 2 * x + p - 1 /\ m = 2 * y + t - 1 BY <1>3, <1>4, <1>8
<1>. HIDE DEF x, y, p, t
<1>12. 2 * y <= 2 * x + p - 1 /\ 2 * x + p - 1 <= 2 * y + 2 * t - 2 BY <1>7, <1>10, <1>11
<1>13. i <= k
  <2>1. SUFFICES ASSUME k < i PROVE FALSE BY <1>1
  <2>2. k + 1 \in Nat /\ k + 1 <= i BY <1>1, <2>1
  <2>3. PICK c \in Nat : c >= 1 /\ Pow2[i] = Pow2[k + 1] * c BY <1>1, <2>2, Pow2Divides
  <2>4. Pow2[k + 1] = 2 * t BY <1>1, Pow2Is DEF t
  <2>5. p = (2 * t) * c BY <2>3, <2>4 DEF p
  <2>6. p = t * (2 * c) BY <1>7, <2>5
  <2>7. x = (t * (2 * c)) * q BY <2>6 DEF x
  <2>. DEFINE d == 2 * (c * q) + c
  <2>8. c * q \in Nat OBVIOUS
  <2>9. d \in Nat BY <2>8
  <2>10. 2 * x + p = (2 * t) * d
    <3>1. (t * (2 * c)) * q = 2 * (t * (c * q)) BY <1>7, <2>8
    <3>2. (2 * t) * d = 2 * (t * d) BY <1>7, <2>9
    <3>3. t * d = t * (2 * (c * q)) + t * c BY <1>7, <2>8
    <3>4. t * (2 * (c * q)) = 2 * (t * (c * q)) BY <1>7, <2>8
    <3>5. p = 2 * (t * c) BY <1>7, <2>6
    <3>6. t * (c * q) \in Nat /\ t * c \in Nat BY <1>7, <2>8
    <3>7. t * d \in Nat BY <1>7, <2>9
    <3>. HIDE DEF d
    <3>. QED BY <2>7, <3>1, <3>2, <3>3, <3>4, <3>5, <3>6, <3>7
  <2>11. (2 * t) * d = 2 * (t * d) /\ t * d \in Nat BY <1>7, <2>9
  <2>. HIDE DEF d
  <2>12. y < t * d BY <1>7, <1>11, <1>12, <2>10, <2>11
  <2>13. r < d
    <3>1. SUFFICES ASSUME r >= d PROVE FALSE BY <2>9
    <3>2. t * r >= t * d BY <1>7, <2>9, <3>1
    <3>. QED BY <1>11, <2>11, <2>12, <3>2 DEF y
  <2>14. t * d >= t * (r + 1) BY <1>7, <2>9, <2>13
  <2>15. t * (r + 1) = t * r + t BY <1>7
  <2>16. t * d >= y + t BY <1>11, <2>11, <2>14, <2>15 DEF y
  <2>. QED BY <1>7, <1>11, <1>12, <2>10, <2>11, <2>16
<1>14. PICK c \in Nat : c >= 1 /\ t = p * c BY <1>1, <1>13, Pow2Divides DEF p, t
<1>. DEFINE e == c * r
<1>15. e \in Nat /\ y = p * e
  <2>1. (p * c) * r = p * (c * r) BY <1>7
  <2>. QED BY <1>14, <2>1 DEF y
<1>. HIDE DEF e
<1>16. e <= q
  <2>1. SUFFICES ASSUME q + 1 <= e PROVE FALSE BY <1>15
  <2>2. p * (q + 1) <= p * e BY <1>7, <1>15, <2>1
  <2>3. p * (q + 1) = p * q + p BY <1>7
  <2>4. x + p <= y BY <1>15, <2>2, <2>3 DEF x
  <2>. QED BY <1>7, <1>11, <1>12, <2>4
<1>17. q + 1 <= e + c
  <2>1. SUFFICES ASSUME e + c <= q PROVE FALSE BY <1>15
  <2>2. p * (e + c) <= p * q BY <1>7, <1>15, <2>1
  <2>3. p * (e + c) = p * e + p * c BY <1>7, <1>15
  <2>4. y + t <= x BY <1>14, <1>15, <2>2, <2>3 DEF x
  <2>. QED BY <1>7, <1>11, <1>12, <2>4
<1>18. p * e <= p * q /\ p * (q + 1) <= p * (e + c) BY <1>7, <1>15, <1>16, <1>17
<1>19. p * (q + 1) = p * q + p /\ p * (e + c) = p * e + p * c BY <1>7, <1>15
<1>20. y <= x /\ x + p <= y + t BY <1>14, <1>15, <1>18, <1>19 DEF x
<1>21. t * r <= b /\ b < t * r + t BY <1>7, <1>9, <1>11, <1>20 DEF x, y
<1>22. b \div t = r BY <1>7, <1>21, Quotient
<1>23. m = Ancestor(b, k)
  <2>1. PICK s \in Nat : s = b \div t /\ Ancestor(b, k) = 2 * (t * s) + t - 1
    BY <1>1, AncestorIs DEF t
  <2>. QED BY <1>4, <1>22, <2>1
<1>24. 2 * b \in Under[m] BY <1>23, UnderIs DEF k
<1>25. n # m => i # k BY <1>2, <1>23
<1>. QED BY <1>1, <1>13, <1>24, <1>25 DEF i, k

\* And the ancestors of one leaf are under one another.
LEMMA Within ==
    ASSUME NEW b \in Nat, NEW i \in Nat, NEW k \in Nat, i <= k,
           Ancestor(b, i) \in Nodes, Ancestor(b, k) \in Nodes
    PROVE  Ancestor(b, i) \in Under[Ancestor(b, k)]
<1>. DEFINE n == Ancestor(b, i)
            m == Ancestor(b, k)
            p == Pow2[i]
            t == Pow2[k]
<1>1. Level[m] = k BY LevelOfAncestor
<1>2. Under[m] = IF k = 0 THEN {m} ELSE (m + 1 - t) .. (m - 1 + t) BY <1>1 DEF Under
<1>3. p \in Nat /\ p >= 1 /\ t \in Nat /\ t >= 1 BY Pow2Type
<1>4. PICK q \in Nat : q = b \div p /\ n = 2 * (p * q) + p - 1 BY AncestorIs
<1>5. PICK r \in Nat : r = b \div t /\ m = 2 * (t * r) + t - 1 BY AncestorIs
<1>6. PICK c \in Nat : c >= 1 /\ t = p * c BY Pow2Divides
<1>. HIDE DEF p, t, n, m
<1>7. p * q <= b /\ b < p * q + p BY <1>3, <1>4, Quotient
<1>8. t * r <= b /\ b < t * r + t BY <1>3, <1>5, Quotient
<1>. DEFINE e == c * r
            x == p * q
            y == t * r
<1>9. e \in Nat /\ t * r = p * e
  <2>1. (p * c) * r = p * (c * r) BY <1>3
  <2>. QED BY <1>6, <2>1
<1>10. x \in Nat /\ y \in Nat BY <1>3
<1>. HIDE DEF e
<1>11. e <= q
  <2>1. SUFFICES ASSUME q + 1 <= e PROVE FALSE BY <1>9
  <2>2. p * (q + 1) <= p * e BY <1>3, <1>9, <2>1
  <2>3. p * (q + 1) = p * q + p BY <1>3
  <2>. QED BY <1>3, <1>7, <1>8, <1>9, <1>10, <2>2, <2>3
<1>12. q + 1 <= e + c
  <2>1. SUFFICES ASSUME e + c <= q PROVE FALSE BY <1>9
  <2>2. p * (e + c) <= p * q BY <1>3, <1>9, <2>1
  <2>3. p * (e + c) = p * e + p * c BY <1>3, <1>9
  <2>. QED BY <1>3, <1>6, <1>7, <1>8, <1>9, <1>10, <2>2, <2>3
<1>13. p * e <= p * q /\ p * (q + 1) <= p * (e + c) BY <1>3, <1>9, <1>11, <1>12
<1>14. p * (q + 1) = p * q + p /\ p * (e + c) = p * e + p * c BY <1>3, <1>9
<1>15. y <= x /\ x + p <= y + t BY <1>6, <1>9, <1>13, <1>14
<1>16. n = 2 * x + p - 1 /\ m = 2 * y + t - 1 BY <1>4, <1>5
<1>. HIDE DEF x, y
<1>17. CASE k # 0
  <2>1. m + 1 - t <= n /\ n <= m - 1 + t BY <1>3, <1>10, <1>15, <1>16
  <2>2. n \in Int /\ m + 1 - t \in Int /\ m - 1 + t \in Int BY <1>3, <1>10, <1>16
  <2>. QED BY <1>2, <1>17, <2>1, <2>2 DEF n, m
<1>18. CASE k = 0
  <2>1. i = k BY <1>18
  <2>. QED BY <1>2, <1>18, <2>1 DEF n, m
<1>. QED BY <1>17, <1>18

-----------------------------------------------------------------------------
(* The least of a set, copaths, and where two paths meet.                   *)

\* Numbers have a least one.
LEMMA Least ==
    ASSUME NEW S, S \subseteq Nat, S # {}
    PROVE  \E l \in S : \A i \in S : l <= i
<1>. DEFINE R == OpToRel(<, Nat)
<1>1. R = {ss \in Nat \X Nat : ss[1] < ss[2]} BY Zenon DEF OpToRel
<1>2. IsWellFoundedOn(R, Nat) BY NatLessThanWellFounded
<1>3. S \in SUBSET Nat OBVIOUS
<1>. HIDE DEF R
<1>4. PICK l \in S : \A y \in S : ~(<<y, l>> \in R) BY <1>2, <1>3, WFMin
<1>5. ASSUME NEW i \in S PROVE l <= i
  <2>1. ~(<<i, l>> \in R) /\ i \in Nat /\ l \in Nat BY <1>4
  <2>2. ~(i < l) BY <1>1, <2>1
  <2>. QED BY <2>1, <2>2
<1>. QED BY <1>5

\* What is under the other side of a step: the leaves that meet the walk there.
LEMMA CopathIs ==
    ASSUME NEW count \in 1 .. MAX_MEMBERS, NEW b \in 0 .. count - 1,
           NEW i \in 1 .. Height(count)
    PROVE  /\ i - 1 \in Nat
           /\ Copath[LeafToNode(b)][count][i] \in Nodes
           /\ \A a \in Nat : 2 * a \in Under[Copath[LeafToNode(b)][count][i]] <=>
                                /\ a \div Pow2[i] = b \div Pow2[i]
                                /\ a \div Pow2[i - 1] # b \div Pow2[i - 1]
<1>1. Height(count) \in Nat BY RootIs
<1>2. i - 1 \in Nat /\ i - 1 + 1 = i /\ i \in 0 .. Height(count) BY <1>1
<1>3. Pow2[i - 1 + 1] <= MAX_MEMBERS BY <1>2, WithinHeight
<1>4. b \in Leaves BY WidestIs
<1>5. Copath[LeafToNode(b)][count] = [j \in 1 .. Height(count) |-> Sibling[Ancestor(b, j - 1)]]
  BY PathIs
<1>6. Copath[LeafToNode(b)][count][i] = Sibling[Ancestor(b, i - 1)] BY <1>5
<1>7. /\ Sibling[Ancestor(b, i - 1)] \in Nodes
      /\ \A a \in Nat : 2 * a \in Under[Sibling[Ancestor(b, i - 1)]] <=>
                           /\ a \div Pow2[i - 1 + 1] = b \div Pow2[i - 1 + 1]
                           /\ a \div Pow2[i - 1] # b \div Pow2[i - 1]
  BY <1>2, <1>3, <1>4, SiblingIs
<1>8. Pow2[i - 1 + 1] = Pow2[i] BY <1>2
<1>. QED BY <1>2, <1>6, <1>7, <1>8

\* A node of the array above a leaf is on its walk, at its level.
LEMMA OnPath ==
    ASSUME NEW count \in 1 .. MAX_MEMBERS, NEW b \in 0 .. count - 1,
           NEW n \in Nodes, 2 * b \in Under[n], ~IsLeaf(n), n < NodeWidth(count)
    PROVE  /\ Level[n] \in 1 .. Height(count)
           /\ n = Ancestor(b, Level[n])
           /\ DirectPath[LeafToNode(b)][count][Level[n]] = n
           /\ n \in ToSet(DirectPath[LeafToNode(b)][count])
<1>. DEFINE k == Level[n]
            h == Height(count)
<1>1. k \in Nat /\ k # 0 BY LevelIs, LeavesAre
<1>2. n = Ancestor(b, k) BY UnderIs
<1>3. PICK q \in Nat : n = 2 * (Pow2[k] * q) + Pow2[k] - 1 BY <1>1, LevelIs
<1>4. h \in Nat /\ 2 * count - 1 < Pow2[h + 1] BY RootIs
<1>5. Pow2[k] \in Nat /\ Pow2[k] * q \in Nat BY <1>1, Pow2Type
<1>. HIDE DEF k, h
<1>6. Pow2[k] <= 2 * count - 1
  <2>. DEFINE x == Pow2[k] * q
              y == Pow2[k]
  <2>1. x \in Nat /\ y \in Nat /\ n = 2 * x + y - 1 BY <1>3, <1>5
  <2>2. n < 2 * count - 1 BY DEF NodeWidth
  <2>. HIDE DEF x, y
  <2>3. y <= 2 * count - 1 BY <2>1, <2>2
  <2>. QED BY <2>3 DEF y
<1>7. k <= h
  <2>1. SUFFICES ASSUME h + 1 <= k PROVE FALSE BY <1>1, <1>4
  <2>2. h + 1 \in Nat BY <1>4
  <2>3. h + 1 = k \/ Pow2[h + 1] < Pow2[k] BY <1>1, <2>1, <2>2, Pow2Grows
  <2>4. Pow2[h + 1] \in Nat BY <2>2, Pow2Type
  <2>. QED BY <1>4, <1>5, <1>6, <2>3, <2>4
<1>8. k \in 1 .. h BY <1>1, <1>4, <1>7
<1>9. DirectPath[LeafToNode(b)][count] = [i \in 1 .. h |-> Ancestor(b, i)] BY PathIs DEF h
<1>10. DirectPath[LeafToNode(b)][count][k] = n BY <1>2, <1>8, <1>9
<1>11. k \in DOMAIN DirectPath[LeafToNode(b)][count] BY <1>8, <1>9
<1>12. n \in ToSet(DirectPath[LeafToNode(b)][count]) BY <1>10, <1>11 DEF ToSet
<1>. QED BY <1>2, <1>8, <1>10, <1>12 DEF k, h

\* Doubled, and shifted once more.
LEMMA Doubled ==
    ASSUME NEW a \in Nat, NEW j \in Nat
    PROVE  (2 * a) \div Pow2[j + 1] = a \div Pow2[j]
<1>. DEFINE p == Pow2[j]
            q == a \div p
<1>1. p \in Nat /\ p >= 1 BY Pow2Type
<1>2. Pow2[j + 1] = 2 * p BY Pow2Is
<1>3. q \in Nat BY Halved
<1>. HIDE DEF p, q
<1>4. p * q <= a /\ a < p * q + p BY <1>1, <1>3, Quotient DEF q
<1>5. (2 * p) * q = 2 * (p * q) /\ p * q \in Nat BY <1>1, <1>3
<1>. DEFINE x == p * q
            y == (2 * p) * q
<1>6. x \in Nat /\ y = 2 * x /\ x <= a /\ a < x + p BY <1>4, <1>5
<1>. HIDE DEF x, y
<1>7. y <= 2 * a /\ 2 * a < y + 2 * p BY <1>1, <1>6
<1>8. 2 * a \in Nat /\ 2 * p \in Nat /\ 2 * p >= 1 BY <1>1
<1>9. (2 * p) * q <= 2 * a /\ 2 * a < (2 * p) * q + 2 * p BY <1>7 DEF y
<1>10. (2 * a) \div (2 * p) = q BY <1>3, <1>8, <1>9, Quotient
<1>. QED BY <1>2, <1>10 DEF q, p

\* Two leaves meet on the walk of each, at the level where they part below.
LEMMA Overlap ==
    ASSUME NEW count \in 1 .. MAX_MEMBERS, NEW a \in 0 .. count - 1, NEW b \in 0 .. count - 1,
           a # b
    PROVE  \E j \in 1 .. Height(count) :
              /\ CommonAncestor(LeafToNode(a), LeafToNode(b)) = Ancestor(a, j)
              /\ a \div Pow2[j] = b \div Pow2[j]
              /\ a \div Pow2[j - 1] # b \div Pow2[j - 1]
<1>. DEFINE h == Height(count)
            T == {k \in Nat : a \div Pow2[k] = b \div Pow2[k]}
            Meet(j) == /\ (2 * a) \div Pow2[j] = (2 * b) \div Pow2[j]
                       /\ (2 * a) \div Pow2[j - 1] # (2 * b) \div Pow2[j - 1]
            k == CHOOSE j \in 1 .. 2 * a + 2 * b : Meet(j)
<1>1. h \in Nat BY RootIs
<1>2. h \in T BY <1>1, AboveRoot
<1>3. PICK l \in T : \A i \in T : l <= i
  <2>1. T \subseteq Nat /\ T # {} BY <1>2
  <2>. QED BY <2>1, Least
<1>4. l # 0
  <2>1. a \div 1 = a /\ b \div 1 = b OBVIOUS
  <2>. QED BY <2>1, Pow2Is
<1>5. l - 1 \in Nat /\ l - 1 \notin T BY <1>3, <1>4
<1>6. a \div Pow2[l - 1] # b \div Pow2[l - 1] BY <1>5
<1>7. a >= Pow2[l - 1] \/ b >= Pow2[l - 1]
  <2>1. SUFFICES ASSUME a < Pow2[l - 1], b < Pow2[l - 1] PROVE FALSE BY <1>5, Pow2Type
  <2>2. Pow2[l - 1] \in Nat /\ Pow2[l - 1] >= 1 BY <1>5, Pow2Type
  <2>3. Pow2[l - 1] * 0 = 0 BY <2>2
  <2>4. a \div Pow2[l - 1] = 0 /\ b \div Pow2[l - 1] = 0 BY <2>1, <2>2, <2>3, Quotient
  <2>. QED BY <1>6, <2>4
<1>8. Pow2[l - 1] > l - 1 BY <1>5, Pow2Type
<1>9. l + 1 \in 1 .. 2 * a + 2 * b BY <1>4, <1>5, <1>7, <1>8, Pow2Type
<1>10. Meet(l + 1)
  <2>1. (2 * a) \div Pow2[l + 1] = a \div Pow2[l] /\ (2 * b) \div Pow2[l + 1] = b \div Pow2[l]
    BY Doubled
  <2>2. l - 1 + 1 = l /\ l + 1 - 1 = l BY <1>4
  <2>3. (2 * a) \div Pow2[l - 1 + 1] = a \div Pow2[l - 1] BY <1>5, Doubled
  <2>4. (2 * b) \div Pow2[l - 1 + 1] = b \div Pow2[l - 1] BY <1>5, Doubled
  <2>. QED BY <1>6, <2>1, <2>2, <2>3, <2>4
<1>. HIDE DEF Meet
<1>11. k \in 1 .. 2 * a + 2 * b /\ Meet(k) BY <1>9, <1>10
<1>12. CommonAncestor(LeafToNode(a), LeafToNode(b)) =
         ((2 * a) \div Pow2[k]) * Pow2[k] + Pow2[k - 1] - 1
  <2>1. 2 * a # 2 * b OBVIOUS
  <2>. QED BY Zenon, <2>1 DEF CommonAncestor, LeafToNode, Meet
<1>. HIDE DEF k
<1>13. k \in Nat /\ k >= 1 BY <1>11
<1>14. k # 1
  <2>1. Pow2[1] = 2
    <3>1. Pow2[0 + 1] = 2 * Pow2[0] BY Pow2Is
    <3>. QED BY <3>1, Pow2Is
  <2>2. (2 * a) \div 2 = a /\ (2 * b) \div 2 = b OBVIOUS
  <2>. QED BY <1>11, <2>1, <2>2 DEF Meet
<1>. DEFINE j == k - 1
<1>15. j \in Nat /\ j # 0 /\ j + 1 = k /\ j - 1 \in Nat /\ j - 1 + 1 = j BY <1>13, <1>14
<1>16. (2 * a) \div Pow2[k] = a \div Pow2[j] /\ (2 * b) \div Pow2[k] = b \div Pow2[j]
  BY <1>15, Doubled
<1>17. (2 * a) \div Pow2[j] = a \div Pow2[j - 1] /\ (2 * b) \div Pow2[j] = b \div Pow2[j - 1]
  <2>1. (2 * a) \div Pow2[j - 1 + 1] = a \div Pow2[j - 1] BY <1>15, Doubled
  <2>2. (2 * b) \div Pow2[j - 1 + 1] = b \div Pow2[j - 1] BY <1>15, Doubled
  <2>. QED BY <1>15, <2>1, <2>2
<1>18. a \div Pow2[j] = b \div Pow2[j] /\ a \div Pow2[j - 1] # b \div Pow2[j - 1]
  BY <1>11, <1>16, <1>17 DEF Meet
<1>19. j - 1 < h
  <2>1. SUFFICES ASSUME h <= j - 1 PROVE FALSE BY <1>1, <1>15
  <2>2. a \div Pow2[j - 1] = 0 /\ b \div Pow2[j - 1] = 0 BY <1>15, <2>1, AboveRoot
  <2>. QED BY <1>18, <2>2
<1>20. j \in 1 .. h BY <1>1, <1>15, <1>19
<1>21. CommonAncestor(LeafToNode(a), LeafToNode(b)) = Ancestor(a, j)
  BY <1>12, <1>15, <1>16 DEF Ancestor
<1>. QED BY <1>18, <1>20, <1>21

\* All that hangs beside a walk is of the tree, whatever the width of the array.
LEMMA BesideIs ==
    ASSUME NEW count \in 1 .. MAX_MEMBERS, NEW b \in 0 .. count - 1,
           NEW i \in 1 .. Height(count)
    PROVE  Under[Copath[LeafToNode(b)][count][i]] \subseteq Nodes
<1>. DEFINE s == Copath[LeafToNode(b)][count][i]
<1>1. i \in Nat /\ Pow2[i] <= MAX_MEMBERS
  <2>1. Height(count) \in Nat BY RootIs
  <2>2. i \in 0 .. Height(count) BY <2>1
  <2>. QED BY <2>2, WithinHeight
<1>2. PICK k \in Nat : MAX_MEMBERS = Pow2[k] BY WidestIs
<1>3. i <= k
  <2>1. SUFFICES ASSUME k < i PROVE FALSE BY <1>1, <1>2
  <2>2. Pow2[k] < Pow2[i] BY <1>1, <1>2, <2>1, Pow2Grows
  <2>. QED BY <1>1, <1>2, <2>2, Pow2Type
<1>4. s \in Nodes BY CopathIs
<1>5. b \in Nat /\ b < MAX_MEMBERS BY WidestIs
<1>6. ASSUME NEW m \in Under[s] PROVE m \in Nodes
  <2>1. m \in Nat /\ \E a \in Nat : 2 * a \in Under[s] /\ m <= 2 * a BY <1>4, <1>6, LastUnder
  <2>2. PICK a \in Nat : 2 * a \in Under[s] /\ m <= 2 * a BY <2>1
  <2>3. a \div Pow2[i] = b \div Pow2[i] BY <2>2, CopathIs
  <2>4. a \div Pow2[k] = b \div Pow2[k] BY <1>1, <1>2, <1>3, <1>5, <2>3, SharedAbove
  <2>5. Pow2[k] \in Nat /\ Pow2[k] >= 1 /\ Pow2[k] * 0 = 0 BY <1>2, Pow2Type
  <2>6. b \div Pow2[k] = 0 BY <1>2, <1>5, <2>5, Quotient
  <2>7. a < MAX_MEMBERS BY <1>2, <2>4, <2>5, <2>6, Quotient
  <2>. QED BY <2>1, <2>2, <2>7, WidestIs
<1>. QED BY <1>6

\* What is under a node begins with a leaf.
LEMMA FirstUnder ==
    ASSUME NEW n \in Nodes, NEW m \in Under[n]
    PROVE  m \in Nat /\ \E a \in Nat : 2 * a \in Under[n] /\ 2 * a <= m
<1>. DEFINE k == Level[n]
            p == Pow2[k]
<1>0. n \in Nat BY WidestIs
<1>1. k \in Nat BY LevelIs
<1>2. PICK q \in Nat : n = 2 * (p * q) + p - 1 BY <1>1, LevelIs
<1>. HIDE DEF k
<1>3. p \in Nat /\ p >= 1 BY <1>1, Pow2Type
<1>4. Under[n] = IF k = 0 THEN {n} ELSE (n + 1 - p) .. (n - 1 + p) BY DEF Under, k
<1>5. k = 0 => p = 1 BY Pow2Is
<1>6. p * q \in Nat BY <1>3
<1>. DEFINE x == p * q
<1>. HIDE DEF p, x
<1>7. x \in Nat /\ n = 2 * x + p - 1 BY <1>2, <1>6 DEF x
<1>8. CASE k = 0
  <2>1. p = 1 /\ n = 2 * x BY <1>3, <1>5, <1>7, <1>8
  <2>. QED BY <1>0, <1>4, <1>7, <1>8, <2>1
<1>9. CASE k # 0
  <2>1. m \in (n + 1 - p) .. (n - 1 + p) BY <1>4, <1>9
  <2>2. 2 * x = n + 1 - p BY <1>3, <1>7
  <2>3. m \in Nat /\ 2 * x <= m BY <1>0, <1>3, <1>7, <2>1, <2>2
  <2>4. 2 * x \in Under[n] BY <1>0, <1>3, <1>4, <1>7, <1>9, <2>2
  <2>. QED BY <1>7, <2>3, <2>4
<1>. QED BY <1>8, <1>9

\* A step of the walk that has something of the array beside it is in the array.
LEMMA Reaches ==
    ASSUME NEW count \in 1 .. MAX_MEMBERS, NEW b \in 0 .. count - 1,
           NEW i \in 1 .. Height(count),
           NEW m \in Under[Copath[LeafToNode(b)][count][i]], m < NodeWidth(count)
    PROVE  Ancestor(b, i) < NodeWidth(count)
<1>. DEFINE s == Copath[LeafToNode(b)][count][i]
            p == Pow2[i - 1]
<1>1. s \in Nodes /\ i - 1 \in Nat BY CopathIs
<1>2. m \in Nat /\ \E x \in Nat : 2 * x \in Under[s] /\ 2 * x <= m BY <1>1, FirstUnder
<1>3. PICK x \in Nat : 2 * x \in Under[s] /\ 2 * x <= m BY <1>2
<1>4. x \div Pow2[i] = b \div Pow2[i] /\ x \div p # b \div p BY <1>3, CopathIs
<1>5. b \in Nat /\ count \in Nat /\ b <= count - 1 BY WidestIs
<1>6. i \in Nat /\ i - 1 + 1 = i
  <2>1. Height(count) \in Nat BY RootIs
  <2>. QED BY <2>1
<1>7. p \in Nat /\ p >= 1 /\ Pow2[i] = 2 * p
  <2>1. Pow2[i - 1 + 1] = 2 * Pow2[i - 1] BY <1>1, Pow2Is
  <2>. QED BY <1>1, <1>6, <2>1, Pow2Type
<1>8. PICK q \in Nat : q = b \div Pow2[i] /\ Ancestor(b, i) = 2 * (Pow2[i] * q) + Pow2[i] - 1
  BY <1>5, <1>6, AncestorIs
<1>9. /\ x \div p \in Nat /\ b \div p \in Nat
      /\ q = (x \div p) \div 2 /\ q = (b \div p) \div 2
  <2>1. x \div Pow2[i - 1 + 1] = (x \div p) \div 2 BY <1>1, Halved
  <2>2. b \div Pow2[i - 1 + 1] = (b \div p) \div 2 BY <1>1, <1>5, Halved
  <2>. QED BY <1>1, <1>4, <1>5, <1>6, <1>8, <2>1, <2>2, Halved
<1>. DEFINE u == x \div p
            v == b \div p
<1>10. u \in Nat /\ v \in Nat /\ q = u \div 2 /\ q = v \div 2 /\ u # v BY <1>4, <1>9
<1>11. p * u <= x /\ p * v <= b
  <2>1. u \in Nat /\ v \in Nat /\ x \div p = u /\ b \div p = v BY <1>9
  <2>. HIDE DEF p, u, v
  <2>. QED BY <1>5, <1>7, <2>1, Quotient
<1>. HIDE DEF p, u, v
<1>12. u = 2 * q + 1 \/ v = 2 * q + 1 BY <1>10
<1>13. p * (2 * q + 1) <= x \/ p * (2 * q + 1) <= b BY <1>7, <1>11, <1>12
<1>. DEFINE y == p * q
<1>14. y \in Nat /\ p * (2 * q + 1) = 2 * y + p /\ (2 * p) * q = 2 * y BY <1>7
<1>15. Ancestor(b, i) = 2 * (2 * y) + 2 * p - 1 BY <1>7, <1>8, <1>14
<1>. HIDE DEF y
<1>16. 2 * y + p <= x \/ 2 * y + p <= b BY <1>13, <1>14
<1>17. NodeWidth(count) = 2 * count - 1 BY <1>5 DEF NodeWidth
<1>. QED BY <1>2, <1>3, <1>5, <1>7, <1>14, <1>15, <1>16, <1>17

-----------------------------------------------------------------------------
(* Sets of numbers in order, and what covers what.                          *)

\* How many members of a set are less.
Below(S, x) == {y \in S : y < x}

\* How many are below a member of a set tells it from the others, and is less than them all.
LEMMA RankIs ==
    ASSUME NEW S, S \subseteq Nat, IsFiniteSet(S), NEW x \in S
    PROVE  /\ Cardinality(Below(S, x)) \in Nat
           /\ Cardinality(Below(S, x)) < Cardinality(S)
           /\ \A y \in S : x < y => Cardinality(Below(S, x)) < Cardinality(Below(S, y))
<1>0. \A y \in S : y \in Nat OBVIOUS
<1>1. ASSUME NEW T, T \subseteq S, Below(S, x) \subseteq T, x \in T
      PROVE  /\ Cardinality(T) \in Nat /\ Cardinality(Below(S, x)) \in Nat
             /\ Cardinality(Below(S, x)) < Cardinality(T)
  <2>1. IsFiniteSet(T) /\ T \in SUBSET S BY <1>1, FS_Subset
  <2>2. Below(S, x) \in SUBSET T /\ x \notin Below(S, x) BY <1>0, <1>1 DEF Below
  <2>3. IsFiniteSet(Below(S, x)) /\ Cardinality(Below(S, x)) <= Cardinality(T)
        /\ (Cardinality(T) = Cardinality(Below(S, x)) => T = Below(S, x))
    BY <2>1, <2>2, FS_Subset
  <2>4. T # Below(S, x) BY <1>1, <2>2
  <2>5. Cardinality(T) \in Nat /\ Cardinality(Below(S, x)) \in Nat
    BY <2>1, <2>3, FS_CardinalityType
  <2>. QED BY <2>3, <2>4, <2>5
<1>2. Below(S, x) \subseteq S BY DEF Below
<1>3. /\ Cardinality(Below(S, x)) \in Nat
      /\ Cardinality(Below(S, x)) < Cardinality(S) BY <1>1, <1>2
<1>4. ASSUME NEW y \in S, x < y PROVE Cardinality(Below(S, x)) < Cardinality(Below(S, y))
  <2>1. Below(S, y) \subseteq S /\ Below(S, x) \subseteq Below(S, y) /\ x \in Below(S, y)
    <3>1. ASSUME NEW z \in S, z < x PROVE z < y
      <4>1. z \in Nat /\ x \in Nat /\ y \in Nat BY <1>0
      <4>. QED BY <1>4, <3>1, <4>1
    <3>. QED BY <1>4, <3>1 DEF Below
  <2>. QED BY <1>1, <2>1
<1>. QED BY <1>3, <1>4

\* There is somebody of every rank.
LEMMA EveryRank ==
    ASSUME NEW S, S \subseteq Nat, IsFiniteSet(S), NEW k \in 1 .. Cardinality(S)
    PROVE  \E x \in S : Cardinality(Below(S, x)) = k - 1
<1>. DEFINE n == Cardinality(S)
            T == {i \in Nat : \E x \in S : Cardinality(Below(S, x)) = i}
<1>0. \A y \in S : y \in Nat OBVIOUS
<1>1. n \in Nat /\ n >= 1 BY FS_CardinalityType
<1>2. S # {} BY <1>1, FS_EmptySet
<1>3. 0 \in T
  <2>1. PICK x \in S : \A y \in S : x <= y BY <1>2, Least
  <2>2. Below(S, x) = {}
    <3>1. ASSUME NEW y \in S PROVE ~(y < x)
      <4>1. x <= y /\ x \in Nat /\ y \in Nat BY <1>0, <2>1
      <4>. QED BY <4>1
    <3>. QED BY <3>1 DEF Below
  <2>. QED BY <2>2, FS_EmptySet
<1>4. ASSUME NEW i \in 0 .. n - 1 - 1, i \in T PROVE i + 1 \in T
  <2>1. PICK x \in S : Cardinality(Below(S, x)) = i BY <1>4
  <2>. DEFINE U == Below(S, x) \union {x}
  <2>2. IsFiniteSet(Below(S, x)) /\ x \notin Below(S, x)
    <3>1. Below(S, x) \in SUBSET S BY DEF Below
    <3>2. x \notin Below(S, x) BY <1>0 DEF Below
    <3>. QED BY <3>1, <3>2, FS_Subset
  <2>3. Cardinality(U) = i + 1 BY <2>1, <2>2, FS_AddElement
  <2>4. U # S BY <1>1, <1>4, <2>3
  <2>5. U \subseteq S BY DEF Below
  <2>6. {y \in S : x < y} # {} /\ {y \in S : x < y} \subseteq Nat
    <3>1. PICK y \in S : y \notin U BY <2>4, <2>5
    <3>2. x < y BY <1>0, <3>1 DEF Below
    <3>. QED BY <3>2
  <2>7. PICK z \in {y \in S : x < y} : \A y \in {v \in S : x < v} : z <= y BY <2>6, Least
  <2>8. Below(S, z) = U
    <3>1. ASSUME NEW y \in S PROVE y < z <=> (y < x \/ y = x)
      <4>1. x < z /\ x \in Nat /\ y \in Nat /\ z \in Nat BY <1>0, <2>7
      <4>2. x < y => z <= y BY <2>7
      <4>. QED BY <4>1, <4>2
    <3>. QED BY <3>1 DEF Below
  <2>9. i + 1 \in Nat BY <1>4
  <2>. QED BY <2>3, <2>7, <2>8, <2>9
<1>5. n - 1 \in Nat /\ k - 1 \in 0 .. n - 1 BY <1>1
<1>6. \A i \in 0 .. n - 1 : i \in T
  <2>. HIDE DEF T
  <2>. QED BY <1>3, <1>4, <1>5, CountingUp
<1>. QED BY <1>5, <1>6

\* The enumeration holds the set, each member once and after what is less.
LEMMA InOrderIs ==
    ASSUME NEW S, S \subseteq Nat, IsFiniteSet(S)
    PROVE  /\ Cardinality(S) \in Nat
           /\ DOMAIN InOrder(S) = 1 .. Cardinality(S)
           /\ InOrder(S) \in Seq(S)
           /\ Len(InOrder(S)) = Cardinality(S)
           /\ \A x \in S : \E k \in 1 .. Cardinality(S) : InOrder(S)[k] = x
           /\ \A i, j \in 1 .. Cardinality(S) :
                 /\ InOrder(S)[i] \in S
                 /\ InOrder(S)[i] = InOrder(S)[j] => i = j
                 /\ i < j => InOrder(S)[i] < InOrder(S)[j]
<1>. DEFINE n == Cardinality(S)
            f == InOrder(S)
<1>0. \A y \in S : y \in Nat OBVIOUS
<1>1. n \in Nat BY FS_CardinalityType
<1>2. f = [k \in 1 .. n |-> CHOOSE x \in S : Cardinality(Below(S, x)) = k - 1]
  BY Zenon DEF InOrder, Below
<1>3. ASSUME NEW k \in 1 .. n PROVE f[k] \in S /\ Cardinality(Below(S, f[k])) = k - 1
  <2>1. \E x \in S : Cardinality(Below(S, x)) = k - 1 BY EveryRank
  <2>2. f[k] = CHOOSE x \in S : Cardinality(Below(S, x)) = k - 1 BY <1>2
  <2>. HIDE DEF f
  <2>. QED BY Zenon, <2>1, <2>2
<1>4. DOMAIN f = 1 .. n BY <1>2
<1>. HIDE DEF f
<1>5. ASSUME NEW x \in S PROVE \E k \in 1 .. n : f[k] = x
  <2>. DEFINE k == Cardinality(Below(S, x)) + 1
  <2>0. Cardinality(Below(S, x)) \in Nat /\ Cardinality(Below(S, x)) < n BY RankIs
  <2>1. k \in 1 .. n /\ k - 1 = Cardinality(Below(S, x)) BY <1>1, <2>0
  <2>. HIDE DEF k
  <2>2. f[k] \in S /\ Cardinality(Below(S, f[k])) = Cardinality(Below(S, x)) BY <1>3, <2>1
  <2>. DEFINE z == f[k]
  <2>. HIDE DEF z
  <2>21. z \in S /\ Cardinality(Below(S, z)) = Cardinality(Below(S, x)) BY <2>2 DEF z
  <2>22. x < z => Cardinality(Below(S, x)) < Cardinality(Below(S, z)) BY <2>21, RankIs
  <2>23. z < x => Cardinality(Below(S, z)) < Cardinality(Below(S, x)) BY <2>21, RankIs
  <2>3. ~(x < f[k]) /\ ~(f[k] < x) BY <2>0, <2>21, <2>22, <2>23 DEF z
  <2>4. x \in Nat /\ f[k] \in Nat BY <1>0, <2>2
  <2>5. f[k] = x BY <2>3, <2>4
  <2>. QED BY <2>1, <2>5
<1>6. ASSUME NEW i \in 1 .. n, NEW j \in 1 .. n PROVE f[i] = f[j] => i = j
  BY <1>3
<1>7. ASSUME NEW i \in 1 .. n, NEW j \in 1 .. n, i < j PROVE f[i] < f[j]
  <2>0. f[i] \in Nat /\ f[j] \in Nat /\ f[i] \in S /\ f[j] \in S BY <1>0, <1>3
  <2>1. SUFFICES ASSUME f[j] <= f[i] PROVE FALSE BY <2>0
  <2>3. f[j] # f[i] BY <1>6, <1>7
  <2>2. f[j] < f[i] BY <2>0, <2>1, <2>3
  <2>4. Cardinality(Below(S, f[j])) < Cardinality(Below(S, f[i])) BY <2>0, <2>2, RankIs
  <2>5. j - 1 < i - 1 BY <1>3, <2>4
  <2>. QED BY <1>1, <1>7, <2>5
<1>8. f = [k \in 1 .. n |-> f[k]]
  <2>1. InOrder(S) = [k \in 1 .. n |-> InOrder(S)[k]] BY <1>2 DEF f
  <2>. QED BY <2>1 DEF f
<1>9. f \in Seq(S) /\ Len(f) = n
  <2>1. f \in [1 .. n -> S] BY <1>3, <1>8
  <2>. QED BY <1>1, <1>4, <2>1
<1>. QED BY <1>1, <1>3, <1>4, <1>5, <1>6, <1>7, <1>9 DEF f

\* Sequences one after the other hold what each of them holds.
LEMMA Flattened ==
    ASSUME NEW S, NEW seqs \in Seq(Seq(S))
    PROVE  /\ FlattenSeq(seqs) \in Seq(S)
           /\ \A i \in 1 .. Len(seqs) : \A j \in 1 .. Len(seqs[i]) :
                 \E k \in 1 .. Len(FlattenSeq(seqs)) : FlattenSeq(seqs)[k] = seqs[i][j]
<1>. DEFINE n == Len(seqs)
            Then(e, i) == e \o seqs[i]
            Is(f, m) == f = [i \in 1 .. m |-> IF i = 1 THEN seqs[i] ELSE Then(f[i - 1], i)]
            T == {m \in Nat : \E f : Is(f, m + 1)}
            flat == CHOOSE f : Is(f, n)
<1>0. n \in Nat /\ \A i \in 1 .. n : seqs[i] \in Seq(S) OBVIOUS
<1>1. CASE n = 0
  <2>1. FlattenSeq(seqs) = seqs BY <1>1 DEF FlattenSeq
  <2>2. seqs = <<>> BY <1>1
  <2>. QED BY <1>1, <2>1, <2>2
<1>2. CASE n # 0
  <2>1. FlattenSeq(seqs) = flat[n] BY Zenon, <1>2 DEF FlattenSeq
  <2>. HIDE DEF n, Then
  <2>2. 0 \in T
    <3>. DEFINE f == [i \in 1 .. 0 + 1 |-> seqs[i]]
    <3>1. \A i \in 1 .. 0 + 1 : f[i] = IF i = 1 THEN seqs[i] ELSE f[i - 1] \o seqs[i] OBVIOUS
    <3>2. f = [i \in 1 .. 0 + 1 |-> f[i]] OBVIOUS
    <3>. HIDE DEF f
    <3>3. Is(f, 0 + 1) BY <3>1, <3>2
    <3>. QED BY <3>3
  <2>3. ASSUME NEW m \in 0 .. (n - 1) - 1, m \in T PROVE m + 1 \in T
    <3>1. PICK g : Is(g, m + 1) BY <2>3
    <3>2. m \in Nat /\ \A i \in 1 .. m + 1 : g[i] = IF i = 1 THEN seqs[i] ELSE Then(g[i - 1], i)
      BY <3>1
    <3>. DEFINE f == [i \in 1 .. (m + 1) + 1 |-> IF i = m + 2 THEN Then(g[m + 1], i) ELSE g[i]]
    <3>3. \A i \in 1 .. (m + 1) + 1 : f[i] = IF i = 1 THEN seqs[i] ELSE Then(f[i - 1], i)
      <4>. TAKE i \in 1 .. (m + 1) + 1
      <4>1. CASE i = m + 2
        <5>1. f[i] = Then(g[m + 1], i) /\ f[i - 1] = g[m + 1] /\ i # 1 BY <3>2, <4>1
        <5>. QED BY <5>1
      <4>2. CASE i # m + 2
        <5>1. i \in 1 .. m + 1 /\ f[i] = g[i] BY <3>2, <4>2
        <5>2. i # 1 => i - 1 \in 1 .. m + 1 /\ f[i - 1] = g[i - 1] BY <3>2, <5>1
        <5>. QED BY <3>2, <5>1, <5>2
      <4>. QED BY <4>1, <4>2
    <3>4. f = [i \in 1 .. (m + 1) + 1 |-> f[i]] OBVIOUS
    <3>. HIDE DEF f
    <3>5. Is(f, (m + 1) + 1) BY <3>3, <3>4
    <3>. QED BY <3>2, <3>5
  <2>4. n - 1 \in Nat /\ n - 1 + 1 = n BY <1>0, <1>2
  <2>5. n - 1 \in T
    <3>. HIDE DEF T
    <3>1. \A m \in 0 .. n - 1 : m \in T BY <2>2, <2>3, <2>4, CountingUp
    <3>. QED BY <2>4, <3>1
  <2>6. Is(flat, n)
    <3>1. \E f : Is(f, n) BY <2>4, <2>5
    <3>. HIDE DEF Is
    <3>. QED BY <3>1, Zenon
  <2>. HIDE DEF flat
  <2>7. flat[1] = seqs[1] /\ \A i \in 1 .. n : i # 1 => flat[i] = Then(flat[i - 1], i)
    BY <2>4, <2>6
  <2>. DEFINE Holds(m) == /\ flat[m] \in Seq(S)
                          /\ \A i \in 1 .. m : \A j \in 1 .. Len(seqs[i]) :
                                \E k \in 1 .. Len(flat[m]) : flat[m][k] = seqs[i][j]
              U == {m \in Nat : Holds(m + 1)}
  <2>8. 0 \in U
    <3>1. 1 \in 1 .. n BY <2>4
    <3>2. flat[1] \in Seq(S) BY <1>0, <2>7, <3>1
    <3>3. Holds(1) BY <2>7, <3>2
    <3>4. Holds(0 + 1) BY <3>3
    <3>. HIDE DEF Holds
    <3>. QED BY <3>4
  <2>9. ASSUME NEW m \in 0 .. (n - 1) - 1, m \in U PROVE m + 1 \in U
    <3>1. m \in Nat /\ m + 1 \in Nat /\ (m + 1) + 1 = m + 2 /\ m + 2 \in 1 .. n /\ m + 2 # 1
          /\ m + 2 - 1 = m + 1 BY <2>4
    <3>. DEFINE e == flat[m + 1]
                s == seqs[m + 2]
                g == flat[m + 2]
    <3>19. \A i \in 1 .. n : i # 1 => flat[i] = Then(flat[i - 1], i) BY <2>7
    <3>. HIDE DEF Then
    <3>20. flat[m + 2] = Then(flat[m + 2 - 1], m + 2) BY <3>1, <3>19
    <3>21. flat[m + 2] = Then(flat[m + 1], m + 2) BY <3>1, <3>20
    <3>2. g = e \o s BY Zenon, <3>21 DEF Then
    <3>3. Holds(m + 1) BY <2>9
    <3>4. e \in Seq(S) /\ s \in Seq(S) BY <1>0, <3>1, <3>3
    <3>5. \A i \in 1 .. m + 1 : \A j \in 1 .. Len(seqs[i]) :
             \E k \in 1 .. Len(e) : e[k] = seqs[i][j] BY <3>3
    <3>. HIDE DEF e, g, Holds
    <3>6. /\ g \in Seq(S) /\ Len(g) = Len(e) + Len(s) /\ Len(e) \in Nat /\ Len(s) \in Nat
          /\ \A k \in 1 .. Len(e) : g[k] = e[k]
          /\ \A k \in 1 .. Len(s) : g[Len(e) + k] = s[k] BY <3>2, <3>4
    <3>7. ASSUME NEW i \in 1 .. m + 2, NEW j \in 1 .. Len(seqs[i])
          PROVE  \E k \in 1 .. Len(g) : g[k] = seqs[i][j]
      <4>1. CASE i = m + 2
        <5>1. Len(e) + j \in 1 .. Len(g) /\ g[Len(e) + j] = seqs[i][j] BY <3>6, <4>1
        <5>. QED BY <5>1
      <4>2. CASE i # m + 2
        <5>1. i \in 1 .. m + 1 BY <3>1, <4>2
        <5>2. PICK k \in 1 .. Len(e) : e[k] = seqs[i][j] BY <3>5, <5>1
        <5>. QED BY <3>6, <5>2
      <4>. QED BY <4>1, <4>2
    <3>8. Holds(m + 2) BY <3>6, <3>7 DEF Holds, g
    <3>. QED BY <3>1, <3>8
  <2>10. n - 1 \in U
    <3>. HIDE DEF U
    <3>1. \A m \in 0 .. n - 1 : m \in U BY <2>4, <2>8, <2>9, CountingUp
    <3>. QED BY <2>4, <3>1
  <2>11. Holds(n) BY <2>4, <2>10
  <2>. QED BY <2>1, <2>11 DEF n
<1>. QED BY <1>1, <1>2

\* The lists of a tree name leaves.
ListsLeaves(t) == \A n \in Nodes : t.parent[n] # Blank => t.parent[n].unmerged \subseteq Leaves

\* What stands for a node in a resolution: the node, and the leaves it lists.
LEMMA EntryIs ==
    ASSUME NEW t, ListsLeaves(t), NEW n \in Nodes, IsLeaf(n) \/ t.parent[n] # Blank
    PROVE  /\ Entry(t, n) \in Seq(Nodes)
           /\ \E j \in 1 .. Len(Entry(t, n)) : Entry(t, n)[j] = n
           /\ ~IsLeaf(n) => \A i \in t.parent[n].unmerged :
                               \E j \in 1 .. Len(Entry(t, n)) : Entry(t, n)[j] = LeafToNode(i)
<1>1. CASE IsLeaf(n)
  <2>1. Entry(t, n) = <<n>> BY <1>1 DEF Entry
  <2>2. Len(Entry(t, n)) = 1 /\ Entry(t, n)[1] = n BY <2>1
  <2>. QED BY <1>1, <2>1, <2>2
<1>2. CASE ~IsLeaf(n)
  <2>. DEFINE U == t.parent[n].unmerged
              S == {LeafToNode(i) : i \in U}
              s == InOrder(S)
  <2>1. U \subseteq Leaves BY <1>2 DEF ListsLeaves
  <2>2. S \subseteq Nodes /\ S \subseteq Nat
    <3>1. \A i \in U : LeafToNode(i) \in Nodes BY <2>1, LeavesAre
    <3>2. S \subseteq Nodes BY Zenon, <3>1
    <3>3. Nodes \subseteq Nat BY WidestIs
    <3>. QED BY Zenon, <3>2, <3>3
  <2>3. IsFiniteSet(S)
    <3>0. \A x \in Nodes : x <= 2 * MAX_MEMBERS BY WidestIs
    <3>1. \A x \in S : x <= 2 * MAX_MEMBERS BY <2>2, <3>0
    <3>2. 2 * MAX_MEMBERS \in Nat BY WidestIs
    <3>. HIDE DEF S
    <3>. QED BY <2>2, <3>1, <3>2, FS_BoundedSetOfNaturals
  <2>4. /\ s \in Seq(S) /\ Len(s) = Cardinality(S) /\ Len(s) \in Nat
        /\ \A x \in S : \E k \in 1 .. Cardinality(S) : s[k] = x
    <3>. HIDE DEF S
    <3>. QED BY <2>2, <2>3, InOrderIs
  <2>5. Entry(t, n) = <<n>> \o s BY <1>2 DEF Entry
  <2>. DEFINE e == Entry(t, n)
  <2>. HIDE DEF s, S, e
  <2>6. s \in Seq(Nodes) BY <2>2, <2>4
  <2>7. e = <<n>> \o s BY <2>5 DEF e
  <2>8. e \in Seq(Nodes) /\ Len(e) = 1 + Len(s) /\ e[1] = n
        /\ \A k \in 1 .. Len(s) : e[1 + k] = s[k] BY <2>6, <2>7
  <2>9. ASSUME NEW x \in S PROVE \E j \in 1 .. Len(e) : e[j] = x
    <3>1. PICK k \in 1 .. Len(s) : s[k] = x BY <2>4
    <3>2. 1 + k \in 1 .. Len(e) /\ e[1 + k] = x BY <2>4, <2>8, <3>1
    <3>. QED BY <3>2
  <2>10. \A i \in U : LeafToNode(i) \in S BY DEF S
  <2>11. 1 \in 1 .. Len(e) BY <2>4, <2>8
  <2>. QED BY <2>8, <2>9, <2>10, <2>11 DEF e
<1>. QED BY <1>1, <1>2

\* A resolution lists nodes, and among them each head with the leaves it has
\* not merged.
LEMMA ResolutionIs ==
    ASSUME NEW t, ListsLeaves(t), NEW node, NEW within, within \subseteq Nodes
    PROVE  /\ ResolutionIn(t, node, within) \in Seq(Nodes)
           /\ \A n \in Heads(t, node, within) :
                 /\ \E k \in 1 .. Len(ResolutionIn(t, node, within)) :
                       ResolutionIn(t, node, within)[k] = n
                 /\ ~IsLeaf(n) => \A i \in t.parent[n].unmerged :
                       \E k \in 1 .. Len(ResolutionIn(t, node, within)) :
                          ResolutionIn(t, node, within)[k] = LeafToNode(i)
<1>. DEFINE H == Heads(t, node, within)
            heads == InOrder(H)
            seqs == [i \in DOMAIN heads |-> Entry(t, heads[i])]
            res == ResolutionIn(t, node, within)
            Of(n) == IsLeaf(n) \/ t.parent[n] # Blank
<1>1. res = FlattenSeq(seqs) BY Zenon DEF ResolutionIn, Entries
<1>2. H \subseteq within /\ \A n \in H : Of(n) BY DEF Heads
<1>3. H \subseteq Nodes /\ H \subseteq Nat /\ IsFiniteSet(H)
  <2>1. H \subseteq Nodes /\ H \subseteq Nat BY <1>2, WidestIs
  <2>2. \A x \in H : x <= 2 * MAX_MEMBERS BY <2>1, WidestIs
  <2>3. 2 * MAX_MEMBERS \in Nat BY WidestIs
  <2>. HIDE DEF H
  <2>. QED BY <2>1, <2>2, <2>3, FS_BoundedSetOfNaturals
<1>. HIDE DEF H, Of
<1>. DEFINE c == Cardinality(H)
<1>4. /\ c \in Nat /\ DOMAIN heads = 1 .. c
      /\ \A x \in H : \E k \in 1 .. c : heads[k] = x
      /\ \A i \in 1 .. c : heads[i] \in H BY <1>3, InOrderIs
<1>. HIDE DEF heads, c
<1>5. \A i \in 1 .. c : Entry(t, heads[i]) \in Seq(Nodes)
  BY <1>2, <1>3, <1>4, EntryIs DEF Of
<1>6. seqs = [i \in 1 .. c |-> Entry(t, heads[i])] BY <1>4
<1>7. seqs \in Seq(Seq(Nodes)) /\ Len(seqs) = c
  <2>1. seqs \in [1 .. c -> Seq(Nodes)] BY <1>5, <1>6
  <2>. QED BY <1>4, <2>1
<1>8. \A i \in 1 .. c : seqs[i] = Entry(t, heads[i]) BY <1>6
<1>. HIDE DEF seqs, res
<1>9. res \in Seq(Nodes) /\ \A i \in 1 .. c : \A j \in 1 .. Len(seqs[i]) :
                               \E k \in 1 .. Len(res) : res[k] = seqs[i][j]
  BY <1>1, <1>7, Flattened
<1>10. ASSUME NEW n \in H
       PROVE  /\ \E k \in 1 .. Len(res) : res[k] = n
              /\ ~IsLeaf(n) => \A i \in t.parent[n].unmerged :
                                  \E k \in 1 .. Len(res) : res[k] = LeafToNode(i)
  <2>1. PICK i \in 1 .. c : heads[i] = n BY <1>4
  <2>2. seqs[i] = Entry(t, n) BY <1>8, <2>1
  <2>3. \A j \in 1 .. Len(Entry(t, n)) : \E k \in 1 .. Len(res) : res[k] = Entry(t, n)[j]
    BY <1>9, <2>2
  <2>4. n \in Nodes /\ (IsLeaf(n) \/ t.parent[n] # Blank) BY <1>2, <1>3 DEF Of
  <2>5. /\ \E j \in 1 .. Len(Entry(t, n)) : Entry(t, n)[j] = n
        /\ ~IsLeaf(n) => \A l \in t.parent[n].unmerged :
                            \E j \in 1 .. Len(Entry(t, n)) : Entry(t, n)[j] = LeafToNode(l)
    BY <2>4, EntryIs
  <2>6. \E k \in 1 .. Len(res) : res[k] = n BY Zenon, <2>3, <2>5
  <2>7. ~IsLeaf(n) => \A l \in t.parent[n].unmerged :
                        \E k \in 1 .. Len(res) : res[k] = LeafToNode(l)
    BY Zenon, <2>3, <2>5
  <2>. QED BY Zenon, <2>6, <2>7
<1>. QED BY <1>9, <1>10 DEF res, H

\* Whoever sits under a node is covered by one of its heads, when all of what
\* is under the node is asked.
LEMMA HeadsCover ==
    ASSUME NEW t, NEW s \in Nodes, NEW within, Under[s] \subseteq within, within \subseteq Nodes,
           NEW b \in Leaves, 2 * b \in Under[s], t.leaf[b] # Blank
    PROVE  \E n \in Heads(t, s, within) : n \in Nodes /\ 2 * b \in Under[n]
<1>. DEFINE At(k) == Ancestor(b, k)
            top == Level[s]
            Stops(k) == IsLeaf(At(k)) \/ t.parent[At(k)] # Blank
            T == {j \in Nat : \E k \in 0 .. top : Stops(k) /\ j = top - k}
<1>0. b \in Nat BY WidestIs
<1>1. top \in Nat /\ s = At(top) BY <1>0, LevelIs, UnderIs
<1>2. \A k \in 0 .. top : At(k) \in Nodes /\ Level[At(k)] = k /\ At(k) \in Under[s] /\ 2 * b \in Under[At(k)]
  <2>. TAKE k \in 0 .. top
  <2>1. k \in Nat /\ k <= top BY <1>1
  <2>2. At(k) \in Nodes
    <3>1. CASE k = top BY <1>1, <3>1
    <3>2. CASE k # top
      <4>1. Pow2[top] <= 2 * MAX_MEMBERS
        <5>1. PICK q \in Nat : s = 2 * (Pow2[top] * q) + Pow2[top] - 1 BY LevelIs
        <5>2. Pow2[top] \in Nat BY <1>1, Pow2Type
        <5>3. Pow2[top] * q \in Nat BY <5>1, <5>2
        <5>4. s \in Nat /\ s <= 2 * MAX_MEMBERS - 1 /\ MAX_MEMBERS \in Nat BY WidestIs
        <5>. DEFINE x == Pow2[top] * q
                    y == Pow2[top]
        <5>5. s = 2 * x + y - 1 /\ x \in Nat /\ y \in Nat BY <5>1, <5>2, <5>3
        <5>. HIDE DEF x, y
        <5>6. y <= 2 * MAX_MEMBERS BY <5>4, <5>5
        <5>. QED BY <5>6 DEF y
      <4>2. k < top /\ 2 * Pow2[k] <= Pow2[top] BY <1>1, <2>1, <3>2, Pow2Grows
      <4>3. Pow2[k] <= MAX_MEMBERS 
        <5>1. Pow2[k] \in Nat /\ Pow2[top] \in Nat /\ MAX_MEMBERS \in Nat
          BY <1>1, <2>1, Pow2Type, WidestIs
        <5>. QED BY <4>1, <4>2, <5>1
      <4>. QED BY <2>1, <4>3, AncestorInNodes
    <3>. QED BY <3>1, <3>2
  <2>3. Level[At(k)] = k BY <1>0, <2>1, <2>2, LevelOfAncestor
  <2>4. At(k) \in Under[s] BY <1>0, <1>1, <2>1, <2>2, Within
  <2>5. 2 * b \in Under[At(k)] BY <1>0, <2>2, <2>3, UnderIs
  <2>. QED BY <2>2, <2>3, <2>4, <2>5
<1>3. T # {} /\ T \subseteq Nat
  <2>1. Stops(0) BY <1>0, AncestorZero, LeavesAre
  <2>2. 0 \in 0 .. top /\ top = top - 0 /\ top \in Nat BY <1>1
  <2>. QED BY <2>1, <2>2
<1>4. PICK j \in T : \A i \in T : j <= i
  <2>. HIDE DEF T
  <2>. QED BY <1>3, Least
<1>5. PICK k \in 0 .. top : Stops(k) /\ j = top - k BY <1>4
<1>6. \A i \in 0 .. top : k < i => ~Stops(i)
  <2>. TAKE i \in 0 .. top
  <2>1. ASSUME Stops(i), k < i PROVE FALSE
    <3>1. top - i \in Nat BY <1>1
    <3>2. top - i \in T BY <2>1, <3>1
    <3>3. j <= top - i BY <1>4, <3>2
    <3>. QED BY <1>1, <1>5, <2>1, <3>3
  <2>. QED BY <2>1
<1>. DEFINE n == At(k)
            asked == Under[s] \intersect within
            open == {m \in asked : ~IsLeaf(m) /\ t.parent[m] = Blank}
<1>7. n \in Nodes /\ n \in Under[s] /\ 2 * b \in Under[n] /\ Level[n] = k BY <1>2
<1>8. n \in asked BY <1>7
<1>. HIDE DEF At
<1>9. ASSUME NEW m \in Under[s], n \in Under[m] \ {m} PROVE m \in open
  <2>1. m \in Nodes OBVIOUS
  <2>2. 2 * b \in Under[m] /\ Level[n] < Level[m] BY <1>0, <1>7, <1>9, <2>1, Nested
  <2>3. Level[m] <= top BY <1>0, <2>1, <2>2, Nested
  <2>4. m = At(Level[m]) BY <1>0, <2>1, <2>2, UnderIs DEF At
  <2>5. Level[m] \in 0 .. top BY <1>1, <2>1, <2>3, LevelIs
  <2>6. ~Stops(Level[m]) BY <1>6, <1>7, <2>2, <2>5
  <2>. QED BY <2>4, <2>6
<1>10. IF IsLeaf(n) THEN t.leaf[NodeToLeaf(n)] # Blank ELSE t.parent[n] # Blank
  <2>1. CASE IsLeaf(n)
    <3>1. k = 0 BY <1>7, <2>1, LeavesAre
    <3>2. n = 2 * b BY <1>0, <3>1, AncestorZero DEF At
    <3>. QED BY <2>1, <3>2, LeavesAre
  <2>2. CASE ~IsLeaf(n) BY <1>5, <2>2
  <2>. QED BY <2>1, <2>2
<1>11. n \in Heads(t, s, within)
  <2>. HIDE DEF n, asked
  <2>1. Heads(t, s, within) = {x \in {y \in asked : \A m \in Under[s] : y \in Under[m] \ {m} => m \in open} :
             IF IsLeaf(x) THEN t.leaf[NodeToLeaf(x)] # Blank ELSE t.parent[x] # Blank}
    BY Zenon DEF Heads, asked
  <2>. HIDE DEF open
  <2>. QED BY <1>8, <1>9, <1>10, <2>1
<1>. QED BY <1>7, <1>11

\* The heads, and so a resolution, ask of a leaf only whether it is taken.
LEMMA SameResolution ==
    ASSUME NEW t, NEW s, s.parent = t.parent,
           \A i \in Leaves : s.leaf[i] # Blank <=> t.leaf[i] # Blank,
           NEW node, NEW within, within \subseteq Nodes
    PROVE  ResolutionIn(s, node, within) = ResolutionIn(t, node, within)
<1>. DEFINE asked == Under[node] \intersect within
            reached == {n \in asked : \A m \in Under[node] : n \in Under[m] \ {m} =>
                           m \in {x \in asked : ~IsLeaf(x) /\ t.parent[x] = Blank}}
            Is(u, n) == IF IsLeaf(n) THEN u.leaf[NodeToLeaf(n)] # Blank
                                     ELSE u.parent[n] # Blank
<1>1. Heads(t, node, within) = {n \in reached : Is(t, n)} BY Zenon DEF Heads
<1>2. Heads(s, node, within) = {n \in reached : Is(s, n)}
  <2>1. Heads(s, node, within) = {n \in {n \in asked : \A m \in Under[node] : n \in Under[m] \ {m} =>
                           m \in {x \in asked : ~IsLeaf(x) /\ s.parent[x] = Blank}} : Is(s, n)}
    BY Zenon DEF Heads
  <2>. QED BY Zenon, <2>1
<1>3. \A n \in reached : Is(t, n) <=> Is(s, n)
  <2>. TAKE n \in reached
  <2>1. n \in Nodes OBVIOUS
  <2>2. IsLeaf(n) => NodeToLeaf(n) \in Leaves BY <2>1, LeavesAre
  <2>. QED BY <2>2
<1>. HIDE DEF reached, Is
<1>4. Heads(s, node, within) = Heads(t, node, within) BY <1>1, <1>2, <1>3
<1>. DEFINE heads == InOrder(Heads(t, node, within))
            heads2 == InOrder(Heads(s, node, within))
<1>5. ResolutionIn(t, node, within) = FlattenSeq([i \in DOMAIN heads |-> Entry(t, heads[i])])
  BY Zenon DEF ResolutionIn, Entries
<1>6. ResolutionIn(s, node, within) = FlattenSeq([i \in DOMAIN heads2 |-> Entry(s, heads2[i])])
  BY Zenon DEF ResolutionIn, Entries
<1>7. heads2 = heads BY <1>4
<1>. HIDE DEF heads, heads2
<1>8. \A n : Entry(s, n) = Entry(t, n) BY Zenon DEF Entry
<1>9. [i \in DOMAIN heads2 |-> Entry(s, heads2[i])] = [i \in DOMAIN heads |-> Entry(t, heads[i])]
  BY <1>7, <1>8
<1>. QED BY <1>5, <1>6, <1>9

-----------------------------------------------------------------------------
(* Trees: their types, and what adding, removing and rekeying do.           *)

Package == [user : Users, package : 0 .. MaxEpoch]
Keyed == [key : 1 .. MaxEpoch, unmerged : SUBSET Leaves]

\* What the type of a tree says of its parts.
LEMMA TypeIs ==
    ASSUME NEW t \in TreeType
    PROVE  /\ t = [count |-> t.count, leaf |-> t.leaf, parent |-> t.parent]
           /\ t.count \in 1 .. MAX_MEMBERS /\ t.count \in Nat /\ t.count >= 1
           /\ t.leaf \in [Leaves -> Package \union {Blank}]
           /\ t.parent \in [Nodes -> Keyed \union {Blank}]
           /\ \A i \in Leaves : t.leaf[i] # Blank => t.leaf[i] \in Package
           /\ \A n \in Nodes : t.parent[n] # Blank =>
                 /\ t.parent[n] \in Keyed
                 /\ t.parent[n].unmerged \subseteq Leaves
                 /\ t.parent[n].key \in 1 .. MaxEpoch
<1>1. /\ t = [count |-> t.count, leaf |-> t.leaf, parent |-> t.parent]
      /\ t.count \in 1 .. MAX_MEMBERS
      /\ t.leaf \in [Leaves -> Package \union {Blank}]
      /\ t.parent \in [Nodes -> Keyed \union {Blank}]
  BY DEF TreeType, Package, Keyed
<1>2. t.count \in Nat /\ t.count >= 1 BY <1>1, WidestIs
<1>3. \A i \in Leaves : t.leaf[i] # Blank => t.leaf[i] \in Package BY <1>1
<1>4. \A n \in Nodes : t.parent[n] # Blank => t.parent[n] \in Keyed BY <1>1
<1>5. \A n \in Nodes : t.parent[n] # Blank =>
         t.parent[n].unmerged \subseteq Leaves /\ t.parent[n].key \in 1 .. MaxEpoch
  BY <1>4 DEF Keyed
<1>. QED BY <1>1, <1>2, <1>3, <1>4, <1>5

\* Nobody's package, and nobody's key.
LEMMA BlankIsNone == Blank \notin Package /\ Blank \notin Keyed
BY GroupAssumption DEF Package, Keyed

\* A tree made of its three parts.
LEMMA TreeOf ==
    ASSUME NEW c \in 1 .. MAX_MEMBERS, NEW l \in [Leaves -> Package \union {Blank}],
           NEW p \in [Nodes -> Keyed \union {Blank}]
    PROVE  [count |-> c, leaf |-> l, parent |-> p] \in TreeType
BY DEF TreeType, Package, Keyed

\* The parents stay, with their keys: what they list may change.
KeepsKeys(t, r) ==
    \A n \in Nodes : t.parent[n] # Blank =>
        r.parent[n] # Blank /\ r.parent[n].key = t.parent[n].key

\* What a group of one is.
LEMMA NewTreeIs ==
    ASSUME NEW who \in Package
    PROVE  /\ NewTree(who) \in TreeType
           /\ NewTree(who).count = 1
           /\ \A i \in Leaves : NewTree(who).leaf[i] = IF i = 0 THEN who ELSE Blank
           /\ \A n \in Nodes : NewTree(who).parent[n] = Blank
<1>. DEFINE l == [i \in Leaves |-> IF i = 0 THEN who ELSE Blank]
            p == [n \in Nodes |-> Blank]
<1>1. NewTree(who) = [count |-> 1, leaf |-> l, parent |-> p] BY DEF NewTree
<1>2. 1 \in 1 .. MAX_MEMBERS BY WidestIs
<1>3. l \in [Leaves -> Package \union {Blank}] /\ p \in [Nodes -> Keyed \union {Blank}] OBVIOUS
<1>4. NewTree(who) \in TreeType BY <1>1, <1>2, <1>3, TreeOf
<1>. QED BY <1>1, <1>4

\* The leaf that is given out: the first that is free, or one more.
LEMMA AllocateIs ==
    ASSUME NEW t \in TreeType
    PROVE  /\ AllocateLeaf(t) \in 0 .. t.count
           /\ AllocateLeaf(t) < t.count => t.leaf[AllocateLeaf(t)] = Blank
           /\ AllocateLeaf(t) = t.count => \A i \in 0 .. t.count - 1 : t.leaf[i] # Blank
           /\ ~TreeFull(t) => AllocateLeaf(t) \in Leaves
<1>. DEFINE S == {i \in 0 .. t.count - 1 : t.leaf[i] = Blank}
            First(i) == t.leaf[i] = Blank /\ \A j \in 0 .. i - 1 : t.leaf[j] # Blank
            i == AllocateLeaf(t)
<1>0. t.count \in Nat /\ t.count <= MAX_MEMBERS
  <2>1. t.count \in 1 .. MAX_MEMBERS BY TypeIs
  <2>. QED BY <2>1, WidestIs
<1>1. CASE S = {}
  <2>1. ~\E j \in 0 .. t.count - 1 : t.leaf[j] = Blank BY <1>1
  <2>2. i = t.count BY Zenon, <2>1 DEF AllocateLeaf
  <2>3. \A j \in 0 .. t.count - 1 : t.leaf[j] # Blank BY <2>1
  <2>. HIDE DEF i
  <2>4. ~TreeFull(t) => t.count < MAX_MEMBERS BY <1>0, <2>3, WidestIs DEF TreeFull
  <2>5. ~TreeFull(t) => i \in Leaves BY <1>0, <2>2, <2>4, WidestIs
  <2>6. i \in 0 .. t.count /\ ~(i < t.count) BY <1>0, <2>2
  <2>. QED BY <2>3, <2>5, <2>6 DEF i
<1>2. CASE S # {}
  <2>1. \E j \in 0 .. t.count - 1 : t.leaf[j] = Blank BY <1>2
  <2>2. i = CHOOSE j \in 0 .. t.count - 1 : First(j) BY Zenon, <2>1 DEF AllocateLeaf
  <2>3. \E j \in 0 .. t.count - 1 : First(j)
    <3>1. S \subseteq Nat OBVIOUS
    <3>2. PICK l \in S : \A j \in S : l <= j
      <4>. HIDE DEF S
      <4>. QED BY <1>2, <3>1, Least
    <3>3. ASSUME NEW j \in 0 .. l - 1 PROVE t.leaf[j] # Blank
      <4>1. j \in 0 .. t.count - 1 /\ ~(l <= j) BY <1>0
      <4>. QED BY <3>2, <4>1
    <3>. QED BY <3>2, <3>3
  <2>. HIDE DEF First, i
  <2>4. i \in 0 .. t.count - 1 /\ First(i) BY <2>2, <2>3
  <2>5. i \in 0 .. t.count /\ i < t.count /\ i # t.count /\ i \in Leaves
    BY <1>0, <2>4, WidestIs
  <2>6. t.leaf[i] = Blank BY <2>4 DEF First
  <2>. QED BY <2>5, <2>6 DEF i
<1>. QED BY <1>1, <1>2

\* One more person in the tree.
LEMMA AddLeafIs ==
    ASSUME NEW t \in TreeType, NEW who \in Package, AllocateLeaf(t) \in Leaves
    PROVE  LET i == AllocateLeaf(t)
               r == AddLeaf(t, who)
               above == ToSet(DirectPath[LeafToNode(i)][r.count])
           IN  /\ r \in TreeType
               /\ KeepsKeys(t, r)
               /\ i \in 0 .. r.count - 1
               /\ r.count = IF i = t.count THEN t.count + 1 ELSE t.count
               /\ r.leaf[i] = who
               /\ \A j \in Leaves : j # i => r.leaf[j] = t.leaf[j]
               /\ \A n \in Nodes :
                     \/ r.parent[n] = t.parent[n]
                     \/ /\ t.parent[n] # Blank /\ r.parent[n] # Blank
                        /\ r.parent[n].key = t.parent[n].key
                        /\ r.parent[n].unmerged = t.parent[n].unmerged \union {i}
               /\ \A n \in Nodes :
                     /\ n \in above
                     /\ t.parent[n] # Blank
                     /\ Cardinality(t.parent[n].unmerged) < MAX_UNMERGED
                     => i \in r.parent[n].unmerged
<1>. DEFINE i == AllocateLeaf(t)
            c == IF i = t.count THEN t.count + 1 ELSE t.count
            l == [t.leaf EXCEPT ![i] = who]
            above == ToSet(DirectPath[LeafToNode(i)][c])
            lists(n) == n \in above /\ t.parent[n] # Blank
                        /\ Cardinality(t.parent[n].unmerged) < MAX_UNMERGED
            p == [n \in Nodes |-> IF lists(n)
                                  THEN [t.parent[n] EXCEPT !.unmerged = @ \union {i}]
                                  ELSE t.parent[n]]
            s == [count |-> c, leaf |-> l, parent |-> t.parent]
            r == AddLeaf(t, who)
<1>0. i \in 0 .. t.count /\ i \in Leaves BY AllocateIs
<1>1. c \in 1 .. MAX_MEMBERS /\ i \in 0 .. c - 1
  <2>1. t.count \in 1 .. MAX_MEMBERS BY TypeIs
  <2>. HIDE DEF i
  <2>. QED BY <1>0, <2>1, WidestIs
<1>2. t = [count |-> t.count, leaf |-> t.leaf, parent |-> t.parent] BY TypeIs
<1>3. r = AddUnmergedLeaf([t EXCEPT !.leaf[i] = who, !.count = IF i = @ THEN @ + 1 ELSE @], i)
  BY Zenon DEF AddLeaf
<1>. HIDE DEF i
<1>4. [t EXCEPT !.leaf[i] = who, !.count = IF i = @ THEN @ + 1 ELSE @] = s
  <2>1. [t EXCEPT !.leaf[i] = who] = [count |-> t.count, leaf |-> l, parent |-> t.parent]
    BY <1>2
  <2>2. [[count |-> t.count, leaf |-> l, parent |-> t.parent] EXCEPT !.count = c] = s OBVIOUS
  <2>. QED BY Zenon, <2>1, <2>2
<1>5. r = AddUnmergedLeaf(s, i) BY <1>3, <1>4
<1>6. s.count = c /\ s.parent = t.parent BY DEF s
<1>. HIDE DEF c, l
<1>7. r = [s EXCEPT !.parent = [n \in Nodes |->
              IF lists(n) THEN [t.parent[n] EXCEPT !.unmerged = @ \union {i}]
              ELSE t.parent[n]]]
  <2>1. r = [s EXCEPT !.parent = [n \in Nodes |->
              IF /\ n \in ToSet(DirectPath[LeafToNode(i)][s.count])
                 /\ s.parent[n] # Blank
                 /\ Cardinality(s.parent[n].unmerged) < MAX_UNMERGED
              THEN [s.parent[n] EXCEPT !.unmerged = @ \union {i}]
              ELSE s.parent[n]]]
    <3>. HIDE DEF s
    <3>. QED BY Zenon, <1>5 DEF AddUnmergedLeaf
  <2>. HIDE DEF s
  <2>. QED BY Zenon, <1>6, <2>1
<1>. HIDE DEF lists
<1>8. r = [count |-> c, leaf |-> l, parent |-> p] BY <1>7 DEF s
<1>9. l \in [Leaves -> Package \union {Blank}] /\ l[i] = who
      /\ \A j \in Leaves : j # i => l[j] = t.leaf[j]
  <2>1. t.leaf \in [Leaves -> Package \union {Blank}] BY TypeIs
  <2>. QED BY <1>0, <2>1 DEF l
<1>10. ASSUME NEW n \in Nodes
       PROVE  /\ p[n] \in Keyed \union {Blank}
              /\ ~lists(n) => p[n] = t.parent[n]
              /\ lists(n) => /\ t.parent[n] # Blank /\ p[n] # Blank
                             /\ p[n].key = t.parent[n].key
                             /\ p[n].unmerged = t.parent[n].unmerged \union {i}
  <2>1. CASE lists(n)
    <3>1. t.parent[n] # Blank BY <2>1 DEF lists
    <3>2. t.parent[n] \in Keyed BY <3>1, TypeIs
    <3>3. p[n] = [t.parent[n] EXCEPT !.unmerged = @ \union {i}] BY <2>1
    <3>. DEFINE q == t.parent[n]
    <3>. HIDE DEF p, q
    <3>4. q \in Keyed /\ p[n] = [q EXCEPT !.unmerged = @ \union {i}] BY <3>2, <3>3 DEF q
    <3>5. p[n] = [key |-> q.key, unmerged |-> q.unmerged \union {i}] BY <3>4 DEF Keyed
    <3>6. q.key \in 1 .. MaxEpoch /\ q.unmerged \subseteq Leaves BY <3>4 DEF Keyed
    <3>7. p[n] \in Keyed /\ p[n].key = q.key /\ p[n].unmerged = q.unmerged \union {i}
      BY <1>0, <3>5, <3>6 DEF Keyed
    <3>. QED BY <2>1, <3>1, <3>7, BlankIsNone DEF q
  <2>2. CASE ~lists(n)
    <3>1. p[n] = t.parent[n] BY <2>2
    <3>2. t.parent \in [Nodes -> Keyed \union {Blank}] BY TypeIs
    <3>. QED BY <2>2, <3>1, <3>2
  <2>. QED BY <2>1, <2>2
<1>11. p \in [Nodes -> Keyed \union {Blank}] BY <1>10
<1>. HIDE DEF p, r, above
<1>12. r \in TreeType BY <1>1, <1>8, <1>9, <1>11, TreeOf
<1>13. r.count = c /\ r.leaf = l /\ r.parent = p BY <1>8
<1>14. KeepsKeys(t, r) BY <1>10, <1>13 DEF KeepsKeys
<1>15. \A n \in Nodes :
          /\ n \in ToSet(DirectPath[LeafToNode(i)][r.count])
          /\ t.parent[n] # Blank
          /\ Cardinality(t.parent[n].unmerged) < MAX_UNMERGED
          => i \in r.parent[n].unmerged
  BY <1>10, <1>13 DEF lists, above
<1>16. r.count = IF i = t.count THEN t.count + 1 ELSE t.count BY <1>13 DEF c
<1>17. i \in 0 .. r.count - 1 BY <1>1, <1>13
<1>18. r.leaf[i] = who /\ \A j \in Leaves : j # i => r.leaf[j] = t.leaf[j] BY <1>9, <1>13
<1>19. \A n \in Nodes :
          \/ r.parent[n] = t.parent[n]
          \/ /\ t.parent[n] # Blank /\ r.parent[n] # Blank
             /\ r.parent[n].key = t.parent[n].key
             /\ r.parent[n].unmerged = t.parent[n].unmerged \union {i}
  BY <1>10, <1>13
<1>. QED BY <1>12, <1>14, <1>15, <1>16, <1>17, <1>18, <1>19 DEF i, r

\* A tree in order: nothing past its width, no lists on leaves, and nobody in
\* it twice.
GoodTree(t) ==
    /\ t \in TreeType
    /\ \A i \in Leaves : i >= t.count => t.leaf[i] = Blank
    /\ \A n \in Nodes : t.parent[n] # Blank =>
          /\ ~IsLeaf(n) /\ n < NodeWidth(t.count)
          /\ t.parent[n].unmerged \subseteq 0 .. t.count - 1
    /\ \A i, j \in Leaves :
          t.leaf[i] # Blank /\ t.leaf[j] # Blank /\ t.leaf[i].user = t.leaf[j].user => i = j

\* What a tree is after people have been let in: who was there stays, the keys
\* stay, and whoever is new is listed by every key above that has room.
Grows(t, r) ==
    /\ \A i \in Leaves : t.leaf[i] # Blank => r.leaf[i] = t.leaf[i]
    /\ \A n \in Nodes : r.parent[n] # Blank <=> t.parent[n] # Blank
    /\ \A n \in Nodes : t.parent[n] # Blank =>
          r.parent[n].key = t.parent[n].key /\ t.parent[n].unmerged \subseteq r.parent[n].unmerged
    /\ \A b \in Leaves : t.leaf[b] = Blank /\ r.leaf[b] # Blank =>
          \A n \in Nodes : 2 * b \in Under[n] /\ r.parent[n] # Blank =>
             \/ b \in r.parent[n].unmerged
             \/ Cardinality(r.parent[n].unmerged) >= MAX_UNMERGED

\* A list that holds more is not shorter.
LEMMA MoreIsMore ==
    ASSUME NEW V, V \subseteq Leaves, NEW U, U \subseteq V
    PROVE  Cardinality(U) <= Cardinality(V) /\ Cardinality(U) \in Nat /\ Cardinality(V) \in Nat
<1>1. MAX_MEMBERS - 1 \in Int BY WidestIs
<1>2. IsFiniteSet(Leaves) BY <1>1, FS_Interval DEF Leaves
<1>3. IsFiniteSet(V) BY <1>2, FS_Subset
<1>4. IsFiniteSet(U) /\ Cardinality(U) <= Cardinality(V) BY <1>3, FS_Subset
<1>. QED BY <1>3, <1>4, FS_CardinalityType

\* A tree that grows twice has grown.
LEMMA GrowsOn ==
    ASSUME NEW t, NEW r, NEW s \in TreeType, Grows(t, r), Grows(r, s)
    PROVE  Grows(t, s)
<1>1. \A i \in Leaves : t.leaf[i] # Blank => s.leaf[i] = t.leaf[i] BY DEF Grows
<1>2. \A n \in Nodes : s.parent[n] # Blank <=> t.parent[n] # Blank BY DEF Grows
<1>3. ASSUME NEW n \in Nodes, t.parent[n] # Blank
      PROVE  s.parent[n].key = t.parent[n].key /\ t.parent[n].unmerged \subseteq s.parent[n].unmerged
  <2>1. r.parent[n] # Blank /\ r.parent[n].key = t.parent[n].key
        /\ t.parent[n].unmerged \subseteq r.parent[n].unmerged BY <1>3 DEF Grows
  <2>2. s.parent[n].key = r.parent[n].key /\ r.parent[n].unmerged \subseteq s.parent[n].unmerged
    BY <2>1 DEF Grows
  <2>. QED BY <2>1, <2>2
<1>4. ASSUME NEW b \in Leaves, t.leaf[b] = Blank, s.leaf[b] # Blank,
             NEW n \in Nodes, 2 * b \in Under[n], s.parent[n] # Blank
      PROVE  b \in s.parent[n].unmerged \/ Cardinality(s.parent[n].unmerged) >= MAX_UNMERGED
  <2>1. r.parent[n] # Blank BY <1>4 DEF Grows
  <2>2. CASE r.leaf[b] = Blank BY <1>4, <2>2 DEF Grows
  <2>3. CASE r.leaf[b] # Blank
    <3>1. b \in r.parent[n].unmerged \/ Cardinality(r.parent[n].unmerged) >= MAX_UNMERGED
      BY <1>4, <2>1, <2>3 DEF Grows
    <3>2. r.parent[n].unmerged \subseteq s.parent[n].unmerged BY <2>1 DEF Grows
    <3>3. s.parent[n].unmerged \subseteq Leaves BY <1>4, TypeIs
    <3>5. Cardinality(r.parent[n].unmerged) <= Cardinality(s.parent[n].unmerged)
          /\ Cardinality(r.parent[n].unmerged) \in Nat /\ Cardinality(s.parent[n].unmerged) \in Nat
      BY <3>2, <3>3, MoreIsMore
    <3>6. MAX_UNMERGED \in Nat BY MembersAssumption
    <3>. QED BY <3>1, <3>2, <3>5, <3>6
  <2>. QED BY <2>2, <2>3
<1>. QED BY <1>1, <1>2, <1>3, <1>4 DEF Grows

\* A tree grows into itself.
LEMMA GrowsNot == ASSUME NEW t PROVE Grows(t, t) BY DEF Grows

\* A group of one.
LEMMA NewTreeGood ==
    ASSUME NEW who \in Package
    PROVE  GoodTree(NewTree(who))
<1>. DEFINE t == NewTree(who)
<1>1. t \in TreeType /\ t.count = 1 /\ (\A i \in Leaves : t.leaf[i] = IF i = 0 THEN who ELSE Blank)
      /\ \A n \in Nodes : t.parent[n] = Blank BY NewTreeIs
<1>. HIDE DEF t
<1>2. \A i \in Leaves : i >= t.count => t.leaf[i] = Blank BY <1>1, WidestIs
<1>. QED BY <1>1, <1>2 DEF GoodTree, t

\* The next person has a place, and is on every list that has room.
LEMMA AddLeafGood ==
    ASSUME NEW t, GoodTree(t), NEW who \in Package, AllocateLeaf(t) \in Leaves,
           \A i \in Leaves : t.leaf[i] # Blank => t.leaf[i].user # who.user
    PROVE  /\ GoodTree(AddLeaf(t, who))
           /\ Grows(t, AddLeaf(t, who))
           /\ AllocateLeaf(t) \in Leaves
           /\ t.leaf[AllocateLeaf(t)] = Blank
           /\ AddLeaf(t, who).leaf[AllocateLeaf(t)] = who
           /\ \A j \in Leaves : j # AllocateLeaf(t) => AddLeaf(t, who).leaf[j] = t.leaf[j]
<1>. DEFINE i == AllocateLeaf(t)
            r == AddLeaf(t, who)
            above == ToSet(DirectPath[LeafToNode(i)][r.count])
            Had(n) == r.parent[n] = t.parent[n]
            Listed(n) == /\ t.parent[n] # Blank /\ r.parent[n] # Blank
                         /\ r.parent[n].key = t.parent[n].key
                         /\ r.parent[n].unmerged = t.parent[n].unmerged \union {i}
<1>0. t \in TreeType BY DEF GoodTree
<1>1. /\ r \in TreeType
      /\ i \in 0 .. r.count - 1
      /\ r.count = IF i = t.count THEN t.count + 1 ELSE t.count
      /\ r.leaf[i] = who
      /\ \A j \in Leaves : j # i => r.leaf[j] = t.leaf[j]
  BY <1>0, AddLeafIs
<1>2. \A n \in Nodes : Had(n) \/ Listed(n) BY <1>0, AddLeafIs
<1>3. \A n \in Nodes : n \in above /\ t.parent[n] # Blank
                       /\ Cardinality(t.parent[n].unmerged) < MAX_UNMERGED
                       => i \in r.parent[n].unmerged BY <1>0, AddLeafIs
<1>4. /\ i \in 0 .. t.count /\ i \in Leaves
      /\ i < t.count => t.leaf[i] = Blank
      /\ i = t.count => \A j \in 0 .. t.count - 1 : t.leaf[j] # Blank BY <1>0, AllocateIs
<1>5. t.count \in Nat /\ t.count >= 1 /\ r.count \in 1 .. MAX_MEMBERS
  BY <1>0, <1>1, TypeIs DEF GoodTree
<1>. HIDE DEF i, r, above
<1>6. t.leaf[i] = Blank
  <2>1. CASE i < t.count BY <1>4, <2>1
  <2>2. CASE ~(i < t.count)
    <3>1. i >= t.count BY <1>4, <1>5, <2>2
    <3>. QED BY <1>4, <3>1 DEF GoodTree
  <2>. QED BY <2>1, <2>2
<1>8. \A n \in Nodes : r.parent[n] # Blank <=> t.parent[n] # Blank BY <1>2
<1>9. t.count <= r.count BY <1>1, <1>5
<1>10. ASSUME NEW n \in Nodes, r.parent[n] # Blank
       PROVE  /\ ~IsLeaf(n) /\ n < NodeWidth(r.count)
              /\ r.parent[n].unmerged \subseteq 0 .. r.count - 1
  <2>1. t.parent[n] # Blank BY <1>8, <1>10
  <2>2. ~IsLeaf(n) /\ n < NodeWidth(t.count) /\ t.parent[n].unmerged \subseteq 0 .. t.count - 1
    BY <2>1 DEF GoodTree
  <2>3. n < NodeWidth(r.count)
    <3>1. n \in Nat BY WidestIs
    <3>. QED BY <1>5, <1>9, <2>2, <3>1 DEF NodeWidth
  <2>4. 0 .. t.count - 1 \subseteq 0 .. r.count - 1 BY <1>5, <1>9
  <2>5. r.parent[n].unmerged \subseteq t.parent[n].unmerged \union {i} BY <1>2
  <2>. QED BY <1>1, <2>2, <2>3, <2>4, <2>5
<1>11. GoodTree(r)
  <2>1. ASSUME NEW j \in Leaves, j >= r.count PROVE r.leaf[j] = Blank
    <3>1. j # i /\ j >= t.count BY <1>1, <1>5, <1>9, <2>1, WidestIs
    <3>. QED BY <1>1, <3>1 DEF GoodTree
  <2>2. ASSUME NEW j \in Leaves, NEW k \in Leaves, r.leaf[j] # Blank, r.leaf[k] # Blank,
               r.leaf[j].user = r.leaf[k].user
        PROVE  j = k
    <3>1. CASE j # i /\ k # i BY <1>1, <2>2, <3>1 DEF GoodTree
    <3>2. CASE j = i /\ k # i
      <4>1. r.leaf[k] = t.leaf[k] /\ r.leaf[j] = who BY <1>1, <3>2
      <4>. QED BY <2>2, <4>1
    <3>3. CASE j # i /\ k = i
      <4>1. r.leaf[j] = t.leaf[j] /\ r.leaf[k] = who BY <1>1, <3>3
      <4>. QED BY <2>2, <4>1
    <3>. QED BY <3>1, <3>2, <3>3
  <2>. QED BY <1>1, <1>10, <2>1, <2>2 DEF GoodTree
<1>12. ASSUME NEW n \in Nodes, 2 * i \in Under[n], r.parent[n] # Blank
       PROVE  i \in r.parent[n].unmerged \/ Cardinality(r.parent[n].unmerged) >= MAX_UNMERGED
  <2>1. ~IsLeaf(n) /\ n < NodeWidth(r.count) BY <1>10, <1>12
  <2>2. n \in above BY <1>1, <1>5, <1>12, <2>1, OnPath DEF above
  <2>3. t.parent[n] # Blank BY <1>8, <1>12
  <2>4. CASE Listed(n) BY <2>4
  <2>5. CASE Had(n)
    <3>1. CASE Cardinality(t.parent[n].unmerged) < MAX_UNMERGED BY <1>3, <2>2, <2>3, <3>1
    <3>2. CASE ~(Cardinality(t.parent[n].unmerged) < MAX_UNMERGED)
      <4>1. t.parent[n].unmerged \subseteq Leaves BY <1>0, <2>3, TypeIs
      <4>3. Cardinality(t.parent[n].unmerged) \in Nat BY <4>1, MoreIsMore
      <4>4. MAX_UNMERGED \in Nat BY MembersAssumption
      <4>. QED BY <2>5, <3>2, <4>3, <4>4
    <3>. QED BY <3>1, <3>2
  <2>. QED BY <1>2, <2>4, <2>5
<1>13. Grows(t, r)
  <2>1. \A j \in Leaves : t.leaf[j] # Blank => r.leaf[j] = t.leaf[j] BY <1>1, <1>6
  <2>2. \A n \in Nodes : t.parent[n] # Blank =>
          r.parent[n].key = t.parent[n].key /\ t.parent[n].unmerged \subseteq r.parent[n].unmerged
    BY <1>2
  <2>3. ASSUME NEW b \in Leaves, t.leaf[b] = Blank, r.leaf[b] # Blank PROVE b = i
    BY <1>1, <2>3
  <2>. QED BY <1>8, <1>12, <2>1, <2>2, <2>3 DEF Grows
<1>. QED BY <1>1, <1>4, <1>6, <1>11, <1>13 DEF i, r

\* References to proposals: each add, at its place in a batch, has a package.
RefsOK(refs) ==
    /\ AddsOf(refs) \subseteq 1 .. MaxBatch
    /\ \A k \in AddsOf(refs) : refs[k].leaf \in Package

\* The adds are made one after the other.
LEMMA AddAllIs ==
    ASSUME NEW start, NEW refs
    PROVE  \E after :
              /\ after[0] = [ok |-> TRUE, tree |-> start]
              /\ \A k \in 1 .. MaxBatch :
                    after[k] = IF k \in AddsOf(refs) THEN AddOne(after[k - 1], refs[k].leaf)
                               ELSE after[k - 1]
              /\ AddAll(start, refs) = after[MaxBatch]
<1>. DEFINE n == MaxBatch
            first == [ok |-> TRUE, tree |-> start]
            Next1(had, k) == IF k \in AddsOf(refs) THEN AddOne(had, refs[k].leaf) ELSE had
            Is(f, m) == f = [k \in 0 .. m |-> IF k = 0 THEN first ELSE Next1(f[k - 1], k)]
            T == {m \in Nat : \E f : Is(f, m)}
            after == CHOOSE f : Is(f, n)
<1>0. n \in Nat BY GroupAssumption
<1>1. AddAll(start, refs) = after[n] 
  <2>1. AddAll(start, refs) =
          (CHOOSE f : f = [k \in 0 .. MaxBatch |->
              IF k = 0 THEN [ok |-> TRUE, tree |-> start]
              ELSE IF k \in AddsOf(refs) THEN AddOne(f[k - 1], refs[k].leaf)
              ELSE f[k - 1]])[MaxBatch] BY Zenon DEF AddAll
  <2>. QED BY Zenon, <2>1
<1>. HIDE DEF n, first, Next1
<1>2. 0 \in T
  <2>. DEFINE f == [k \in 0 .. 0 |-> first]
  <2>1. f = [k \in 0 .. 0 |-> IF k = 0 THEN first ELSE Next1(f[k - 1], k)] OBVIOUS
  <2>. HIDE DEF f
  <2>2. Is(f, 0) BY <2>1
  <2>. QED BY <2>2
<1>3. ASSUME NEW m \in 0 .. (n - 1), m \in T PROVE m + 1 \in T
  <2>1. PICK g : Is(g, m) BY <1>3
  <2>2. m \in Nat /\ \A k \in 0 .. m : g[k] = IF k = 0 THEN first ELSE Next1(g[k - 1], k) BY <2>1
  <2>. DEFINE f == [k \in 0 .. (m + 1) |-> IF k = m + 1 THEN Next1(g[m], k) ELSE g[k]]
  <2>3. \A k \in 0 .. (m + 1) : f[k] = IF k = 0 THEN first ELSE Next1(f[k - 1], k)
    <3>. TAKE k \in 0 .. (m + 1)
    <3>1. CASE k = m + 1
      <4>1. f[k] = Next1(g[m], k) /\ f[k - 1] = g[m] /\ k # 0 BY <2>2, <3>1
      <4>. QED BY <4>1
    <3>2. CASE k # m + 1
      <4>1. k \in 0 .. m /\ f[k] = g[k] BY <2>2, <3>2
      <4>2. k # 0 => k - 1 \in 0 .. m /\ f[k - 1] = g[k - 1] BY <2>2, <4>1
      <4>. QED BY <2>2, <4>1, <4>2
    <3>. QED BY <3>1, <3>2
  <2>4. f = [k \in 0 .. (m + 1) |-> f[k]] OBVIOUS
  <2>. HIDE DEF f
  <2>5. Is(f, m + 1) BY <2>3, <2>4
  <2>. QED BY <2>2, <2>5
<1>4. n \in T
  <2>. HIDE DEF T
  <2>1. \A k \in 0 .. n : k \in T BY <1>0, <1>2, <1>3, CountingUp
  <2>. QED BY <1>0, <2>1
<1>5. Is(after, n)
  <2>1. \E f : Is(f, n) BY <1>4
  <2>. HIDE DEF Is
  <2>. QED BY <2>1, Zenon
<1>. HIDE DEF after
<1>6. \A k \in 0 .. n : after[k] = IF k = 0 THEN first ELSE Next1(after[k - 1], k) BY <1>5
<1>7. after[0] = first /\ \A k \in 1 .. n : after[k] = Next1(after[k - 1], k) BY <1>0, <1>6
<1>. QED BY <1>1, <1>7 DEF first, Next1, n

\* One add, in a tree with room or without.
LEMMA AddOneIs ==
    ASSUME NEW had, NEW leaf \in Package,
           had \in [ok : BOOLEAN, tree : TreeType]
    PROVE  /\ AddOne(had, leaf) \in [ok : BOOLEAN, tree : TreeType]
           /\ KeepsKeys(had.tree, AddOne(had, leaf).tree)
           /\ AddOne(had, leaf).ok =>
                 /\ had.ok /\ ~TreeFull(had.tree)
                 /\ AddOne(had, leaf).tree = AddLeaf(had.tree, leaf)
<1>0. had.ok \in BOOLEAN /\ had.tree \in TreeType OBVIOUS
<1>1. CASE ~had.ok \/ TreeFull(had.tree)
  <2>1. AddOne(had, leaf) = [had EXCEPT !.ok = FALSE] BY <1>1 DEF AddOne
  <2>2. AddOne(had, leaf) = [ok |-> FALSE, tree |-> had.tree] BY <2>1
  <2>3. KeepsKeys(had.tree, had.tree) BY DEF KeepsKeys
  <2>. QED BY <1>0, <2>2, <2>3
<1>2. CASE ~(~had.ok \/ TreeFull(had.tree))
  <2>1. AddOne(had, leaf) = [had EXCEPT !.tree = AddLeaf(had.tree, leaf)] BY <1>2 DEF AddOne
  <2>2. AddOne(had, leaf) = [ok |-> had.ok, tree |-> AddLeaf(had.tree, leaf)] BY <2>1
  <2>3. AllocateLeaf(had.tree) \in Leaves BY <1>0, <1>2, AllocateIs
  <2>4. AddLeaf(had.tree, leaf) \in TreeType /\ KeepsKeys(had.tree, AddLeaf(had.tree, leaf))
    BY <1>0, <2>3, AddLeafIs
  <2>5. AddOne(had, leaf).ok = had.ok /\ AddOne(had, leaf).tree = AddLeaf(had.tree, leaf) BY <2>2
  <2>6. AddOne(had, leaf) \in [ok : BOOLEAN, tree : TreeType] BY <1>0, <2>2, <2>4
  <2>. QED BY <1>2, <2>4, <2>5, <2>6
<1>. QED BY <1>1, <1>2

\* Keys that are kept twice are kept.
LEMMA KeepsOn ==
    ASSUME NEW t, NEW r, NEW s, KeepsKeys(t, r), KeepsKeys(r, s)
    PROVE  KeepsKeys(t, s)
BY DEF KeepsKeys

\* All of them: the result is a tree, and no key is lost.
LEMMA AddAllType ==
    ASSUME NEW start \in TreeType, NEW refs, RefsOK(refs)
    PROVE  /\ AddAll(start, refs) \in [ok : BOOLEAN, tree : TreeType]
           /\ KeepsKeys(start, AddAll(start, refs).tree)
<1>1. PICK after :
              /\ after[0] = [ok |-> TRUE, tree |-> start]
              /\ \A k \in 1 .. MaxBatch :
                    after[k] = IF k \in AddsOf(refs) THEN AddOne(after[k - 1], refs[k].leaf)
                               ELSE after[k - 1]
              /\ AddAll(start, refs) = after[MaxBatch]
  BY AddAllIs
<1>. DEFINE Holds(k) == after[k] \in [ok : BOOLEAN, tree : TreeType] /\ KeepsKeys(start, after[k].tree)
            T == {k \in Nat : Holds(k)}
<1>2. 0 \in T
  <2>1. KeepsKeys(start, start) BY DEF KeepsKeys
  <2>2. after[0].tree = start /\ after[0] \in [ok : BOOLEAN, tree : TreeType] BY <1>1
  <2>3. Holds(0) BY <2>1, <2>2
  <2>. HIDE DEF Holds
  <2>. QED BY <2>3
<1>3. ASSUME NEW k \in 0 .. MaxBatch - 1, k \in T PROVE k + 1 \in T
  <2>1. k + 1 \in 1 .. MaxBatch /\ k + 1 - 1 = k /\ k + 1 \in Nat BY GroupAssumption
  <2>2. Holds(k) BY <1>3
  <2>3. Holds(k + 1)
    <3>1. CASE k + 1 \in AddsOf(refs)
      <4>1. after[k + 1] = AddOne(after[k], refs[k + 1].leaf) BY <1>1, <2>1, <3>1
      <4>2. refs[k + 1].leaf \in Package BY <3>1 DEF RefsOK
      <4>3. /\ AddOne(after[k], refs[k + 1].leaf) \in [ok : BOOLEAN, tree : TreeType]
            /\ KeepsKeys(after[k].tree, AddOne(after[k], refs[k + 1].leaf).tree)
        BY <2>2, <4>2, AddOneIs
      <4>4. KeepsKeys(start, AddOne(after[k], refs[k + 1].leaf).tree) BY <2>2, <4>3, KeepsOn
      <4>. QED BY <4>1, <4>3, <4>4
    <3>2. CASE k + 1 \notin AddsOf(refs) BY <1>1, <2>1, <2>2, <3>2
    <3>. QED BY <3>1, <3>2
  <2>. HIDE DEF Holds
  <2>. QED BY <2>1, <2>3
<1>4. \A k \in 0 .. MaxBatch : k \in T
  <2>. HIDE DEF T
  <2>1. MaxBatch \in Nat BY GroupAssumption
  <2>. QED BY <1>2, <1>3, <2>1, CountingUp
<1>5. Holds(MaxBatch)
  <2>1. MaxBatch \in 0 .. MaxBatch BY GroupAssumption
  <2>. HIDE DEF Holds
  <2>. QED BY <1>4, <2>1
<1>. QED BY <1>1, <1>5

\* And it is in order, when all that are added are different people, none of
\* them there yet, and there was room for all.
LEMMA AddAllGood ==
    ASSUME NEW start, GoodTree(start), NEW refs, RefsOK(refs),
           \A j, k \in AddsOf(refs) : refs[j].leaf.user = refs[k].leaf.user => j = k,
           \A k \in AddsOf(refs) : \A i \in Leaves :
              start.leaf[i] # Blank => start.leaf[i].user # refs[k].leaf.user,
           AddAll(start, refs).ok
    PROVE  LET r == AddAll(start, refs).tree
           IN  /\ GoodTree(r) /\ Grows(start, r)
               /\ \A i \in Leaves : r.leaf[i] # Blank /\ start.leaf[i] = Blank =>
                     \E k \in AddsOf(refs) : r.leaf[i] = refs[k].leaf
               /\ \A k \in AddsOf(refs) : \E i \in Leaves : r.leaf[i] = refs[k].leaf
<1>1. PICK after :
              /\ after[0] = [ok |-> TRUE, tree |-> start]
              /\ \A k \in 1 .. MaxBatch :
                    after[k] = IF k \in AddsOf(refs) THEN AddOne(after[k - 1], refs[k].leaf)
                               ELSE after[k - 1]
              /\ AddAll(start, refs) = after[MaxBatch]
  BY AddAllIs
<1>. DEFINE Added(r, k) == \A j \in AddsOf(refs) : j <= k => \E i \in Leaves : r.leaf[i] = refs[j].leaf
            From(r, k) == \A i \in Leaves : r.leaf[i] # Blank /\ start.leaf[i] = Blank =>
                             \E j \in AddsOf(refs) : j <= k /\ r.leaf[i] = refs[j].leaf
            Holds(k) == /\ after[k] \in [ok : BOOLEAN, tree : TreeType]
                        /\ after[k].ok => /\ GoodTree(after[k].tree) /\ Grows(start, after[k].tree)
                                          /\ Added(after[k].tree, k) /\ From(after[k].tree, k)
            T == {k \in Nat : Holds(k)}
<1>0. start \in TreeType BY DEF GoodTree
<1>2. 0 \in T
  <2>1. after[0].tree = start /\ after[0] \in [ok : BOOLEAN, tree : TreeType] BY <1>0, <1>1
  <2>2. Grows(start, start) BY GrowsNot
  <2>3. \A j \in AddsOf(refs) : ~(j <= 0) BY DEF RefsOK
  <2>4. Added(start, 0) /\ From(start, 0) BY <2>3
  <2>. HIDE DEF Added, From
  <2>. QED BY <2>1, <2>2, <2>4
<1>3. ASSUME NEW k \in 0 .. MaxBatch - 1, k \in T PROVE k + 1 \in T
  <2>1. k + 1 \in 1 .. MaxBatch /\ k + 1 - 1 = k /\ k + 1 \in Nat /\ k \in Nat BY GroupAssumption
  <2>2. Holds(k) BY <1>3
  <2>0. \A j \in AddsOf(refs) : j \in Nat BY DEF RefsOK
  <2>3. Holds(k + 1)
    <3>1. CASE k + 1 \in AddsOf(refs)
      <4>. DEFINE t == after[k].tree
                  who == refs[k + 1].leaf
                  a == AddOne(after[k], who)
                  i == AllocateLeaf(t)
                  r == AddLeaf(t, who)
      <4>1. after[k + 1] = a BY <1>1, <2>1, <3>1
      <4>2. who \in Package BY <3>1 DEF RefsOK
      <4>3. /\ a \in [ok : BOOLEAN, tree : TreeType]
            /\ a.ok => after[k].ok /\ ~TreeFull(t) /\ a.tree = r
        <5>. HIDE DEF who
        <5>. QED BY <2>2, <4>2, AddOneIs
      <4>. SUFFICES ASSUME a.ok
                    PROVE  /\ GoodTree(a.tree) /\ Grows(start, a.tree)
                           /\ Added(a.tree, k + 1) /\ From(a.tree, k + 1)
        <5>. HIDE DEF a, Added, From
        <5>. QED BY <4>1, <4>3
      <4>4. after[k].ok /\ ~TreeFull(t) /\ a.tree = r BY <4>3
      <4>5. GoodTree(t) /\ Grows(start, t) /\ Added(t, k) /\ From(t, k) BY <2>2, <4>4
      <4>6. t \in TreeType BY <4>5 DEF GoodTree
      <4>7. i \in Leaves BY <4>4, <4>6, AllocateIs
      <4>. HIDE DEF a, Holds, t, T
      <4>8. ASSUME NEW j \in Leaves, t.leaf[j] # Blank PROVE t.leaf[j].user # who.user
        <5>1. CASE start.leaf[j] # Blank
          <6>1. t.leaf[j] = start.leaf[j] BY <4>5, <5>1 DEF Grows
          <6>. QED BY <3>1, <5>1, <6>1
        <5>2. CASE start.leaf[j] = Blank
          <6>1. PICK l \in AddsOf(refs) : l <= k /\ t.leaf[j] = refs[l].leaf BY <4>5, <4>8, <5>2
          <6>2. l # k + 1 BY <2>0, <2>1, <6>1
          <6>. QED BY <3>1, <6>1, <6>2
        <5>. QED BY <5>1, <5>2
      <4>9. /\ GoodTree(r) /\ Grows(t, r) /\ t.leaf[i] = Blank /\ r.leaf[i] = who
            /\ \A j \in Leaves : j # i => r.leaf[j] = t.leaf[j]
        <5>. HIDE DEF who
        <5>. QED BY <4>2, <4>5, <4>7, <4>8, AddLeafGood
      <4>. HIDE DEF i, r
      <4>10. Grows(start, r)
        <5>1. r \in TreeType BY <4>9 DEF GoodTree
        <5>. QED BY <4>5, <4>9, <5>1, GrowsOn
      <4>11. Added(r, k + 1)
        <5>. SUFFICES ASSUME NEW j \in AddsOf(refs), j <= k + 1
                      PROVE  \E m \in Leaves : r.leaf[m] = refs[j].leaf
          OBVIOUS
        <5>1. CASE j = k + 1 BY <4>7, <4>9, <5>1
        <5>2. CASE j # k + 1
          <6>1. j <= k BY <2>0, <2>1, <5>2
          <6>2. PICK m \in Leaves : t.leaf[m] = refs[j].leaf BY <4>5, <6>1
          <6>3. refs[j].leaf \in Package BY DEF RefsOK
          <6>4. t.leaf[m] # Blank BY <6>2, <6>3, BlankIsNone
          <6>5. r.leaf[m] = t.leaf[m] BY <4>9, <6>4 DEF Grows
          <6>. QED BY <6>2, <6>5
        <5>. QED BY <5>1, <5>2
      <4>12. From(r, k + 1)
        <5>. SUFFICES ASSUME NEW m \in Leaves, r.leaf[m] # Blank, start.leaf[m] = Blank
                      PROVE  \E j \in AddsOf(refs) : j <= k + 1 /\ r.leaf[m] = refs[j].leaf
          OBVIOUS
        <5>1. CASE m = i BY <2>1, <3>1, <4>9, <5>1
        <5>2. CASE m # i
          <6>1. r.leaf[m] = t.leaf[m] BY <4>9, <5>2
          <6>2. PICK j \in AddsOf(refs) : j <= k /\ t.leaf[m] = refs[j].leaf BY <4>5, <6>1
          <6>3. j <= k + 1 BY <2>0, <2>1, <6>2
          <6>. QED BY <6>1, <6>2, <6>3
        <5>. QED BY <5>1, <5>2
      <4>. HIDE DEF Added, From
      <4>. QED BY <4>4, <4>9, <4>10, <4>11, <4>12
    <3>2. CASE k + 1 \notin AddsOf(refs)
      <4>1. after[k + 1] = after[k] BY <1>1, <2>1, <3>2
      <4>2. \A j \in AddsOf(refs) : j <= k + 1 <=> j <= k BY <2>0, <2>1, <3>2
      <4>3. \A r : (Added(r, k) <=> Added(r, k + 1)) /\ (From(r, k) <=> From(r, k + 1)) BY <4>2
      <4>. HIDE DEF Added, From
      <4>. QED BY <2>2, <4>1, <4>3
    <3>. QED BY <3>1, <3>2
  <2>. HIDE DEF Holds
  <2>. QED BY <2>1, <2>3
<1>4. \A k \in 0 .. MaxBatch : k \in T
  <2>. HIDE DEF T
  <2>1. MaxBatch \in Nat BY GroupAssumption
  <2>. QED BY <1>2, <1>3, <2>1, CountingUp
<1>5. Holds(MaxBatch)
  <2>1. MaxBatch \in 0 .. MaxBatch BY GroupAssumption
  <2>. HIDE DEF Holds
  <2>. QED BY <1>4, <2>1
<1>. DEFINE r == AddAll(start, refs).tree
<1>6. GoodTree(r) /\ Grows(start, r) /\ Added(r, MaxBatch) /\ From(r, MaxBatch)
  <2>. HIDE DEF Added, From
  <2>. QED BY <1>1, <1>5
<1>7. \A j \in AddsOf(refs) : j <= MaxBatch BY DEF RefsOK
<1>. HIDE DEF r
<1>8. (\A i \in Leaves : r.leaf[i] # Blank /\ start.leaf[i] = Blank =>
                     \E k \in AddsOf(refs) : r.leaf[i] = refs[k].leaf)
      /\ \A k \in AddsOf(refs) : \E i \in Leaves : r.leaf[i] = refs[k].leaf
  BY <1>6, <1>7
<1>. QED BY <1>6, <1>8 DEF r

\* Leaves are cleared, and nothing else.
LEMMA RemoveAllIs ==
    ASSUME NEW t \in TreeType, NEW S
    PROVE  /\ RemoveAll(t, S) \in TreeType
           /\ RemoveAll(t, S).count = t.count /\ RemoveAll(t, S).parent = t.parent
           /\ \A i \in Leaves : RemoveAll(t, S).leaf[i] = IF i \in S THEN Blank ELSE t.leaf[i]
           /\ KeepsKeys(t, RemoveAll(t, S))
           /\ GoodTree(t) => GoodTree(RemoveAll(t, S))
<1>. DEFINE l == [i \in Leaves |-> IF i \in S THEN Blank ELSE t.leaf[i]]
            r == RemoveAll(t, S)
<1>1. /\ t = [count |-> t.count, leaf |-> t.leaf, parent |-> t.parent]
      /\ t.count \in 1 .. MAX_MEMBERS
      /\ t.leaf \in [Leaves -> Package \union {Blank}]
      /\ t.parent \in [Nodes -> Keyed \union {Blank}] BY TypeIs
<1>2. r = [count |-> t.count, leaf |-> l, parent |-> t.parent]
  <2>1. r = [t EXCEPT !.leaf = l] BY Zenon DEF RemoveAll
  <2>. HIDE DEF l, r
  <2>. QED BY <1>1, <2>1
<1>3. l \in [Leaves -> Package \union {Blank}] BY <1>1
<1>4. \A i \in Leaves : l[i] = IF i \in S THEN Blank ELSE t.leaf[i] OBVIOUS
<1>. HIDE DEF l, r
<1>5. r \in TreeType BY <1>1, <1>2, <1>3, TreeOf
<1>6. r.count = t.count /\ r.parent = t.parent /\ r.leaf = l BY <1>2
<1>7. KeepsKeys(t, r) BY <1>6 DEF KeepsKeys
<1>8. ASSUME GoodTree(t) PROVE GoodTree(r)
  <2>1. \A i \in Leaves : r.leaf[i] # Blank => r.leaf[i] = t.leaf[i] BY <1>4, <1>6
  <2>2. \A i \in Leaves : i >= r.count => r.leaf[i] = Blank BY <1>4, <1>6, <1>8 DEF GoodTree
  <2>3. \A i, j \in Leaves : r.leaf[i] # Blank /\ r.leaf[j] # Blank
                             /\ r.leaf[i].user = r.leaf[j].user => i = j
    BY <1>4, <1>6, <1>8 DEF GoodTree
  <2>. QED BY <1>5, <1>6, <1>8, <2>2, <2>3 DEF GoodTree
<1>. QED BY <1>4, <1>5, <1>6, <1>7, <1>8 DEF r

\* The nodes of a path.
On(levels) == {levels[i].node : i \in DOMAIN levels}

\* A path gives its nodes a new key and an empty list, and its sender a new leaf.
LEMMA RekeyIs ==
    ASSUME NEW t \in TreeType, NEW leaf \in Leaves, NEW fresh \in Package, NEW levels,
           NEW e \in 1 .. MaxEpoch
    PROVE  LET r == Rekey(t, leaf, fresh, levels, e)
           IN  /\ r \in TreeType
               /\ r.count = t.count
               /\ r.leaf[leaf] = fresh
               /\ \A i \in Leaves : i # leaf => r.leaf[i] = t.leaf[i]
               /\ \A n \in Nodes : n \in On(levels) =>
                     r.parent[n] # Blank /\ r.parent[n].key = e /\ r.parent[n].unmerged = {}
               /\ \A n \in Nodes : n \notin On(levels) => r.parent[n] = t.parent[n]
               /\ /\ GoodTree(t) /\ t.leaf[leaf] # Blank /\ t.leaf[leaf].user = fresh.user
                  /\ \A n \in Nodes : n \in On(levels) => ~IsLeaf(n) /\ n < NodeWidth(t.count)
                  => GoodTree(r)
<1>. DEFINE l == [t.leaf EXCEPT ![leaf] = fresh]
            new == [key |-> e, unmerged |-> {}]
            p == [n \in Nodes |-> IF n \in On(levels) THEN new ELSE t.parent[n]]
            s == [count |-> t.count, leaf |-> l, parent |-> t.parent]
            r == Rekey(t, leaf, fresh, levels, e)
<1>1. /\ t = [count |-> t.count, leaf |-> t.leaf, parent |-> t.parent]
      /\ t.count \in 1 .. MAX_MEMBERS
      /\ t.leaf \in [Leaves -> Package \union {Blank}]
      /\ t.parent \in [Nodes -> Keyed \union {Blank}] BY TypeIs
<1>2. [t EXCEPT !.leaf[leaf] = fresh] = s BY <1>1
<1>3. r = [[t EXCEPT !.leaf[leaf] = fresh] EXCEPT !.parent =
             [n \in Nodes |-> IF n \in On(levels) THEN new
                              ELSE [t EXCEPT !.leaf[leaf] = fresh].parent[n]]]
  BY Zenon DEF Rekey, On
<1>4. s.parent = t.parent OBVIOUS
<1>5. r = [s EXCEPT !.parent = p]
  <2>. HIDE DEF s, r, new
  <2>1. r = [s EXCEPT !.parent = [n \in Nodes |-> IF n \in On(levels) THEN new
                                                  ELSE s.parent[n]]] BY Zenon, <1>2, <1>3
  <2>. QED BY Zenon, <1>4, <2>1
<1>. HIDE DEF p, l, r
<1>6. r = [count |-> t.count, leaf |-> l, parent |-> p] BY <1>5
<1>7. l \in [Leaves -> Package \union {Blank}] /\ l[leaf] = fresh
      /\ \A i \in Leaves : i # leaf => l[i] = t.leaf[i] BY <1>1 DEF l
<1>8. new \in Keyed /\ new.key = e /\ new.unmerged = {} BY DEF Keyed
<1>. HIDE DEF new, s
<1>9. p \in [Nodes -> Keyed \union {Blank}] BY <1>1, <1>8 DEF p
<1>10. (\A n \in Nodes : n \in On(levels) => p[n] = new)
       /\ \A n \in Nodes : n \notin On(levels) => p[n] = t.parent[n] BY DEF p
<1>11. new # Blank BY <1>8, BlankIsNone
<1>12. r \in TreeType BY <1>1, <1>6, <1>7, <1>9, TreeOf
<1>13. r.count = t.count /\ r.leaf = l /\ r.parent = p BY <1>6
<1>14. ASSUME GoodTree(t), t.leaf[leaf] # Blank, t.leaf[leaf].user = fresh.user,
              \A n \in Nodes : n \in On(levels) => ~IsLeaf(n) /\ n < NodeWidth(t.count)
       PROVE  GoodTree(r)
  <2>1. fresh # Blank BY BlankIsNone
  <2>2. \A i \in Leaves : l[i] # Blank <=> t.leaf[i] # Blank BY <1>7, <1>14, <2>1
  <2>3. \A i \in Leaves : l[i] # Blank => l[i].user = t.leaf[i].user BY <1>7, <1>14
  <2>4. \A i \in Leaves : i >= r.count => r.leaf[i] = Blank BY <1>13, <1>14, <2>2 DEF GoodTree
  <2>5. ASSUME NEW i \in Leaves, NEW j \in Leaves, r.leaf[i] # Blank, r.leaf[j] # Blank,
               r.leaf[i].user = r.leaf[j].user
        PROVE  i = j
    <3>1. t.leaf[i] # Blank /\ t.leaf[j] # Blank BY <1>13, <2>2, <2>5
    <3>2. t.leaf[i].user = t.leaf[j].user BY <1>13, <2>3, <2>5
    <3>. QED BY <1>14, <3>1, <3>2 DEF GoodTree
  <2>6. ASSUME NEW n \in Nodes, r.parent[n] # Blank
        PROVE  /\ ~IsLeaf(n) /\ n < NodeWidth(r.count)
               /\ r.parent[n].unmerged \subseteq 0 .. r.count - 1
    <3>1. CASE n \in On(levels) BY <1>8, <1>10, <1>13, <1>14, <3>1
    <3>2. CASE n \notin On(levels) BY <1>10, <1>13, <1>14, <2>6, <3>2 DEF GoodTree
    <3>. QED BY <3>1, <3>2
  <2>. QED BY <1>12, <2>4, <2>5, <2>6 DEF GoodTree
<1>15. \A n \in Nodes : n \in On(levels) =>
          r.parent[n] # Blank /\ r.parent[n].key = e /\ r.parent[n].unmerged = {}
  BY <1>8, <1>10, <1>11, <1>13
<1>16. \A n \in Nodes : n \notin On(levels) => r.parent[n] = t.parent[n] BY <1>10, <1>13
<1>17. r.leaf[leaf] = fresh /\ \A i \in Leaves : i # leaf => r.leaf[i] = t.leaf[i]
  BY <1>7, <1>13
<1>. QED BY <1>12, <1>13, <1>14, <1>15, <1>16, <1>17 DEF r

\* What is read from a welcome.
LEMMA ReadTreeIs ==
    ASSUME NEW t \in TreeType
    PROVE  /\ ReadTree(t) \in TreeType
           /\ GoodTree(t) => ReadTree(t) = t
<1>. DEFINE l == [i \in Leaves |-> IF i < t.count THEN t.leaf[i] ELSE Blank]
            p == [n \in Nodes |-> IF n < NodeWidth(t.count) THEN t.parent[n] ELSE Blank]
<1>1. /\ t = [count |-> t.count, leaf |-> t.leaf, parent |-> t.parent]
      /\ t.count \in 1 .. MAX_MEMBERS
      /\ t.leaf \in [Leaves -> Package \union {Blank}]
      /\ t.parent \in [Nodes -> Keyed \union {Blank}] BY TypeIs
<1>2. ReadTree(t) = [count |-> t.count, leaf |-> l, parent |-> p] BY DEF ReadTree
<1>3. l \in [Leaves -> Package \union {Blank}] /\ p \in [Nodes -> Keyed \union {Blank}] BY <1>1
<1>4. ReadTree(t) \in TreeType
  <2>. HIDE DEF l, p
  <2>. QED BY <1>1, <1>2, <1>3, TreeOf
<1>5. ASSUME GoodTree(t) PROVE ReadTree(t) = t
  <2>1. \A i \in Leaves : l[i] = t.leaf[i]
    <3>. TAKE i \in Leaves
    <3>1. t.count \in Nat /\ i \in Nat BY <1>1, WidestIs
    <3>2. CASE i < t.count BY <3>2
    <3>3. CASE ~(i < t.count)
      <4>1. i >= t.count BY <3>1, <3>3
      <4>. QED BY <1>5, <3>3, <4>1 DEF GoodTree
    <3>. QED BY <3>2, <3>3
  <2>2. \A n \in Nodes : p[n] = t.parent[n] BY <1>5 DEF GoodTree
  <2>3. l = t.leaf
    <3>1. t.leaf = [i \in Leaves |-> t.leaf[i]] BY <1>1
    <3>2. l = [i \in Leaves |-> l[i]] OBVIOUS
    <3>. HIDE DEF l
    <3>. QED BY <2>1, <3>1, <3>2
  <2>4. p = t.parent
    <3>1. t.parent = [n \in Nodes |-> t.parent[n]] BY <1>1
    <3>2. p = [n \in Nodes |-> p[n]] OBVIOUS
    <3>. HIDE DEF p
    <3>. QED BY <2>2, <3>1, <3>2
  <2>. HIDE DEF l, p
  <2>. QED BY Zenon, <1>1, <1>2, <2>3, <2>4
<1>. QED BY <1>4, <1>5

-----------------------------------------------------------------------------
(* Paths as written and as read.                                            *)

\* The levels of a walk whose other side is somebody.
Asked(t, a) == {i \in 1 .. Height(t.count) : Covering(t, Copath[LeafToNode(a)][t.count][i]) # <<>>}
Kept(t, a) == InOrder(Asked(t, a))

\* As many as there are.
LEMMA LenIs ==
    ASSUME NEW n \in Nat, NEW f, f = [i \in 1 .. n |-> f[i]]
    PROVE  Len(f) = n
<1>. DEFINE S == {f[i] : i \in 1 .. n}
<1>1. f \in [1 .. n -> S] OBVIOUS
<1>. HIDE DEF S
<1>. QED BY <1>1

\* A function of nothing is the empty sequence.
LEMMA NothingIsEmpty ==
    ASSUME NEW f, f = [i \in DOMAIN f |-> f[i]], DOMAIN f = {}
    PROVE  f = <<>>
<1>1. 1 .. 0 = {} OBVIOUS
<1>2. f \in [1 .. 0 -> Nat] BY <1>1
<1>3. f \in Seq(Nat) BY <1>2
<1>4. Len(f) = 0 BY <1>1, <1>2, <1>3, LenProperties
<1>. QED BY <1>3, <1>4, EmptySeq

\* Where nobody stands for what is under a node, nobody answers.
LEMMA NobodyAnswers ==
    ASSUME NEW t, NEW node, NEW within, Heads(t, node, within) = {}
    PROVE  ResolutionIn(t, node, within) = <<>>
<1>. DEFINE heads == InOrder({})
            seqs == [i \in DOMAIN heads |-> Entry(t, heads[i])]
            S == {}
<1>1. ResolutionIn(t, node, within) = FlattenSeq(seqs) BY Zenon DEF ResolutionIn, Entries
<1>2. DOMAIN heads = {}
  <2>1. S \subseteq Nat /\ IsFiniteSet(S) /\ Cardinality(S) = 0 BY FS_EmptySet
  <2>2. DOMAIN InOrder(S) = 1 .. Cardinality(S)
    <3>. HIDE DEF S
    <3>. QED BY <2>1, InOrderIs
  <2>. QED BY <2>1, <2>2
<1>. HIDE DEF heads
<1>3. seqs = [i \in DOMAIN seqs |-> seqs[i]] /\ DOMAIN seqs = {} BY <1>2
<1>. HIDE DEF seqs
<1>4. seqs = <<>> BY <1>3, NothingIsEmpty
<1>5. FlattenSeq(seqs) = seqs
  <2>1. Len(seqs) = 0 BY <1>4
  <2>. QED BY <2>1 DEF FlattenSeq
<1>. QED BY <1>1, <1>4, <1>5

\* The levels of a path, in order: those whose sibling resolves to somebody.
LEMMA KeptIs ==
    ASSUME NEW t \in TreeType, NEW a
    PROVE  /\ Cardinality(Asked(t, a)) \in Nat
           /\ DOMAIN Kept(t, a) = 1 .. Cardinality(Asked(t, a))
           /\ \A x \in Asked(t, a) : \E k \in DOMAIN Kept(t, a) : Kept(t, a)[k] = x
           /\ \A i, j \in DOMAIN Kept(t, a) :
                 /\ Kept(t, a)[i] \in Asked(t, a)
                 /\ Kept(t, a)[i] \in 1 .. Height(t.count)
                 /\ Kept(t, a)[i] = Kept(t, a)[j] => i = j
                 /\ i < j => Kept(t, a)[i] < Kept(t, a)[j]
<1>. DEFINE S == Asked(t, a)
<1>1. t.count \in 1 .. MAX_MEMBERS BY TypeIs
<1>2. Height(t.count) \in Nat BY <1>1, RootIs
<1>3. S \subseteq 1 .. Height(t.count) BY DEF Asked
<1>4. S \subseteq Nat /\ \A x \in S : x <= Height(t.count) BY <1>2, <1>3
<1>5. IsFiniteSet(S)
  <2>. HIDE DEF S
  <2>. QED BY <1>2, <1>4, FS_BoundedSetOfNaturals
<1>. HIDE DEF S
<1>6. /\ Cardinality(S) \in Nat
      /\ DOMAIN InOrder(S) = 1 .. Cardinality(S)
      /\ \A x \in S : \E k \in 1 .. Cardinality(S) : InOrder(S)[k] = x
      /\ \A i, j \in 1 .. Cardinality(S) :
                 /\ InOrder(S)[i] \in S
                 /\ InOrder(S)[i] = InOrder(S)[j] => i = j
                 /\ i < j => InOrder(S)[i] < InOrder(S)[j]
  BY <1>4, <1>5, InOrderIs
<1>7. Kept(t, a) = InOrder(S) BY DEF Kept, S
<1>. HIDE DEF Kept
<1>. QED BY <1>3, <1>6, <1>7 DEF S

\* One entry of what a level is sealed to.
SealedTo(t, n) == [node |-> n, key |-> IF IsLeaf(n) THEN 0 ELSE t.parent[n].key]

\* The path its author writes.
LEMMA SealedIs ==
    ASSUME NEW t \in TreeType, NEW a \in 0 .. t.count - 1
    PROVE  /\ DOMAIN SealedPath(t, a) = DOMAIN Kept(t, a)
           /\ Len(SealedPath(t, a)) = Cardinality(Asked(t, a))
           /\ \A i \in DOMAIN Kept(t, a) :
                 /\ SealedPath(t, a)[i].node = Ancestor(a, Kept(t, a)[i])
                 /\ LET res == Covering(t, Copath[LeafToNode(a)][t.count][Kept(t, a)[i]])
                    IN  SealedPath(t, a)[i].to = [k \in DOMAIN res |-> SealedTo(t, res[k])]
<1>. DEFINE h == Height(t.count)
            path == DirectPath[LeafToNode(a)][t.count]
            copath == Copath[LeafToNode(a)][t.count]
            levels == InOrder({i \in DOMAIN path : Covering(t, copath[i]) # <<>>})
            To(i) == LET to == Covering(t, copath[levels[i]])
                     IN  [k \in DOMAIN to |-> SealedTo(t, to[k])]
            sealed == SealedPath(t, a)
<1>1. t.count \in 1 .. MAX_MEMBERS BY TypeIs
<1>2. path = [i \in 1 .. h |-> Ancestor(a, i)] BY <1>1, PathIs
<1>3. sealed = [i \in DOMAIN levels |-> [node |-> path[levels[i]], to |-> To(i)]]
  BY Zenon DEF SealedPath, SealedTo
<1>4. DOMAIN path = 1 .. h BY <1>2
<1>5. levels = Kept(t, a)
  <2>. HIDE DEF path
  <2>1. levels = InOrder({i \in 1 .. h : Covering(t, copath[i]) # <<>>}) BY Zenon, <1>4
  <2>. QED BY Zenon, <2>1 DEF Kept, Asked
<1>. DEFINE c == Cardinality(Asked(t, a))
<1>6. c \in Nat /\ DOMAIN Kept(t, a) = 1 .. c
      /\ \A i \in DOMAIN Kept(t, a) : Kept(t, a)[i] \in 1 .. h BY KeptIs
<1>7. \A i \in DOMAIN Kept(t, a) :
         To(i) = LET res == Covering(t, Copath[LeafToNode(a)][t.count][Kept(t, a)[i]])
                 IN  [k \in DOMAIN res |-> SealedTo(t, res[k])]
  <2>. HIDE DEF levels
  <2>. QED BY Zenon, <1>5
<1>. HIDE DEF levels, To, path, c, h
<1>8. sealed = [i \in 1 .. c |-> [node |-> path[levels[i]], to |-> To(i)]] BY <1>3, <1>5, <1>6
<1>9. \A i \in 1 .. c : sealed[i].node = path[levels[i]] /\ sealed[i].to = To(i) BY <1>8
<1>10. \A i \in 1 .. c : path[levels[i]] = Ancestor(a, Kept(t, a)[i]) BY <1>2, <1>5, <1>6
<1>11. Len(sealed) = c
  <2>1. sealed = [i \in 1 .. c |-> sealed[i]] BY <1>8
  <2>. HIDE DEF sealed
  <2>. QED BY <1>6, <2>1, LenIs
<1>12. DOMAIN sealed = 1 .. c BY <1>8
<1>. HIDE DEF sealed
<1>. QED BY <1>6, <1>7, <1>9, <1>10, <1>11, <1>12 DEF c, sealed

\* The path its reader works out is the same, where the array cuts nobody off,
\* and so is whom each level of it is sealed to.
LEMMA FilteredIs ==
    ASSUME NEW t \in TreeType, NEW a \in 0 .. t.count - 1, ~CutShort(t, a),
           NEW s, s.count = t.count, s.parent = t.parent,
           \A i \in Leaves : s.leaf[i] # Blank <=> t.leaf[i] # Blank
    PROVE  /\ DOMAIN FilteredDirectPath(s, LeafToNode(a)) = DOMAIN Kept(t, a)
           /\ Len(FilteredDirectPath(s, LeafToNode(a))) = Cardinality(Asked(t, a))
           /\ \A i \in DOMAIN Kept(t, a) :
                 /\ FilteredDirectPath(s, LeafToNode(a))[i].node = Ancestor(a, Kept(t, a)[i])
                 /\ FilteredDirectPath(s, LeafToNode(a))[i].copath =
                       Copath[LeafToNode(a)][t.count][Kept(t, a)[i]]
                 /\ Resolution(s, FilteredDirectPath(s, LeafToNode(a))[i].copath) =
                       Covering(t, Copath[LeafToNode(a)][t.count][Kept(t, a)[i]])
<1>. DEFINE h == Height(t.count)
            path == DirectPath[LeafToNode(a)][s.count]
            copath == Copath[LeafToNode(a)][s.count]
            levels == InOrder({i \in DOMAIN path : Resolution(s, copath[i]) # <<>>})
            found == FilteredDirectPath(s, LeafToNode(a))
<1>1. t.count \in 1 .. MAX_MEMBERS BY TypeIs
<1>2. path = [i \in 1 .. h |-> Ancestor(a, i)] /\ copath = Copath[LeafToNode(a)][t.count]
  BY <1>1, PathIs
<1>3. found = [i \in DOMAIN levels |-> [node |-> path[levels[i]], copath |-> copath[levels[i]]]]
  BY Zenon DEF FilteredDirectPath, AtLevels
<1>4. DOMAIN path = 1 .. h BY <1>2
<1>5. ASSUME NEW i \in 1 .. h PROVE Resolution(s, copath[i]) = Covering(t, copath[i])
  <2>. DEFINE n == copath[i]
              w == 0 .. NodeWidth(t.count) - 1
  <2>1. w \subseteq Nodes BY <1>1, WidestIs DEF NodeWidth
  <2>2. i \in DOMAIN Copath[LeafToNode(a)][t.count]
    <3>1. Copath[LeafToNode(a)][t.count] = [k \in 1 .. h |-> Sibling[Ancestor(a, k - 1)]]
      BY <1>1, PathIs
    <3>. QED BY <3>1
  <2>3. Resolution(t, n) = Covering(t, n) BY Zenon, <1>2, <2>2 DEF CutShort
  <2>. HIDE DEF n, w
  <2>4. ResolutionIn(s, n, w) = ResolutionIn(t, n, w) BY <2>1, SameResolution
  <2>5. Resolution(s, n) = ResolutionIn(s, n, w) /\ Resolution(t, n) = ResolutionIn(t, n, w)
    BY DEF Resolution, w
  <2>. QED BY <2>3, <2>4, <2>5 DEF n
<1>6. levels = Kept(t, a)
  <2>. HIDE DEF path, copath
  <2>1. {i \in DOMAIN path : Resolution(s, copath[i]) # <<>>} =
        {i \in 1 .. h : Covering(t, copath[i]) # <<>>} BY <1>4, <1>5
  <2>2. {i \in 1 .. h : Covering(t, copath[i]) # <<>>} = Asked(t, a) BY Zenon, <1>2 DEF Asked
  <2>. QED BY Zenon, <2>1, <2>2 DEF Kept
<1>. DEFINE c == Cardinality(Asked(t, a))
<1>7. c \in Nat /\ DOMAIN Kept(t, a) = 1 .. c
      /\ \A i \in DOMAIN Kept(t, a) : Kept(t, a)[i] \in 1 .. h BY KeptIs
<1>. HIDE DEF levels, path, copath, c, h, found
<1>8. found = [i \in 1 .. c |-> [node |-> path[levels[i]], copath |-> copath[levels[i]]]]
  BY <1>3, <1>6, <1>7
<1>9. \A i \in 1 .. c : found[i].node = path[levels[i]] /\ found[i].copath = copath[levels[i]]
  BY <1>8
<1>10. \A i \in 1 .. c : path[levels[i]] = Ancestor(a, Kept(t, a)[i]) BY <1>2, <1>6, <1>7
<1>11. Len(found) = c
  <2>1. found = [i \in 1 .. c |-> found[i]] BY <1>8
  <2>. QED BY <1>7, <2>1, LenIs
<1>12. DOMAIN found = 1 .. c BY <1>8
<1>13. \A i \in 1 .. c : found[i].copath = Copath[LeafToNode(a)][t.count][Kept(t, a)[i]]
                         /\ Resolution(s, found[i].copath) =
                              Covering(t, Copath[LeafToNode(a)][t.count][Kept(t, a)[i]])
  <2>. TAKE i \in 1 .. c
  <2>1. levels[i] \in 1 .. h /\ levels[i] = Kept(t, a)[i] BY <1>6, <1>7
  <2>2. found[i].copath = copath[levels[i]] BY <1>9
  <2>3. Resolution(s, copath[levels[i]]) = Covering(t, copath[levels[i]]) BY <1>5, <2>1
  <2>. QED BY Zenon, <1>2, <2>1, <2>2, <2>3
<1>. QED BY <1>7, <1>9, <1>10, <1>11, <1>12, <1>13 DEF c, found

\* Whoever sits at a leaf holds the key of each parent above it, or is listed
\* by it as one who does not.
Knows(t, b, private) ==
    \A n \in Nodes : 2 * b \in Under[n] /\ t.parent[n] # Blank =>
        private[n] # 0 \/ b \in t.parent[n].unmerged

\* The keys held are the keys the tree has.
Current(t, private) ==
    \A n \in Nodes : private[n] # 0 =>
        t.parent[n] # Blank /\ t.parent[n].key = private[n]

\* Where somebody sits is within the width.
LEMMA SeatedWithin ==
    ASSUME NEW t, GoodTree(t), NEW a \in Leaves, t.leaf[a] # Blank
    PROVE  /\ t \in TreeType /\ t.count \in 1 .. MAX_MEMBERS
           /\ a \in 0 .. t.count - 1
<1>1. t \in TreeType BY DEF GoodTree
<1>2. t.count \in 1 .. MAX_MEMBERS BY <1>1, TypeIs
<1>3. a \in Nat BY WidestIs
<1>4. ~(a >= t.count) BY DEF GoodTree
<1>5. a \in 0 .. t.count - 1 BY <1>2, <1>3, <1>4, WidestIs
<1>. QED BY <1>1, <1>2, <1>5

\* The nodes of a path are parents, and within the array.
LEMMA OnIs ==
    ASSUME NEW t, GoodTree(t), NEW a \in Leaves, t.leaf[a] # Blank, ~CutShort(t, a),
           NEW n \in On(SealedPath(t, a))
    PROVE  n \in Nodes /\ ~IsLeaf(n) /\ n < NodeWidth(t.count)
<1>1. t \in TreeType /\ t.count \in 1 .. MAX_MEMBERS /\ a \in 0 .. t.count - 1 BY SeatedWithin
<1>2. PICK i \in DOMAIN SealedPath(t, a) : n = SealedPath(t, a)[i].node BY DEF On
<1>3. i \in DOMAIN Kept(t, a) /\ n = Ancestor(a, Kept(t, a)[i]) BY <1>1, <1>2, SealedIs
<1>. DEFINE l == Kept(t, a)[i]
<1>4. l \in 1 .. Height(t.count) BY <1>1, <1>3, KeptIs
<1>. HIDE DEF l
<1>5. n = Ancestor(a, l) BY <1>3 DEF l
<1>6. Ancestor(a, l) \in Nodes BY <1>1, <1>4, PathIs
<1>. DEFINE c == Copath[LeafToNode(a)][t.count][l]
            w == 0 .. NodeWidth(t.count) - 1
<1>7. Resolution(t, c) # <<>>
  <2>1. Kept(t, a)[i] \in Asked(t, a) BY <1>1, <1>3, KeptIs
  <2>2. Covering(t, c) # <<>> BY <2>1 DEF Asked, l
  <2>3. Copath[LeafToNode(a)][t.count] = [k \in 1 .. Height(t.count) |-> Sibling[Ancestor(a, k - 1)]]
    BY <1>1, PathIs
  <2>4. l \in DOMAIN Copath[LeafToNode(a)][t.count] BY <1>4, <2>3
  <2>5. Resolution(t, c) = Covering(t, c) BY Zenon, <2>4 DEF CutShort
  <2>. QED BY <2>2, <2>5
<1>8. Heads(t, c, w) # {} BY <1>7, NobodyAnswers DEF Resolution
<1>9. PICK m \in Under[c] : m \in w BY <1>8 DEF Heads
<1>10. m < NodeWidth(t.count)
  <2>1. NodeWidth(t.count) \in Nat BY <1>1, WidestIs DEF NodeWidth
  <2>. QED BY <1>9, <2>1
<1>11. Ancestor(a, l) < NodeWidth(t.count) BY <1>1, <1>4, <1>10, Reaches
<1>12. a \in Nat /\ l \in Nat /\ l # 0 BY <1>1, <1>4, RootIs, WidestIs
<1>13. Level[Ancestor(a, l)] = l BY <1>6, <1>12, LevelOfAncestor
<1>. QED BY <1>5, <1>6, <1>11, <1>12, <1>13, LeavesAre

\* A member who knows the tree the path was made for opens it, and ends up
\* with the new key of every node of the path above it.
LEMMA PathOpens ==
    ASSUME NEW t, GoodTree(t),
           NEW a \in Leaves, t.leaf[a] # Blank, ~CutShort(t, a), NEW b \in Leaves, t.leaf[b] # Blank, a # b,
           NEW s, s.count = t.count, s.parent = t.parent,
           \A i \in Leaves : s.leaf[i] # Blank <=> t.leaf[i] # Blank,
           NEW g, g.myLeaf = b, Knows(t, b, g.private), Current(t, g.private),
           NEW c, c.leaf = a, c.path = SealedPath(t, a)
    PROVE  /\ OpensPath(g, s, c)
           /\ On(FilteredDirectPath(s, LeafToNode(a))) = On(SealedPath(t, a))
           /\ \A n \in Nodes :
                 /\ n \notin On(SealedPath(t, a)) => PathKeys(g, s, c)[n] = g.private[n]
                 /\ n \in On(SealedPath(t, a)) => PathKeys(g, s, c)[n] \in {0, c.epoch + 1}
                 /\ n \in On(SealedPath(t, a)) /\ 2 * b \in Under[n] =>
                       PathKeys(g, s, c)[n] = c.epoch + 1
<1>. DEFINE h == Height(t.count)
            kept == Kept(t, a)
            copath == Copath[LeafToNode(a)][t.count]
            levels == FilteredDirectPath(s, LeafToNode(a))
            sealed == SealedPath(t, a)
            Res(i) == Covering(t, copath[kept[i]])
            overlap == CommonAncestor(LeafToNode(a), LeafToNode(b))
<1>1. /\ t \in TreeType /\ t.count \in 1 .. MAX_MEMBERS /\ a \in 0 .. t.count - 1
      /\ b \in 0 .. t.count - 1 BY SeatedWithin
<1>2. a \in Nat /\ b \in Nat BY WidestIs
<1>3. /\ Cardinality(Asked(t, a)) \in Nat
      /\ DOMAIN kept = 1 .. Cardinality(Asked(t, a))
      /\ \A x \in Asked(t, a) : \E k \in DOMAIN kept : kept[k] = x
      /\ \A i, j \in DOMAIN kept : /\ kept[i] \in Asked(t, a) /\ kept[i] \in 1 .. h
                                   /\ kept[i] = kept[j] => i = j
                                   /\ i < j => kept[i] < kept[j]
  BY <1>1, KeptIs
<1>4. /\ DOMAIN sealed = DOMAIN kept
      /\ Len(sealed) = Cardinality(Asked(t, a))
      /\ \A i \in DOMAIN kept : /\ sealed[i].node = Ancestor(a, kept[i])
                                /\ sealed[i].to = [k \in DOMAIN Res(i) |-> SealedTo(t, Res(i)[k])]
  BY <1>1, SealedIs
<1>5. /\ DOMAIN levels = DOMAIN kept
      /\ Len(levels) = Cardinality(Asked(t, a))
      /\ \A i \in DOMAIN kept : /\ levels[i].node = Ancestor(a, kept[i])
                                /\ levels[i].copath = copath[kept[i]]
                                /\ Resolution(s, levels[i].copath) = Res(i)
  BY <1>1, FilteredIs
<1>6. PICK j \in 1 .. h : /\ overlap = Ancestor(a, j)
                          /\ a \div Pow2[j] = b \div Pow2[j]
                          /\ a \div Pow2[j - 1] # b \div Pow2[j - 1]
  BY <1>1, Overlap
<1>7. h \in Nat /\ j \in Nat /\ j # 0 /\ j - 1 \in Nat BY <1>1, RootIs
<1>. HIDE DEF h, kept, copath, levels, sealed, overlap
<1>8. ListsLeaves(t) BY <1>1, TypeIs DEF ListsLeaves
<1>9. /\ copath[j] \in Nodes /\ 2 * b \in Under[copath[j]]
      /\ Under[copath[j]] \subseteq Nodes
  <2>1. /\ copath[j] \in Nodes
        /\ \A x \in Nat : 2 * x \in Under[copath[j]] <=>
                            /\ x \div Pow2[j] = a \div Pow2[j]
                            /\ x \div Pow2[j - 1] # a \div Pow2[j - 1]
    BY <1>1, <1>6, CopathIs DEF h, copath
  <2>2. Under[copath[j]] \subseteq Nodes BY <1>1, <1>6, BesideIs DEF h, copath
  <2>3. 2 * b \in Under[copath[j]] BY <1>2, <1>6, <2>1
  <2>. QED BY <2>1, <2>2, <2>3
<1>. DEFINE res == Covering(t, copath[j])
<1>10. PICK m \in Heads(t, copath[j], Nodes) : m \in Nodes /\ 2 * b \in Under[m]
  BY <1>9, HeadsCover
<1>11. /\ res \in Seq(Nodes)
       /\ \E k \in 1 .. Len(res) : res[k] = m
       /\ ~IsLeaf(m) => \A i \in t.parent[m].unmerged :
             \E k \in 1 .. Len(res) : res[k] = LeafToNode(i)
  BY <1>8, <1>10, ResolutionIs DEF Covering
<1>. DEFINE Mine(n) == n = LeafToNode(b) \/ g.private[n] # 0
<1>12. \E k \in 1 .. Len(res) : Mine(res[k])
  <2>1. CASE IsLeaf(m)
    <3>1. Level[m] = 0 BY <1>10, <2>1, LeavesAre
    <3>2. m = Ancestor(b, 0) BY <1>2, <1>10, <3>1, UnderIs
    <3>3. m = LeafToNode(b) BY <1>2, <3>2, AncestorZero DEF LeafToNode
    <3>. QED BY <1>11, <3>3
  <2>2. CASE ~IsLeaf(m)
    <3>1. t.parent[m] # Blank BY <1>10, <2>2 DEF Heads
    <3>2. g.private[m] # 0 \/ b \in t.parent[m].unmerged BY <1>10, <3>1 DEF Knows
    <3>. QED BY <1>11, <2>2, <3>2
  <2>. QED BY <2>1, <2>2
<1>13. PICK first \in 1 .. Len(res) : Mine(res[first]) /\ \A k \in 1 .. first - 1 : ~Mine(res[k])
  <2>. DEFINE S == {k \in 1 .. Len(res) : Mine(res[k])}
  <2>1. S \subseteq Nat /\ S # {} BY <1>12
  <2>. HIDE DEF res, Mine
  <2>2. PICK l \in S : \A k \in S : l <= k
    <3>. HIDE DEF S
    <3>. QED BY <2>1, Least
  <2>3. ASSUME NEW k \in 1 .. l - 1 PROVE ~Mine(res[k])
    <3>1. Len(res) \in Nat BY <1>11
    <3>2. k \in 1 .. Len(res) /\ ~(l <= k) BY <2>2, <3>1
    <3>. QED BY <2>2, <3>2
  <2>. QED BY <2>2, <2>3
<1>. HIDE DEF res
<1>14. res # <<>>
  <2>1. Len(res) # 0 BY <1>11, <1>13
  <2>. QED BY <2>1
<1>15. j \in Asked(t, a) BY <1>6, <1>14 DEF Asked, res, copath, h
<1>16. PICK step \in DOMAIN kept : kept[step] = j BY <1>3, <1>15
<1>17. ASSUME NEW i \in DOMAIN kept, levels[i].node = overlap PROVE i = step
  <2>1. Ancestor(a, kept[i]) = Ancestor(a, j) BY <1>5, <1>6, <1>17
  <2>2. kept[i] \in 1 .. h /\ kept[i] \in Nat BY <1>3, <1>7
  <2>3. Ancestor(a, j) \in Nodes BY <1>1, <1>6, PathIs DEF h
  <2>4. Level[Ancestor(a, j)] = j BY <1>2, <1>7, <2>3, LevelOfAncestor
  <2>5. Level[Ancestor(a, kept[i])] = kept[i] BY <1>2, <2>1, <2>2, <2>3, LevelOfAncestor
  <2>6. kept[i] = kept[step] BY <1>16, <2>1, <2>4, <2>5
  <2>. QED BY <1>3, <2>6
<1>18. OverlapStep(levels, a, b) = step
  <2>. DEFINE at == {i \in DOMAIN levels : levels[i].node = overlap}
  <2>1. at = {step} BY <1>5, <1>6, <1>16, <1>17
  <2>2. OverlapStep(levels, a, b) = IF at = {} THEN 0 ELSE CHOOSE i \in at : \A k \in at : i <= k
    BY Zenon DEF OverlapStep, overlap
  <2>. HIDE DEF at
  <2>3. step \in Nat BY <1>3
  <2>4. (CHOOSE i \in at : \A k \in at : i <= k) = step BY <2>1, <2>3
  <2>. QED BY <2>1, <2>2, <2>4
<1>19. step # 0 /\ step \in Nat BY <1>3
<1>20. levels[step].copath = copath[j] /\ Resolution(s, levels[step].copath) = res
       /\ sealed[step].to = [k \in DOMAIN res |-> SealedTo(t, res[k])]
  BY <1>4, <1>5, <1>16 DEF res
<1>21. OpensEntry(g, sealed[step].to, res)
  <2>. DEFINE to == sealed[step].to
  <2>1. DOMAIN res = 1 .. Len(res) /\ res[first] \in Nodes BY <1>11, <1>13
  <2>2. DOMAIN to = DOMAIN res /\ to[first] = SealedTo(t, res[first]) BY <1>13, <1>20, <2>1
  <2>3. SealedTo(t, res[first]) =
          [node |-> res[first], key |-> IF res[first] = LeafToNode(b) THEN 0 ELSE g.private[res[first]]]
    <3>1. CASE res[first] = LeafToNode(b)
      <4>1. IsLeaf(res[first]) BY <3>1, LeavesAre
      <4>. QED BY <3>1, <4>1 DEF SealedTo
    <3>2. CASE res[first] # LeafToNode(b)
      <4>1. g.private[res[first]] # 0 BY <1>13, <3>2 DEF Mine
      <4>2. t.parent[res[first]] # Blank /\ t.parent[res[first]].key = g.private[res[first]]
        BY <2>1, <4>1 DEF Current
      <4>3. ~IsLeaf(res[first]) BY <2>1, <4>2 DEF GoodTree
      <4>. QED BY <3>2, <4>2, <4>3 DEF SealedTo
    <3>. QED BY <3>1, <3>2
  <2>4. to[first] = [node |-> res[first],
                     key |-> IF res[first] = LeafToNode(g.myLeaf) THEN 0 ELSE g.private[res[first]]]
    BY <2>2, <2>3
  <2>5. first \in DOMAIN res \intersect DOMAIN to BY <1>13, <2>1, <2>2
  <2>6. (res[first] = LeafToNode(g.myLeaf) \/ g.private[res[first]] # 0)
        /\ \A k \in 1 .. first - 1 : ~(res[k] = LeafToNode(g.myLeaf) \/ g.private[res[k]] # 0)
    BY <1>13 DEF Mine
  <2>. HIDE DEF to
  <2>7. OpensEntry(g, to, res) BY Zenon, <2>4, <2>5, <2>6 DEF OpensEntry
  <2>. QED BY <2>7 DEF to
<1>22. OpensPath(g, s, c)
  <2>1. OpensPath(g, s, c) <=>
          /\ Len(levels) = Len(sealed)
          /\ OverlapStep(levels, a, b) # 0
          /\ OpensEntry(g, sealed[OverlapStep(levels, a, b)].to,
                        Resolution(s, levels[OverlapStep(levels, a, b)].copath))
    BY Zenon DEF OpensPath, levels, sealed
  <2>2. Len(levels) = Len(sealed) BY <1>4, <1>5
  <2>. QED BY <1>18, <1>19, <1>20, <1>21, <2>1, <2>2
<1>23. On(levels) = On(sealed)
  <2>1. \A i \in DOMAIN kept : levels[i].node = sealed[i].node BY <1>4, <1>5
  <2>. QED BY <1>4, <1>5, <2>1 DEF On
<1>. DEFINE above == {levels[i].node : i \in step .. Len(levels)}
            keys == PathKeys(g, s, c)
<1>24. keys = [n \in Nodes |-> IF n \in above THEN c.epoch + 1
                               ELSE IF n \in On(levels) THEN 0 ELSE g.private[n]]
  <2>1. keys = [n \in Nodes |->
            IF n \in {levels[i].node : i \in OverlapStep(levels, a, b) .. Len(levels)}
            THEN c.epoch + 1
            ELSE IF n \in On(levels) THEN 0 ELSE g.private[n]]
    BY Zenon DEF PathKeys, levels, On
  <2>. HIDE DEF keys
  <2>. QED BY Zenon, <1>18, <2>1
<1>25. step .. Len(levels) \subseteq DOMAIN levels
  <2>1. DOMAIN levels = 1 .. Len(levels) /\ Len(levels) \in Nat BY <1>3, <1>5
  <2>2. step >= 1 BY <1>19
  <2>. QED BY <1>19, <2>1, <2>2
<1>26. above \subseteq On(levels) BY <1>25 DEF On
<1>27. ASSUME NEW n \in Nodes, n \in On(levels), 2 * b \in Under[n] PROVE n \in above
  <2>1. PICK i \in DOMAIN kept : n = levels[i].node BY <1>5, <1>27 DEF On
  <2>2. n = Ancestor(a, kept[i]) BY <1>5, <2>1
  <2>3. kept[i] \in Nat BY <1>3
  <2>4. Level[n] = kept[i] BY <1>2, <2>2, <2>3, LevelOfAncestor
  <2>5. n = Ancestor(b, kept[i]) BY <1>2, <1>27, <2>4, UnderIs
  <2>6. a \div Pow2[kept[i]] = b \div Pow2[kept[i]]
    <3>. DEFINE l == kept[i]
    <3>1. l \in Nat /\ Ancestor(a, l) = Ancestor(b, l) BY <2>2, <2>3, <2>5
    <3>2. a \in Nat /\ b \in Nat BY <1>2
    <3>. HIDE DEF l
    <3>3. a \div Pow2[l] = b \div Pow2[l] BY <3>1, <3>2, AncestorSame
    <3>. QED BY <3>3 DEF l
  <2>7. ~(kept[i] <= j - 1) BY <1>2, <1>6, <1>7, <2>3, <2>6, SharedAbove
  <2>8. kept[i] >= j BY <1>7, <2>3, <2>7
  <2>9. ~(i < step) BY <1>3, <1>7, <1>16, <2>3, <2>8
  <2>10. i \in step .. Len(levels) BY <1>3, <1>5, <1>19, <2>9
  <2>. QED BY <2>1, <2>10
<1>. HIDE DEF above, keys
<1>28. \A n \in Nodes :
         /\ n \notin On(sealed) => keys[n] = g.private[n]
         /\ n \in On(sealed) => keys[n] \in {0, c.epoch + 1}
         /\ n \in On(sealed) /\ 2 * b \in Under[n] => keys[n] = c.epoch + 1
  BY <1>23, <1>24, <1>26, <1>27
<1>. QED BY <1>22, <1>23, <1>28 DEF levels, sealed, keys

-----------------------------------------------------------------------------
(* The inductive invariants.                                                *)

\* The structure of somebody in the group.
Inside == [status : {"in"}, epoch : 0 .. MaxEpoch, tree : TreeType, myLeaf : Leaves, private : Held]

\* What the structure of one person can be while the group is at epoch e.
Person(g, u, e) ==
    \/ /\ g.status = "out"
       /\ g.private \in Held
    \/ /\ g.status = "waiting"
       /\ \E p \in 0 .. MaxEpoch : g = CreateGroup(u, "waiting", p)
    \/ /\ g \in Inside
       /\ g.epoch <= e
       /\ Current(g.tree, g.private)

\* A proposal, and a batch of them.
Proposal(p) ==
    \/ p.type = "add" /\ p.leaf \in Package
    \/ \E i \in Leaves : p = RemoveOf(i)

Batch(refs) ==
    /\ DOMAIN refs \subseteq 1 .. MaxBatch
    /\ \A i \in DOMAIN refs : Proposal(refs[i])

\* A commit made at the epoch before e.
Sent(c, e) ==
    /\ c.epoch \in Nat /\ c.epoch + 1 <= e
    /\ c.leaf \in Leaves
    /\ c.tree \in TreeType
    /\ Batch(c.refs)
    /\ c.path # <<>> => c.fresh \in Package
    /\ c.adds = {c.refs[i].leaf.user : i \in AddsOf(c.refs)}

\* The inductive invariant of what the variables hold.
Typed ==
    /\ epoch \in 0 .. MaxEpoch
    /\ DOMAIN member = Users
    /\ \A u \in Users : Person(member[u], u, epoch)
    /\ Batch(proposals)
    /\ proposals # <<>> => epoch < MaxEpoch
    /\ commit # None => Sent(commit, epoch)
    /\ refused \subseteq Users
    /\ spoilt \in BOOLEAN

-----------------------------------------------------------------------------
\* The keys somebody holds after a commit.
KeysAfter(g, c) ==
    IF c.path = <<>> THEN g.private ELSE PathKeys(g, SeatedTree(g, c), c)

\* A member who is seated, and can open whatever is sealed above them.
Sits(t, i, u, private) ==
    /\ GoodTree(t)
    /\ i \in Leaves /\ t.leaf[i] # Blank /\ t.leaf[i].user = u
    /\ Current(t, private)
    /\ Knows(t, i, private)

\* A commit a member makes something of: out by it, or on the author's tree.
Reads(g, u, c) ==
    /\ c.epoch = g.epoch /\ c.leaf # g.myLeaf
    /\ \/ RemovesMe(g, c.refs)
       \/ /\ Applies(g, c)
          /\ CommittedTree(g, c) = c.tree
          /\ Sits(c.tree, g.myLeaf, u, KeysAfter(g, c))

\* Between commits: one epoch, one tree, and a batch that adds each person once.
AtRest ==
    /\ \A u \in Members : member[u].epoch = epoch
    /\ \A u, v \in Members : member[u].tree = member[v].tree
    /\ \A i \in AddsOf(proposals) : member[proposals[i].leaf.user].status = "waiting"
    /\ \A i, j \in AddsOf(proposals) :
          proposals[i].leaf.user = proposals[j].leaf.user => i = j

\* While a commit goes round.
GoingRound ==
    /\ proposals = <<>>
    /\ commit.author \in Members
    /\ commit.epoch + 1 = epoch
    /\ member[commit.author].epoch = epoch
    /\ member[commit.author].tree = commit.tree
    /\ \A u \in Members \ {commit.author} :
          member[u].epoch = commit.epoch /\ Reads(member[u], u, commit)
    /\ \A u, v \in Members \ {commit.author} : member[u].tree = member[v].tree
    /\ \A u \in Users : member[u].status = "waiting" /\ u \in commit.adds =>
          /\ Seats(commit.tree, u) # {}
          /\ \A i \in Seats(commit.tree, u) : Knows(commit.tree, i, NothingHeld)

\* The inductive invariant of a group whose commits everybody could follow.
Orderly ==
    /\ refused = {}
    /\ \A u \in Members :
          Sits(member[u].tree, member[u].myLeaf, u, member[u].private)
    /\ IF commit = None THEN AtRest ELSE GoingRound

\* The empty sequence is at no place.
LEMMA EmptyIsNothing == DOMAIN <<>> = {}
<1>1. <<>> \in Seq(Nat) /\ Len(<<>>) = 0 BY EmptySeq
<1>. QED BY <1>1, LenProperties

\* What a member's commit refers to.
LEMMA NamedIs ==
    ASSUME NEW g, Batch(proposals)
    PROVE  /\ DOMAIN Named(g) \subseteq DOMAIN proposals
           /\ \A i \in DOMAIN Named(g) : Named(g)[i] = proposals[i] /\ Names(g, proposals[i])
           /\ Batch(Named(g)) /\ RefsOK(Named(g))
           /\ Named(g) # <<>> => proposals # <<>>
           /\ Removed(Named(g)) \subseteq Leaves
           /\ g.myLeaf \notin Removed(Named(g))
           /\ AddsOf(Named(g)) = AddsOf(proposals)
<1>. DEFINE d == {j \in DOMAIN proposals : Names(g, proposals[j])}
            f == Named(g)
<1>1. f = [i \in d |-> proposals[i]] BY Zenon DEF Named
<1>. HIDE DEF f
<1>2. DOMAIN f = d /\ \A i \in d : f[i] = proposals[i] BY <1>1
<1>3. DOMAIN f \subseteq DOMAIN proposals /\ \A i \in DOMAIN f : f[i] = proposals[i] /\ Names(g, proposals[i])
  BY <1>2
<1>4. Batch(f) BY <1>3 DEF Batch
<1>5. RefsOK(f) 
  <2>1. AddsOf(f) \subseteq 1 .. MaxBatch BY <1>4 DEF Batch, AddsOf
  <2>2. ASSUME NEW k \in AddsOf(f) PROVE f[k].leaf \in Package
    <3>1. k \in DOMAIN f /\ f[k].type = "add" BY <2>2 DEF AddsOf
    <3>2. Proposal(f[k]) BY <1>4, <3>1 DEF Batch
    <3>3. ASSUME NEW i \in Leaves, f[k] = RemoveOf(i) PROVE FALSE BY <3>1, <3>3 DEF RemoveOf
    <3>. QED BY <3>2, <3>3 DEF Proposal
  <2>. QED BY <2>1, <2>2 DEF RefsOK
<1>6. f # <<>> => proposals # <<>>
  <2>1. SUFFICES ASSUME proposals = <<>> PROVE f = <<>> OBVIOUS
  <2>2. DOMAIN f = {} BY <1>3, <2>1, EmptyIsNothing
  <2>3. f = [i \in DOMAIN f |-> f[i]] BY <1>1
  <2>. QED BY <2>2, <2>3, NothingIsEmpty
<1>7. ASSUME NEW i \in DOMAIN f, f[i].type = "remove"
      PROVE  f[i].index \in Leaves /\ f[i].index # g.myLeaf
  <2>1. Proposal(f[i]) /\ Names(g, f[i]) BY <1>3, <1>4 DEF Batch
  <2>. QED BY <1>7, <2>1 DEF Proposal, Names, RemoveOf
<1>8. Removed(f) \subseteq Leaves /\ g.myLeaf \notin Removed(f) BY <1>7 DEF Removed
<1>9. AddsOf(f) = AddsOf(proposals) BY <1>2 DEF AddsOf, Names
<1>. QED BY <1>3, <1>4, <1>5, <1>6, <1>8, <1>9 DEF f

\* A tree with removes and adds made to it.
LEMMA ChangedIs ==
    ASSUME NEW t \in TreeType, NEW S, NEW refs, RefsOK(refs)
    PROVE  /\ AddAll(RemoveAll(t, S), refs).tree \in TreeType
           /\ KeepsKeys(t, AddAll(RemoveAll(t, S), refs).tree)
<1>1. RemoveAll(t, S) \in TreeType /\ KeepsKeys(t, RemoveAll(t, S)) BY RemoveAllIs
<1>2. /\ AddAll(RemoveAll(t, S), refs).tree \in TreeType
      /\ KeepsKeys(RemoveAll(t, S), AddAll(RemoveAll(t, S), refs).tree)
  BY <1>1, AddAllType
<1>. QED BY <1>1, <1>2, KeepsOn

\* Keys that are current stay so.
LEMMA CurrentKept ==
    ASSUME NEW t, NEW r, KeepsKeys(t, r), NEW private, Current(t, private)
    PROVE  Current(r, private)
BY DEF KeepsKeys, Current

\* How many levels a filtered path has.
LEMMA LevelsAre ==
    ASSUME NEW t \in TreeType, NEW a \in Leaves
    PROVE  LET levels == FilteredDirectPath(t, LeafToNode(a))
           IN  Len(levels) \in Nat /\ DOMAIN levels = 1 .. Len(levels)
<1>1. t.count \in 1 .. MAX_MEMBERS BY TypeIs
<1>2. 2 * a \in Nodes /\ LeafToNode(a) = 2 * a BY LeavesAre
<1>. DEFINE climb == Climb(2 * a, t.count)
            h == Level[Root(t.count)] - Level[2 * a]
            path == DirectPath[2 * a][t.count]
<1>3. h \in Nat
  <2>1. Level[2 * a] = 0 BY LeavesAre
  <2>2. Level[Root(t.count)] \in Nat BY <1>1, RootIs DEF Height
  <2>. QED BY <2>1, <2>2
<1>4. \E f : climb = [i \in 1 .. h + 1 |-> f[i - 1]]
  <2>. DEFINE at == CHOOSE at : at = [i \in 0 .. h |-> IF i = 0 THEN 2 * a ELSE Parent[at[i - 1]]]
  <2>1. climb = [i \in 1 .. h + 1 |-> at[i - 1]] BY Zenon DEF Climb
  <2>. QED BY <2>1
<1>5. climb = [i \in 1 .. h + 1 |-> climb[i]]
  <2>. HIDE DEF climb
  <2>. QED BY <1>4
<1>6. path = SubSeq(climb, 2, Len(climb)) BY <1>1, <1>2 DEF DirectPath
<1>. HIDE DEF climb, h, path
<1>7. Len(climb) = h + 1 BY <1>3, <1>5, LenIs
<1>8. DOMAIN path = 1 .. h
  <2>1. path = [i \in 1 .. (1 + Len(climb) - 2) |-> climb[i + 2 - 1]] BY <1>6
  <2>. QED BY <1>3, <1>7, <2>1
<1>. DEFINE S == {i \in DOMAIN path : Resolution(t, Copath[2 * a][t.count][i]) # <<>>}
            levels == FilteredDirectPath(t, 2 * a)
<1>9. S \subseteq 1 .. h BY <1>8
<1>10. IsFiniteSet(S)
  <2>1. 1 \in Int /\ h \in Int BY <1>3
  <2>2. IsFiniteSet(1 .. h)
    <3>. HIDE DEF S
    <3>. QED BY <2>1, FS_Interval
  <2>. HIDE DEF S
  <2>. QED BY <1>9, <2>2, FS_Subset
<1>11. levels = [i \in DOMAIN InOrder(S) |->
          [node |-> path[InOrder(S)[i]], copath |-> Copath[2 * a][t.count][InOrder(S)[i]]]]
  BY Zenon DEF FilteredDirectPath, AtLevels, path
<1>. HIDE DEF S, levels
<1>12. DOMAIN levels = DOMAIN InOrder(S) /\ levels = [i \in DOMAIN InOrder(S) |-> levels[i]] BY <1>11
<1>13. S \subseteq Nat BY <1>3, <1>9
<1>14. Cardinality(S) \in Nat /\ DOMAIN InOrder(S) = 1 .. Cardinality(S) BY <1>10, <1>13, InOrderIs
<1>15. Len(levels) = Cardinality(S) BY <1>12, <1>14, LenIs
<1>. QED BY <1>2, <1>12, <1>14, <1>15 DEF levels

\* What somebody who applies a commit holds then.
LEMMA CommittedIs ==
    ASSUME NEW g, g.tree \in TreeType, g.private \in Held, Current(g.tree, g.private),
           NEW c, c.epoch \in Nat, c.epoch + 1 <= MaxEpoch, c.leaf \in Leaves, Batch(c.refs),
           c.path # <<>> => c.fresh \in Package,
           Applies(g, c)
    PROVE  /\ CommittedTree(g, c) \in TreeType
           /\ KeysAfter(g, c) \in Held
           /\ Current(CommittedTree(g, c), KeysAfter(g, c))
<1>1. RefsOK(c.refs)
  <2>1. AddsOf(c.refs) \subseteq 1 .. MaxBatch BY DEF Batch, AddsOf
  <2>2. ASSUME NEW k \in AddsOf(c.refs) PROVE c.refs[k].leaf \in Package
    <3>1. k \in DOMAIN c.refs /\ c.refs[k].type = "add" BY <2>2 DEF AddsOf
    <3>2. Proposal(c.refs[k]) BY <3>1 DEF Batch
    <3>3. ASSUME NEW i \in Leaves, c.refs[k] = RemoveOf(i) PROVE FALSE BY <3>1, <3>3 DEF RemoveOf
    <3>. QED BY <3>2, <3>3 DEF Proposal
  <2>. QED BY <2>1, <2>2 DEF RefsOK
<1>. DEFINE s == AppliedTree(g.tree, c.refs).tree
<1>2. s \in TreeType /\ KeepsKeys(g.tree, s) BY <1>1, ChangedIs DEF AppliedTree
<1>3. Current(s, g.private) BY <1>2, CurrentKept
<1>4. CASE c.path = <<>>
  <2>1. CommittedTree(g, c) = s /\ KeysAfter(g, c) = g.private BY <1>4 DEF CommittedTree, KeysAfter
  <2>. QED BY <1>2, <1>3, <2>1
<1>5. CASE c.path # <<>>
  <2>. DEFINE t == SeatedTree(g, c)
              levels == FilteredDirectPath(t, LeafToNode(c.leaf))
              keys == PathKeys(g, t, c)
              step == OverlapStep(levels, c.leaf, g.myLeaf)
              e == c.epoch + 1
              r == Rekey(t, c.leaf, c.fresh, levels, e)
  <2>1. t = [s EXCEPT !.leaf[c.leaf] = c.fresh] BY DEF SeatedTree
  <2>. HIDE DEF s
  <2>2. t \in TreeType /\ t.parent = s.parent
    <3>. DEFINE l == [s.leaf EXCEPT ![c.leaf] = c.fresh]
    <3>1. s = [count |-> s.count, leaf |-> s.leaf, parent |-> s.parent] BY <1>2, TypeIs
    <3>2. [s EXCEPT !.leaf[c.leaf] = c.fresh] = [count |-> s.count, leaf |-> l, parent |-> s.parent]
      BY <3>1
    <3>3. s.leaf \in [Leaves -> Package \union {Blank}] /\ s.parent \in [Nodes -> Keyed \union {Blank}]
          /\ s.count \in 1 .. MAX_MEMBERS
      BY <1>2, TypeIs
    <3>4. l \in [Leaves -> Package \union {Blank}] BY <1>5, <3>3
    <3>5. t = [count |-> s.count, leaf |-> l, parent |-> s.parent] BY <2>1, <3>2
    <3>. HIDE DEF l, t
    <3>6. t \in TreeType BY <3>3, <3>4, <3>5, TreeOf
    <3>. QED BY <3>5, <3>6
  <2>3. Current(t, g.private) BY <1>3, <2>2 DEF Current
  <2>. HIDE DEF t
  <2>4. Len(levels) \in Nat /\ DOMAIN levels = 1 .. Len(levels) BY <2>2, LevelsAre
  <2>5. step # 0 BY <1>5 DEF Applies, OpensPath, t
  <2>6. step \in DOMAIN levels
    <3>. DEFINE at == {i \in DOMAIN levels :
                          levels[i].node = CommonAncestor(LeafToNode(c.leaf), LeafToNode(g.myLeaf))}
    <3>1. step = IF at = {} THEN 0 ELSE CHOOSE i \in at : \A j \in at : i <= j
      BY Zenon DEF OverlapStep
    <3>. HIDE DEF step
    <3>2. at # {} /\ step = CHOOSE i \in at : \A j \in at : i <= j BY <2>5, <3>1
    <3>3. at \subseteq Nat BY <2>4
    <3>4. \E i \in at : \A j \in at : i <= j
      <4>. HIDE DEF at
      <4>. QED BY <3>2, <3>3, Least
    <3>5. step \in at
      <4>. HIDE DEF at
      <4>. QED BY <3>2, <3>4
    <3>. QED BY <3>5
  <2>. DEFINE above == {levels[i].node : i \in step .. Len(levels)}
  <2>7. keys = [n \in Nodes |-> IF n \in above THEN e ELSE IF n \in On(levels) THEN 0 ELSE g.private[n]]
    BY Zenon DEF PathKeys, On
  <2>8. above \subseteq On(levels)
    <3>1. step .. Len(levels) \subseteq DOMAIN levels
      <4>. HIDE DEF step, levels
      <4>. QED BY <2>4, <2>6
    <3>. HIDE DEF step, levels
    <3>. QED BY <3>1 DEF On
  <2>. HIDE DEF keys, above, step, levels
  <2>9. e \in 1 .. MaxEpoch BY GroupAssumption
  <2>10. keys \in Held
    <3>. HIDE DEF e
    <3>1. \A n \in Nodes : g.private[n] \in 0 .. MaxEpoch BY DEF Held
    <3>2. MaxEpoch \in Nat BY GroupAssumption
    <3>3. \A n \in Nodes : (IF n \in above THEN e ELSE IF n \in On(levels) THEN 0 ELSE g.private[n]) \in 0 .. MaxEpoch
      BY <2>9, <3>1, <3>2
    <3>. QED BY <2>7, <3>3 DEF Held
  <2>11. /\ r \in TreeType
         /\ \A n \in Nodes : n \in On(levels) => r.parent[n] # Blank /\ r.parent[n].key = e
         /\ \A n \in Nodes : n \notin On(levels) => r.parent[n] = t.parent[n]
    <3>. HIDE DEF e
    <3>. QED BY <1>5, <2>2, <2>9, RekeyIs
  <2>. HIDE DEF r
  <2>12. Current(r, keys)
    <3>. HIDE DEF e
    <3>. QED BY <2>3, <2>7, <2>8, <2>11 DEF Current
  <2>13. CommittedTree(g, c) = r /\ KeysAfter(g, c) = keys
    BY <1>5 DEF CommittedTree, KeysAfter, r, levels, t, keys
  <2>. QED BY <2>10, <2>11, <2>12, <2>13
<1>. QED BY <1>4, <1>5

-----------------------------------------------------------------------------
(* What the variables hold.                                                 *)

\* What a member puts into a leaf, and that nothing held is nothing stale.
LEMMA LeafIs ==
    /\ \A u \in Users : \A e \in 0 .. MaxEpoch : Leaf(u, e) \in Package /\ Leaf(u, e).user = u
    /\ NothingHeld \in Held
    /\ \A t : Current(t, NothingHeld)
<1>1. MaxEpoch \in Nat BY GroupAssumption
<1>. QED BY <1>1 DEF Leaf, Package, NothingHeld, Held, Current

\* What a group of one is.
LEMMA CreateIs ==
    ASSUME NEW u \in Users, NEW s, NEW e \in 0 .. MaxEpoch
    PROVE  LET g == CreateGroup(u, s, e)
           IN  /\ g.status = s /\ g.epoch = 0 /\ g.myLeaf = 0 /\ g.private = NothingHeld
               /\ g.tree = NewTree(Leaf(u, e))
               /\ g.tree \in TreeType
               /\ g.tree.leaf[0] = Leaf(u, e)
               /\ g.myLeaf \in Leaves
               /\ 0 \in Leaves
<1>1. Leaf(u, e) \in Package BY LeafIs
<1>2. 0 \in Leaves BY WidestIs
<1>. QED BY <1>1, <1>2, NewTreeIs DEF CreateGroup

\* The two a call starts with.
LEMMA TwoIs ==
    ASSUME NEW u \in Users, NEW v \in Users
    PROVE  LET one == NewTree(Leaf(u, 0))
               two == AddLeaf(one, Leaf(v, 0))
           IN  /\ AllocateLeaf(one) = 1 /\ 1 \in Leaves
               /\ one \in TreeType /\ two \in TreeType
               /\ two.leaf[0] = Leaf(u, 0) /\ two.leaf[1] = Leaf(v, 0)
               /\ \A i \in Leaves : i \notin {0, 1} => two.leaf[i] = Blank
               /\ \A n \in Nodes : two.parent[n] = Blank
<1>. DEFINE one == NewTree(Leaf(u, 0))
            two == AddLeaf(one, Leaf(v, 0))
<1>1. 0 \in 0 .. MaxEpoch BY GroupAssumption
<1>2. Leaf(u, 0) \in Package /\ Leaf(v, 0) \in Package BY <1>1, LeafIs
<1>3. /\ one \in TreeType /\ one.count = 1
      /\ \A i \in Leaves : one.leaf[i] = IF i = 0 THEN Leaf(u, 0) ELSE Blank
      /\ \A n \in Nodes : one.parent[n] = Blank
  BY <1>2, NewTreeIs
<1>. HIDE DEF one, two
<1>4. 0 \in Leaves /\ 1 \in Leaves
  <2>1. MAX_MEMBERS \in Nat /\ MAX_MEMBERS >= 2
    <3>1. PICK k \in 1 .. MAX_MEMBERS : MAX_MEMBERS = Pow2[k] BY MembersAssumption
    <3>2. k \in Nat /\ k - 1 \in Nat /\ k = (k - 1) + 1 BY <3>1, MembersAssumption
    <3>3. Pow2[k - 1] \in Nat /\ Pow2[k - 1] >= 1 BY <3>2, Pow2Type
    <3>4. Pow2[k] = 2 * Pow2[k - 1] BY <3>2, Pow2Is
    <3>. QED BY <3>1, <3>3, <3>4, MembersAssumption
  <2>. QED BY <2>1 DEF Leaves
<1>5. AllocateLeaf(one) \in 0 .. 1 BY <1>3, AllocateIs
<1>6. one.leaf[0] # Blank BY <1>2, <1>3, <1>4, BlankIsNone
<1>7. ~(AllocateLeaf(one) < one.count)
  <2>1. SUFFICES ASSUME AllocateLeaf(one) < one.count PROVE FALSE OBVIOUS
  <2>2. AllocateLeaf(one) = 0 BY <1>3, <1>5, <2>1
  <2>. QED BY <1>3, <1>6, <2>1, <2>2, AllocateIs
<1>8. AllocateLeaf(one) = 1 BY <1>3, <1>5, <1>7
<1>9. AllocateLeaf(one) \in Leaves BY <1>4, <1>8
<1>10. /\ two \in TreeType /\ two.leaf[1] = Leaf(v, 0)
       /\ \A j \in Leaves : j # 1 => two.leaf[j] = one.leaf[j]
       /\ \A n \in Nodes :
             \/ two.parent[n] = one.parent[n]
             \/ one.parent[n] # Blank
  BY <1>2, <1>3, <1>8, <1>9, AddLeafIs DEF two
<1>. QED BY <1>3, <1>4, <1>8, <1>10 DEF one, two

\* The first of a call, the second, and nobody else in it.
CallOfTwo(u, v) ==
    LET tree == AddLeaf(NewTree(Leaf(u, 0)), Leaf(v, 0))
    IN  /\ u # v
        /\ DOMAIN member = Users
        /\ member[u] = [status |-> "in", epoch |-> 0, tree |-> tree, myLeaf |-> 0,
                        private |-> NothingHeld]
        /\ member[v] = [status |-> "in", epoch |-> 0, tree |-> tree, myLeaf |-> 1,
                        private |-> NothingHeld]
        /\ \A w \in Users : w # u /\ w # v =>
              member[w].status = "out" /\ member[w].private = NothingHeld

\* Everybody's structure at first.
LEMMA InitIs ==
    ASSUME Init
    PROVE  \E u, v \in Users : CallOfTwo(u, v)
<1>1. PICK u \in Users, v \in Users :
         /\ u # v
         /\ member = [w \in Users |->
               CASE w = u -> [CreateGroup(u, "in", 0) EXCEPT
                                 !.tree = AddLeaf(NewTree(Leaf(u, 0)), Leaf(v, 0))]
                 [] w = v -> [CreateGroup(v, "in", 0) EXCEPT
                                 !.tree = AddLeaf(NewTree(Leaf(u, 0)), Leaf(v, 0)), !.myLeaf = 1]
                 [] OTHER -> Out(NothingHeld)]
  BY Zenon DEF Init
<1>. DEFINE tree == AddLeaf(NewTree(Leaf(u, 0)), Leaf(v, 0))
            gu == CreateGroup(u, "in", 0)
            gv == CreateGroup(v, "in", 0)
            mu == [gu EXCEPT !.tree = tree]
            mv == [gv EXCEPT !.tree = tree, !.myLeaf = 1]
            out == Out(NothingHeld)
<1>2. gu = [status |-> "in", epoch |-> 0, tree |-> NewTree(Leaf(u, 0)), myLeaf |-> 0,
            private |-> NothingHeld]
  BY DEF CreateGroup
<1>3. gv = [status |-> "in", epoch |-> 0, tree |-> NewTree(Leaf(v, 0)), myLeaf |-> 0,
            private |-> NothingHeld]
  BY DEF CreateGroup
<1>4. member = [w \in Users |-> CASE w = u -> mu [] w = v -> mv [] OTHER -> out] BY <1>1
<1>5. out.status = "out" /\ out.private = NothingHeld BY DEF Out
<1>. HIDE DEF tree, gu, gv
<1>6. mu = [status |-> "in", epoch |-> 0, tree |-> tree, myLeaf |-> 0, private |-> NothingHeld]
  BY <1>2
<1>7. mv = [status |-> "in", epoch |-> 0, tree |-> tree, myLeaf |-> 1, private |-> NothingHeld]
  <2>1. [gv EXCEPT !.tree = tree] = [status |-> "in", epoch |-> 0, tree |-> tree, myLeaf |-> 0,
                                     private |-> NothingHeld]
    BY <1>3
  <2>2. [[status |-> "in", epoch |-> 0, tree |-> tree, myLeaf |-> 0, private |-> NothingHeld]
            EXCEPT !.myLeaf = 1]
          = [status |-> "in", epoch |-> 0, tree |-> tree, myLeaf |-> 1, private |-> NothingHeld]
    OBVIOUS
  <2>. QED BY Zenon, <2>1, <2>2
<1>. HIDE DEF mu, mv, out
<1>8. /\ DOMAIN member = Users /\ member[u] = mu /\ member[v] = mv
      /\ \A w \in Users : w # u /\ w # v => member[w] = out
  BY <1>1, <1>4
<1>9. CallOfTwo(u, v) BY <1>1, <1>5, <1>6, <1>7, <1>8 DEF tree, CallOfTwo
<1>. QED BY <1>9

\* A call begins typed.
LEMMA InitTyped == ASSUME Init PROVE Typed
<1>0. MaxEpoch \in Nat /\ 0 \in 0 .. MaxEpoch BY GroupAssumption
<1>1. PICK u \in Users, v \in Users : CallOfTwo(u, v) BY InitIs
<1>2. AddLeaf(NewTree(Leaf(u, 0)), Leaf(v, 0)) \in TreeType /\ 1 \in Leaves BY TwoIs
<1>3. 0 \in Leaves BY WidestIs
<1>4. epoch = 0 /\ proposals = <<>> /\ commit = None /\ refused = {} /\ spoilt = FALSE BY DEF Init
<1>5. \A w \in Users : Person(member[w], w, 0)
  <2>1. NothingHeld \in Held /\ \A t : Current(t, NothingHeld) BY LeafIs
  <2>2. member[u] \in Inside /\ member[v] \in Inside
    BY <1>0, <1>1, <1>2, <1>3, <2>1 DEF CallOfTwo, Inside
  <2>. QED BY <1>1, <2>1, <2>2 DEF Person, CallOfTwo
<1>6. Batch(proposals) BY <1>4, EmptyIsNothing DEF Batch
<1>. QED BY <1>0, <1>1, <1>4, <1>5, <1>6 DEF Typed, CallOfTwo

\* Who has their types keeps them as the epoch goes on.
LEMMA PersonLater ==
    ASSUME NEW g, NEW u, NEW e \in 0 .. MaxEpoch, NEW f \in 0 .. MaxEpoch, e <= f, Person(g, u, e)
    PROVE  Person(g, u, f)
<1>1. MaxEpoch \in Nat BY GroupAssumption
<1>2. g \in Inside => g.epoch \in 0 .. MaxEpoch BY DEF Inside
<1>. QED BY <1>1, <1>2 DEF Person

\* What being in the group says of the structure.
LEMMA InsideIs ==
    ASSUME Typed, NEW u \in Users, In(u)
    PROVE  /\ member[u] \in Inside
           /\ member[u].epoch \in Nat /\ member[u].epoch <= epoch
           /\ member[u].tree \in TreeType
           /\ member[u].myLeaf \in Leaves
           /\ member[u].private \in Held
           /\ Current(member[u].tree, member[u].private)
<1>1. Person(member[u], u, epoch) /\ member[u].status = "in" BY DEF Typed, In
<1>2. \A p \in 0 .. MaxEpoch : CreateGroup(u, "waiting", p).status = "waiting" BY DEF CreateGroup
<1>3. member[u] \in Inside /\ member[u].epoch <= epoch /\ Current(member[u].tree, member[u].private)
  BY <1>1, <1>2 DEF Person
<1>4. MaxEpoch \in Nat BY GroupAssumption
<1>. QED BY <1>3, <1>4 DEF Inside

\* What waiting says of it.
LEMMA WaitingIs ==
    ASSUME Typed, NEW u \in Users, member[u].status = "waiting"
    PROVE  /\ \E p \in 0 .. MaxEpoch :
                 member[u] = CreateGroup(u, "waiting", p) /\ member[u].tree.leaf[0] = Leaf(u, p)
           /\ member[u].tree.leaf[0] \in Package /\ member[u].tree.leaf[0].user = u
           /\ member[u].private = NothingHeld
<1>1. Person(member[u], u, epoch) BY DEF Typed
<1>2. member[u] \in Inside => member[u].status = "in" BY DEF Inside
<1>3. PICK p \in 0 .. MaxEpoch : member[u] = CreateGroup(u, "waiting", p) BY <1>1, <1>2 DEF Person
<1>4. /\ member[u].tree.leaf[0] = Leaf(u, p)
      /\ member[u].private = NothingHeld
  BY <1>3, CreateIs
<1>. QED BY <1>3, <1>4, LeafIs

\* What an author or a reader is left with.
LEMMA MovesOn ==
    ASSUME NEW g \in Inside, NEW t \in TreeType, NEW k \in Held, Current(t, k),
           NEW e \in 0 .. MaxEpoch, g.epoch + 1 <= e, NEW u
    PROVE  /\ Person([g EXCEPT !.epoch = @ + 1, !.tree = t, !.private = k], u, e)
           /\ g.private = k => Person([g EXCEPT !.epoch = @ + 1, !.tree = t], u, e)
<1>1. MaxEpoch \in Nat BY GroupAssumption
<1>2. g.epoch \in Nat /\ g.epoch + 1 \in 0 .. MaxEpoch BY <1>1 DEF Inside
<1>. DEFINE h == [g EXCEPT !.epoch = @ + 1, !.tree = t, !.private = k]
            i == [g EXCEPT !.epoch = @ + 1, !.tree = t]
<1>3. h \in Inside /\ h.epoch = g.epoch + 1 /\ h.tree = t /\ h.private = k BY <1>2 DEF Inside
<1>4. i \in Inside /\ i.epoch = g.epoch + 1 /\ i.tree = t /\ i.private = g.private BY <1>2 DEF Inside
<1>. QED BY <1>3, <1>4 DEF Person

\* A member who reads the commit, or refuses it.
LEMMA ReaderTyped ==
    ASSUME Typed, commit # None, NEW u \in Users, In(u)
    PROVE  Person(ProcessCommit(u), u, epoch)
<1>. DEFINE g == member[u]
            c == commit
<1>1. /\ g \in Inside /\ g.epoch \in Nat /\ g.epoch <= epoch /\ g.tree \in TreeType
      /\ g.private \in Held /\ Current(g.tree, g.private)
  BY InsideIs
<1>2. Sent(c, epoch) /\ epoch \in 0 .. MaxEpoch /\ MaxEpoch \in Nat BY GroupAssumption DEF Typed
<1>3. ProcessCommit(u) = IF c.epoch # g.epoch \/ c.leaf = g.myLeaf THEN g
                         ELSE IF RemovesMe(g, c.refs) THEN Out(g.private)
                         ELSE IF ~Applies(g, c) THEN g
                         ELSE [g EXCEPT !.epoch = @ + 1, !.tree = CommittedTree(g, c),
                                        !.private = KeysAfter(g, c)]
  <2>1. CASE c.path = <<>>
    <3>1. KeysAfter(g, c) = g.private BY <2>1 DEF KeysAfter
    <3>2. ProcessCommit(u) = IF c.epoch # g.epoch \/ c.leaf = g.myLeaf THEN g
                         ELSE IF RemovesMe(g, c.refs) THEN Out(g.private)
                         ELSE IF ~Applies(g, c) THEN g
                         ELSE [g EXCEPT !.epoch = @ + 1, !.tree = CommittedTree(g, c),
                                        !.private = IF c.path = <<>> THEN @
                                                    ELSE PathKeys(g, SeatedTree(g, c), c)]
      BY Zenon DEF ProcessCommit
    <3>. HIDE DEF g, c
    <3>. QED BY Zenon, <2>1, <3>1, <3>2
  <2>2. CASE c.path # <<>>
    <3>1. KeysAfter(g, c) = PathKeys(g, SeatedTree(g, c), c) BY <2>2 DEF KeysAfter
    <3>2. ProcessCommit(u) = IF c.epoch # g.epoch \/ c.leaf = g.myLeaf THEN g
                         ELSE IF RemovesMe(g, c.refs) THEN Out(g.private)
                         ELSE IF ~Applies(g, c) THEN g
                         ELSE [g EXCEPT !.epoch = @ + 1, !.tree = CommittedTree(g, c),
                                        !.private = IF c.path = <<>> THEN @
                                                    ELSE PathKeys(g, SeatedTree(g, c), c)]
      BY Zenon DEF ProcessCommit
    <3>. HIDE DEF g, c
    <3>. QED BY Zenon, <2>2, <3>1, <3>2
  <2>. QED BY <2>1, <2>2
<1>4. CASE c.epoch = g.epoch /\ c.leaf # g.myLeaf /\ RemovesMe(g, c.refs)
  <2>1. Out(g.private).status = "out" /\ Out(g.private).private = g.private BY DEF Out
  <2>2. ProcessCommit(u) = Out(g.private) BY <1>3, <1>4
  <2>. QED BY <1>1, <2>1, <2>2 DEF Person
<1>5. CASE \/ c.epoch # g.epoch \/ c.leaf = g.myLeaf
           \/ ~RemovesMe(g, c.refs) /\ ~Applies(g, c)
  <2>1. ProcessCommit(u) = g BY <1>3, <1>5
  <2>. QED BY <1>1, <2>1 DEF Person
<1>6. CASE /\ c.epoch = g.epoch /\ c.leaf # g.myLeaf
           /\ ~RemovesMe(g, c.refs) /\ Applies(g, c)
  <2>1. ProcessCommit(u) = [g EXCEPT !.epoch = @ + 1, !.tree = CommittedTree(g, c),
                                     !.private = KeysAfter(g, c)]
    BY <1>3, <1>6
  <2>. HIDE DEF g, c
  <2>2. c.epoch = g.epoch BY <1>6
  <2>3. c.epoch \in Nat /\ c.epoch + 1 <= epoch /\ c.leaf \in Leaves /\ Batch(c.refs)
        /\ (c.path # <<>> => c.fresh \in Package)
    BY <1>2 DEF Sent
  <2>4. c.epoch + 1 <= MaxEpoch BY <1>2, <2>3
  <2>5. /\ CommittedTree(g, c) \in TreeType /\ KeysAfter(g, c) \in Held
        /\ Current(CommittedTree(g, c), KeysAfter(g, c))
    BY <1>1, <1>6, <2>3, <2>4, CommittedIs
  <2>. DEFINE t == CommittedTree(g, c)
              k == KeysAfter(g, c)
  <2>6. ProcessCommit(u) = [g EXCEPT !.epoch = @ + 1, !.tree = t, !.private = k] BY Zenon, <2>1
  <2>7. g.epoch + 1 <= epoch BY <2>2, <2>3
  <2>8. t \in TreeType /\ k \in Held /\ Current(t, k) BY <2>5
  <2>. HIDE DEF t, k
  <2>9. Person([g EXCEPT !.epoch = @ + 1, !.tree = t, !.private = k], u, epoch)
    BY <1>1, <1>2, <2>7, <2>8, MovesOn
  <2>. QED BY Zenon, <2>6, <2>9
<1>. QED BY <1>4, <1>5, <1>6

\* One who waits and reads the welcome, or is not in it.
LEMMA JoinerTyped ==
    ASSUME Typed, commit # None, NEW u \in Users, member[u].status = "waiting"
    PROVE  Person(ProcessWelcome(u), u, epoch)
<1>. DEFINE g == member[u]
            t == ReadTree(commit.tree)
            mine == Seats(t, u)
            first == CHOOSE i \in mine : \A j \in mine : i <= j
            h == [g EXCEPT !.status = "in", !.epoch = commit.epoch + 1, !.tree = t, !.myLeaf = first]
<1>1. Sent(commit, epoch) /\ epoch \in 0 .. MaxEpoch /\ MaxEpoch \in Nat BY GroupAssumption DEF Typed
<1>2. t \in TreeType BY <1>1, ReadTreeIs DEF Sent
<1>3. PICK p \in 0 .. MaxEpoch : g = CreateGroup(u, "waiting", p) BY WaitingIs
<1>4. Person(g, u, epoch) BY DEF Typed
<1>5. ProcessWelcome(u) = IF mine = {} THEN g ELSE h BY Zenon DEF ProcessWelcome
<1>. HIDE DEF t
<1>6. CASE mine = {} BY <1>4, <1>5, <1>6
<1>7. CASE mine # {}
  <2>1. mine \subseteq Leaves BY DEF Seats
  <2>2. first \in Leaves
    <3>1. mine \subseteq Nat BY <2>1, WidestIs
    <3>. HIDE DEF mine
    <3>2. \E i \in mine : \A j \in mine : i <= j BY <1>7, <3>1, Least
    <3>3. first \in mine BY <3>2
    <3>. QED BY <2>1, <3>3
  <2>. HIDE DEF first
  <2>3. commit.epoch \in Nat /\ commit.epoch + 1 <= epoch BY <1>1 DEF Sent
  <2>4. NothingHeld \in Held /\ \A s : Current(s, NothingHeld) BY LeafIs
  <2>5. g = [status |-> "waiting", epoch |-> 0, tree |-> NewTree(Leaf(u, p)), myLeaf |-> 0,
             private |-> NothingHeld]
    BY <1>3 DEF CreateGroup
  <2>. DEFINE e == commit.epoch + 1
  <2>6. e \in 0 .. MaxEpoch /\ e <= epoch BY <1>1, <2>3
  <2>. HIDE DEF g, e
  <2>7. [g EXCEPT !.status = "in", !.epoch = e, !.tree = t, !.myLeaf = first] \in Inside
    BY <1>2, <2>2, <2>4, <2>5, <2>6 DEF Inside
  <2>8. /\ [g EXCEPT !.status = "in", !.epoch = e, !.tree = t, !.myLeaf = first].epoch = e
        /\ [g EXCEPT !.status = "in", !.epoch = e, !.tree = t, !.myLeaf = first].private = NothingHeld
    BY <2>5
  <2>9. Person([g EXCEPT !.status = "in", !.epoch = e, !.tree = t, !.myLeaf = first], u, epoch)
    BY <2>4, <2>6, <2>7, <2>8 DEF Person
  <2>. QED BY <1>5, <1>7, <2>9 DEF g, e
<1>. QED BY <1>6, <1>7

\* The steps one after the other keep the types: a key package sent,
LEMMA SendKeyPackageTyped ==
    ASSUME Typed, NEW u \in Users, SendKeyPackage(u)
    PROVE  Typed'
<1>. USE DEF SendKeyPackage
<1>1. MaxEpoch \in Nat /\ epoch \in 0 .. MaxEpoch /\ epoch + 1 \in 0 .. MaxEpoch
  BY GroupAssumption DEF Typed
<1>. DEFINE g == CreateGroup(u, "waiting", epoch + 1)
<1>2. g.status = "waiting" BY <1>1, CreateIs
<1>3. Person(g, u, epoch) BY <1>1, <1>2 DEF Person
<1>. HIDE DEF g
<1>4. DOMAIN member' = Users /\ member'[u] = g /\ \A v \in Users : v # u => member'[v] = member[v]
  BY DEF Typed, g
<1>5. \A v \in Users : Person(member'[v], v, epoch) BY <1>3, <1>4 DEF Typed
<1>. QED BY <1>4, <1>5 DEF Typed

\* one who goes without a word,
LEMMA VanishTyped ==
    ASSUME Typed, NEW u \in Users, Vanish(u)
    PROVE  Typed'
<1>. USE DEF Vanish
<1>. DEFINE g == Out(member[u].private)
<1>1. member[u].private \in Held BY InsideIs
<1>2. g.status = "out" /\ g.private = member[u].private BY DEF Out
<1>. HIDE DEF g
<1>3. Person(g, u, epoch) BY <1>1, <1>2 DEF Person
<1>4. DOMAIN member' = Users /\ member'[u] = g /\ \A v \in Users : v # u => member'[v] = member[v]
  BY DEF Typed, g
<1>5. \A v \in Users : Person(member'[v], v, epoch) BY <1>3, <1>4 DEF Typed
<1>. QED BY <1>4, <1>5 DEF Typed

\* a batch taken back,
LEMMA WithdrawTyped ==
    ASSUME Typed, Withdraw
    PROVE  Typed'
<1>1. Batch(<<>>) BY EmptyIsNothing DEF Batch
<1>2. /\ proposals' = <<>> /\ epoch' = epoch /\ member' = member /\ commit' = commit
      /\ refused' = refused /\ spoilt' = spoilt
  BY DEF Withdraw
<1>. QED BY <1>1, <1>2 DEF Typed

\* What a batch is made of.
LEMMA ProposedIs ==
    ASSUME Typed, Propose
    PROVE  /\ Quiet /\ epoch < MaxEpoch
           /\ UNCHANGED <<epoch, member, commit, refused, spoilt>>
           /\ DOMAIN proposals' \subseteq 1 .. MaxBatch
           /\ \A i, j \in DOMAIN proposals' : i # j => proposals'[i] # proposals'[j]
           /\ \A i \in DOMAIN proposals' :
                 \/ \E u \in Joiners : proposals'[i] = AddOf(u)
                 \/ \E k \in Leavers : proposals'[i] = RemoveOf(k)
<1>. DEFINE offers == {AddOf(u) : u \in Joiners} \union {RemoveOf(i) : i \in Leavers}
<1>1. PICK batch \in UNION {[1 .. n -> offers] : n \in 1 .. MaxBatch} :
         /\ \A i, j \in DOMAIN batch : i # j => batch[i] # batch[j]
         /\ proposals' = batch
  BY Zenon DEF Propose
<1>2. PICK n \in 1 .. MaxBatch : batch \in [1 .. n -> offers] BY <1>1
<1>3. MaxBatch \in Nat BY GroupAssumption
<1>4. DOMAIN batch = 1 .. n /\ \A i \in 1 .. n : batch[i] \in offers BY <1>2
<1>5. 1 .. n \subseteq 1 .. MaxBatch BY <1>3
<1>6. \A i \in DOMAIN batch : \/ \E u \in Joiners : batch[i] = AddOf(u)
                              \/ \E k \in Leavers : batch[i] = RemoveOf(k)
  BY <1>4
<1>. QED BY <1>1, <1>4, <1>5, <1>6 DEF Propose

\* a batch proposed,
LEMMA ProposeTyped ==
    ASSUME Typed, Propose
    PROVE  Typed'
<1>1. /\ epoch < MaxEpoch /\ UNCHANGED <<epoch, member, commit, refused, spoilt>>
      /\ DOMAIN proposals' \subseteq 1 .. MaxBatch
      /\ \A i \in DOMAIN proposals' :
            \/ \E u \in Joiners : proposals'[i] = AddOf(u)
            \/ \E k \in Leavers : proposals'[i] = RemoveOf(k)
  BY ProposedIs
<1>2. ASSUME NEW u \in Joiners PROVE Proposal(AddOf(u))
  <2>1. u \in Users /\ member[u].status = "waiting" BY DEF Joiners
  <2>2. member[u].tree.leaf[0] \in Package BY <2>1, WaitingIs
  <2>. QED BY <2>2 DEF Proposal, AddOf
<1>3. ASSUME NEW k \in Leavers PROVE Proposal(RemoveOf(k))
  BY DEF Leavers, Seats, Proposal
<1>4. Batch(proposals')
  <2>1. ASSUME NEW i \in DOMAIN proposals' PROVE Proposal(proposals'[i])
    <3>. DEFINE p == proposals'[i]
    <3>1. \/ \E u \in Joiners : p = AddOf(u)
          \/ \E k \in Leavers : p = RemoveOf(k)
      BY <1>1
    <3>. HIDE DEF p
    <3>2. Proposal(p) BY <1>2, <1>3, <3>1
    <3>. QED BY <3>2 DEF p
  <2>. QED BY <1>1, <2>1 DEF Batch
<1>. QED BY <1>1, <1>4 DEF Typed

\* What an author sends.
LEMMA SentIs ==
    ASSUME Typed, NEW u \in Users, In(u), NEW t \in TreeType, NEW path,
           path # <<>> => t.leaf[member[u].myLeaf] \in Package
    PROVE  Sent(NewCommit(u, t, Named(member[u]), path), epoch + 1)
<1>. DEFINE refs == Named(member[u])
            c == NewCommit(u, t, refs, path)
<1>1. Batch(refs) BY NamedIs DEF Typed
<1>. HIDE DEF refs
<1>2. /\ c.epoch = member[u].epoch /\ c.leaf = member[u].myLeaf /\ c.tree = t /\ c.refs = refs
      /\ c.path = path /\ c.fresh = t.leaf[member[u].myLeaf]
      /\ c.adds = {refs[i].leaf.user : i \in AddsOf(refs)}
  BY DEF NewCommit
<1>3. /\ member[u].epoch \in Nat /\ member[u].epoch <= epoch /\ member[u].myLeaf \in Leaves
  BY InsideIs
<1>4. epoch \in Nat BY GroupAssumption DEF Typed
<1>. HIDE DEF c
<1>. QED BY <1>1, <1>2, <1>3, <1>4 DEF Sent, c, refs

\* A commit spoils the group or does not.
LEMMA SpoiltOrNot == ASSUME NEW x, NEW y, NEW z PROVE (x \/ y \/ z) \in BOOLEAN
OBVIOUS

\* a commit without a path,
LEMMA BuildCommitTyped ==
    ASSUME Typed, NEW u \in Users, BuildCommit(u)
    PROVE  Typed'
<1>. DEFINE g == member[u]
            t == BuiltTree(g).tree
            c == NewCommit(u, t, Named(g), <<>>)
            h == [g EXCEPT !.epoch = @ + 1, !.tree = t]
<1>1. /\ In(u) /\ Named(g) # <<>> /\ commit' = c
      /\ member' = [member EXCEPT ![u] = h]
      /\ epoch' = epoch + 1 /\ proposals' = <<>> /\ refused' = refused
  BY Zenon DEF BuildCommit
<1>2. Batch(proposals) BY DEF Typed
<1>3. RefsOK(Named(g)) /\ proposals # <<>> BY <1>1, <1>2, NamedIs
<1>4. epoch < MaxEpoch /\ MaxEpoch \in Nat /\ epoch \in 0 .. MaxEpoch /\ epoch + 1 \in 0 .. MaxEpoch
  BY <1>3, GroupAssumption DEF Typed
<1>5. /\ g \in Inside /\ g.epoch \in Nat /\ g.epoch <= epoch /\ g.tree \in TreeType
      /\ g.private \in Held /\ Current(g.tree, g.private)
  BY <1>1, InsideIs
<1>6. t \in TreeType /\ KeepsKeys(g.tree, t) BY <1>3, <1>5, ChangedIs DEF BuiltTree
<1>7. Current(t, g.private) BY <1>5, <1>6, CurrentKept
<1>8. Sent(c, epoch + 1) BY <1>1, <1>6, SentIs
<1>9. Person(h, u, epoch + 1)
  <2>1. g.epoch + 1 <= epoch + 1 BY <1>4, <1>5
  <2>. HIDE DEF g, t
  <2>. QED BY <1>4, <1>5, <1>6, <1>7, <2>1, MovesOn
<1>. HIDE DEF c, t, h
<1>10. /\ DOMAIN member' = Users /\ member'[u] = h
       /\ \A v \in Users : v # u => member'[v] = member[v]
  <2>1. DOMAIN member = Users BY DEF Typed
  <2>. QED BY <1>1, <2>1
<1>11. \A v \in Users : v # u => Person(member'[v], v, epoch + 1)
  BY <1>4, <1>10, PersonLater DEF Typed
<1>12. \A v \in Users : Person(member'[v], v, epoch') BY <1>1, <1>9, <1>10, <1>11
<1>13. Batch(proposals') BY <1>1, EmptyIsNothing DEF Batch
<1>14. spoilt' \in BOOLEAN
  <2>1. spoilt' = (spoilt \/ ClearsUnnamed(member[u]) \/ LeavesUnlisted(member[u]))
    BY Zenon DEF BuildCommit
  <2>. QED BY Zenon, <2>1, SpoiltOrNot
<1>. QED BY <1>1, <1>4, <1>8, <1>10, <1>12, <1>13, <1>14 DEF Typed

\* The tree and the keys of the author of a path.
LEMMA RekeyedIs ==
    ASSUME NEW t \in TreeType, NEW a \in Leaves, NEW fresh \in Package, NEW path,
           NEW e \in 1 .. MaxEpoch, NEW private \in Held, Current(t, private)
    PROVE  LET keys == [n \in Nodes |-> IF n \in On(path) THEN e ELSE private[n]]
               r == Rekey(t, a, fresh, path, e)
           IN  keys \in Held /\ r \in TreeType /\ Current(r, keys)
<1>. DEFINE keys == [n \in Nodes |-> IF n \in On(path) THEN e ELSE private[n]]
            r == Rekey(t, a, fresh, path, e)
<1>1. MaxEpoch \in Nat BY GroupAssumption
<1>2. \A n \in Nodes : private[n] \in 0 .. MaxEpoch BY DEF Held
<1>3. \A n \in Nodes : (IF n \in On(path) THEN e ELSE private[n]) \in 0 .. MaxEpoch BY <1>1, <1>2
<1>4. keys \in Held BY <1>3 DEF Held
<1>5. /\ r \in TreeType
      /\ \A n \in Nodes : n \in On(path) => r.parent[n] # Blank /\ r.parent[n].key = e
      /\ \A n \in Nodes : n \notin On(path) => r.parent[n] = t.parent[n]
  BY RekeyIs
<1>6. \A n \in Nodes : keys[n] = IF n \in On(path) THEN e ELSE private[n] OBVIOUS
<1>. HIDE DEF keys, r
<1>7. Current(r, keys) BY <1>5, <1>6 DEF Current
<1>. QED BY <1>4, <1>5, <1>7 DEF keys, r

\* a commit with one,
LEMMA PathCommitTyped ==
    ASSUME Typed, NEW u \in Users, PathCommit(u)
    PROVE  Typed'
<1>. DEFINE g == member[u]
            built == BuiltTree(g).tree
            a == g.myLeaf
            path == SealedPath(built, a)
            fresh == Leaf(u, epoch + 1)
            e == epoch + 1
            t == Rekey(built, a, fresh, path, e)
            k == [n \in Nodes |-> IF n \in On(path) THEN e ELSE g.private[n]]
            c == NewCommit(u, t, Named(g), path)
            h == [g EXCEPT !.epoch = @ + 1, !.tree = t, !.private = k]
<1>1. /\ In(u) /\ Named(g) # <<>> /\ commit' = c
      /\ member' = [member EXCEPT ![u] = h]
      /\ epoch' = e /\ proposals' = <<>> /\ refused' = refused
  BY Zenon DEF PathCommit, On
<1>2. Batch(proposals) BY DEF Typed
<1>3. RefsOK(Named(g)) /\ proposals # <<>> BY <1>1, <1>2, NamedIs
<1>4. epoch < MaxEpoch /\ MaxEpoch \in Nat /\ epoch \in 0 .. MaxEpoch /\ e \in 1 .. MaxEpoch
      /\ e \in 0 .. MaxEpoch
  BY <1>3, GroupAssumption DEF Typed
<1>5. /\ g \in Inside /\ g.epoch \in Nat /\ g.epoch <= epoch /\ g.tree \in TreeType
      /\ g.private \in Held /\ Current(g.tree, g.private) /\ a \in Leaves
  BY <1>1, InsideIs
<1>6. built \in TreeType /\ KeepsKeys(g.tree, built) BY <1>3, <1>5, ChangedIs DEF BuiltTree
<1>7. Current(built, g.private) BY <1>5, <1>6, CurrentKept
<1>8. fresh \in Package BY <1>4, LeafIs
<1>. HIDE DEF built, fresh, path
<1>9. t \in TreeType /\ k \in Held /\ Current(t, k) /\ t.leaf[a] = fresh
  <2>. HIDE DEF e, g, a
  <2>1. t.leaf[a] = fresh BY <1>4, <1>5, <1>6, <1>8, RekeyIs
  <2>. QED BY <1>4, <1>5, <1>6, <1>7, <1>8, <2>1, RekeyedIs
<1>. HIDE DEF t, k
<1>10. Sent(c, e) BY <1>1, <1>8, <1>9, SentIs
<1>11. Person(h, u, e)
  <2>1. g.epoch + 1 <= e BY <1>4, <1>5
  <2>. HIDE DEF g, e
  <2>. QED BY <1>4, <1>5, <1>9, <2>1, MovesOn
<1>. HIDE DEF c, h
<1>12. /\ DOMAIN member' = Users /\ member'[u] = h
       /\ \A v \in Users : v # u => member'[v] = member[v]
  <2>1. DOMAIN member = Users BY DEF Typed
  <2>. QED BY <1>1, <2>1
<1>13. \A v \in Users : v # u => Person(member'[v], v, e)
  BY <1>4, <1>12, PersonLater DEF Typed
<1>14. \A v \in Users : Person(member'[v], v, epoch') BY <1>1, <1>11, <1>12, <1>13
<1>15. Batch(proposals') BY <1>1, EmptyIsNothing DEF Batch
<1>16. spoilt' \in BOOLEAN
  <2>1. spoilt' = (spoilt \/ CutShort(BuiltTree(member[u]).tree, member[u].myLeaf)
                     \/ AddsOf(Named(member[u])) # {})
    BY Zenon DEF PathCommit
  <2>. QED BY Zenon, <2>1, SpoiltOrNot
<1>. QED BY <1>1, <1>4, <1>10, <1>12, <1>14, <1>15, <1>16 DEF Typed

\* and a commit and its welcome handed round.
LEMMA HandRoundTyped ==
    ASSUME Typed, HandRound
    PROVE  Typed'
<1>. DEFINE readers == Members \ {commit.author}
            joining == {u \in commit.adds : member[u].status = "waiting"}
<1>1. /\ commit # None
      /\ member' = [u \in Users |-> IF u \in readers THEN ProcessCommit(u)
                                   ELSE IF u \in joining THEN ProcessWelcome(u)
                                   ELSE member[u]]
      /\ refused' = {u \in readers \union joining : member'[u] = member[u]}
      /\ commit' = None /\ epoch' = epoch /\ proposals' = proposals /\ spoilt' = spoilt
  BY Zenon DEF HandRound
<1>2. readers \subseteq Users BY DEF Members
<1>3. joining \subseteq Users
  <2>1. Sent(commit, epoch) BY <1>1 DEF Typed
  <2>2. ASSUME NEW i \in AddsOf(commit.refs) PROVE commit.refs[i].leaf.user \in Users
    <3>1. i \in DOMAIN commit.refs /\ commit.refs[i].type = "add" BY <2>2 DEF AddsOf
    <3>2. Proposal(commit.refs[i]) BY <2>1, <3>1 DEF Sent, Batch
    <3>3. \A k \in Leaves : RemoveOf(k).type = "remove" BY DEF RemoveOf
    <3>. QED BY <3>1, <3>2, <3>3 DEF Proposal, Package
  <2>. QED BY <2>1, <2>2 DEF Sent
<1>4. \A u \in readers : In(u) BY DEF Members
<1>5. \A u \in joining : member[u].status = "waiting" OBVIOUS
<1>. HIDE DEF readers, joining
<1>6. \A u \in readers : Person(ProcessCommit(u), u, epoch) BY <1>1, <1>2, <1>4, ReaderTyped
<1>7. \A u \in joining : Person(ProcessWelcome(u), u, epoch) BY <1>1, <1>3, <1>5, JoinerTyped
<1>8. \A u \in Users : Person(member'[u], u, epoch) BY <1>1, <1>6, <1>7 DEF Typed
<1>9. DOMAIN member' = Users BY <1>1
<1>10. refused' \subseteq Users BY <1>1, <1>2, <1>3
<1>. QED BY <1>1, <1>8, <1>9, <1>10 DEF Typed

\* Every step keeps the types.
LEMMA NextTyped == ASSUME Typed, [Next]_vars PROVE Typed'
<1>1. CASE UNCHANGED vars BY <1>1 DEF vars, Typed
<1>2. CASE Propose BY <1>2, ProposeTyped
<1>3. CASE Withdraw BY <1>3, WithdrawTyped
<1>4. CASE HandRound BY <1>4, HandRoundTyped
<1>5. ASSUME NEW u \in Users, SendKeyPackage(u) PROVE Typed' BY <1>5, SendKeyPackageTyped
<1>6. ASSUME NEW u \in Users, Vanish(u) PROVE Typed' BY <1>6, VanishTyped
<1>7. ASSUME NEW u \in Users, BuildCommit(u) PROVE Typed' BY <1>7, BuildCommitTyped
<1>8. ASSUME NEW u \in Users, PathCommit(u) PROVE Typed' BY <1>8, PathCommitTyped
<1>. QED BY <1>1, <1>2, <1>3, <1>4, <1>5, <1>6, <1>7, <1>8 DEF Next

\* What the variables hold is always what the structures can hold.
THEOREM TypeCorrect == Spec => []TypeOK
<1>1. ASSUME Typed PROVE TypeOK
  <2>1. ASSUME NEW u \in Users
        PROVE  \/ member[u].status = "out" /\ member[u].private \in Held
               \/ /\ member[u].status \in {"in", "waiting"}
                  /\ member[u].epoch \in 0 .. epoch
                  /\ member[u].tree.count \in 1 .. MAX_MEMBERS
                  /\ member[u].tree \in TreeType
                  /\ member[u].myLeaf \in Leaves
                  /\ member[u].private \in Held
    <3>1. Person(member[u], u, epoch) BY <1>1 DEF Typed
    <3>2. epoch \in Nat BY <1>1, GroupAssumption DEF Typed
    <3>3. CASE member[u].status = "out" /\ member[u].private \in Held BY <3>3
    <3>4. CASE member[u].status = "waiting"
      <4>1. PICK p \in 0 .. MaxEpoch : member[u] = CreateGroup(u, "waiting", p) BY <1>1, <3>4, WaitingIs
      <4>2. /\ member[u].epoch = 0 /\ member[u].tree \in TreeType /\ member[u].myLeaf \in Leaves
            /\ member[u].private \in Held
        BY <4>1, CreateIs, LeafIs
      <4>3. member[u].tree.count \in 1 .. MAX_MEMBERS BY <4>2, TypeIs
      <4>. QED BY <3>2, <3>4, <4>2, <4>3
    <3>5. CASE member[u] \in Inside
      <4>1. member[u].status = "in" BY <3>5 DEF Inside
      <4>2. In(u) BY <4>1 DEF In
      <4>3. /\ member[u].epoch \in Nat /\ member[u].epoch <= epoch /\ member[u].tree \in TreeType
            /\ member[u].myLeaf \in Leaves /\ member[u].private \in Held
        BY <1>1, <4>2, InsideIs
      <4>4. member[u].tree.count \in 1 .. MAX_MEMBERS BY <4>3, TypeIs
      <4>. QED BY <3>2, <4>1, <4>3, <4>4
    <3>. QED BY <3>1, <3>3, <3>4, <3>5 DEF Person
  <2>. QED BY <1>1, <2>1 DEF Typed, TypeOK
<1>. QED BY <1>1, InitTyped, NextTyped, PTL DEF Spec

\* A key that a member holds for a node is the one the tree has there now,
\* whatever was sent and whoever came back.
THEOREM KeysAreCurrent == Spec => []HeldKeysAreCurrent
<1>1. ASSUME Typed PROVE HeldKeysAreCurrent
  <2>1. ASSUME NEW u \in Members PROVE Current(member[u].tree, member[u].private)
    BY <1>1, <2>1, InsideIs DEF Members
  <2>. QED BY <2>1 DEF HeldKeysAreCurrent, Current
<1>. QED BY <1>1, InitTyped, NextTyped, PTL DEF Spec

-----------------------------------------------------------------------------
(* What a commit does to a tree, and who can read it.                       *)

\* Whoever comes new is listed wherever there is a key above them.
Listed(t, r) ==
    \A b \in Leaves : t.leaf[b] = Blank /\ r.leaf[b] # Blank =>
        \A n \in Nodes : 2 * b \in Under[n] /\ r.parent[n] # Blank => b \in r.parent[n].unmerged

\* Growth costs nobody a key.
LEMMA GrowsKeeps ==
    ASSUME NEW t, NEW r, Grows(t, r)
    PROVE  /\ \A b, private : Knows(t, b, private) => Knows(r, b, private)
           /\ \A private : Current(t, private) => Current(r, private)
<1>1. ASSUME NEW b, NEW private, Knows(t, b, private) PROVE Knows(r, b, private)
  BY <1>1 DEF Grows, Knows
<1>2. ASSUME NEW private, Current(t, private) PROVE Current(r, private)
  BY <1>2 DEF Grows, Current
<1>. QED BY <1>1, <1>2

\* It lists all that come new unless a list is full.
LEMMA ListsAll ==
    ASSUME NEW g, ~LeavesUnlisted(g), BuiltTree(g).tree \in TreeType,
           Grows(RemoveAll(g.tree, CommittedRemoves(g)), BuiltTree(g).tree)
    PROVE  Listed(RemoveAll(g.tree, CommittedRemoves(g)), BuiltTree(g).tree)
<1>. DEFINE t == RemoveAll(g.tree, CommittedRemoves(g))
            r == BuiltTree(g).tree
<1>1. ~ \E b \in Leaves, n \in Nodes :
            /\ t.leaf[b] = Blank /\ r.leaf[b] # Blank
            /\ LeafToNode(b) \in Under[n] /\ r.parent[n] # Blank
            /\ b \notin r.parent[n].unmerged
            /\ Cardinality(r.parent[n].unmerged) >= MAX_UNMERGED
  BY Zenon DEF LeavesUnlisted
<1>2. Grows(t, r) OBVIOUS
<1>. HIDE DEF t, r
<1>3. ASSUME NEW b \in Leaves, t.leaf[b] = Blank, r.leaf[b] # Blank,
             NEW n \in Nodes, 2 * b \in Under[n], r.parent[n] # Blank
      PROVE  b \in r.parent[n].unmerged
  <2>1. LeafToNode(b) = 2 * b BY LeavesAre
  <2>2. b \in r.parent[n].unmerged \/ Cardinality(r.parent[n].unmerged) >= MAX_UNMERGED
    BY <1>2, <1>3 DEF Grows
  <2>. QED BY Zenon, <1>1, <1>3, <2>1, <2>2
<1>4. Listed(t, r) BY <1>3 DEF Listed
<1>. QED BY <1>4 DEF t, r

\* References that add each person once, and remove them wherever they sit already.
Fresh(refs, t) ==
    /\ \A j, k \in AddsOf(refs) : refs[j].leaf.user = refs[k].leaf.user => j = k
    /\ \A k \in AddsOf(refs) : Seats(t, refs[k].leaf.user) \subseteq Removed(refs)

\* What references do to a tree.
LEMMA AppliedIs ==
    ASSUME NEW t, GoodTree(t), NEW refs, RefsOK(refs), Fresh(refs, t),
           AppliedTree(t, refs).ok
    PROVE  LET m == RemoveAll(t, Removed(refs))
               r == AppliedTree(t, refs).tree
           IN  /\ GoodTree(r) /\ Grows(m, r)
               /\ \A b \in Leaves : b \notin Removed(refs) /\ t.leaf[b] # Blank =>
                     r.leaf[b] = t.leaf[b]
               /\ \A b, private : Knows(t, b, private) => Knows(r, b, private)
               /\ \A private : Current(t, private) => Current(r, private)
               /\ \A k \in AddsOf(refs) : Seats(r, refs[k].leaf.user) # {}
               /\ Listed(m, r) => \A k \in AddsOf(refs) : \A i \in Seats(r, refs[k].leaf.user) :
                     \A private : Knows(r, i, private)
<1>. DEFINE m == RemoveAll(t, Removed(refs))
            r == AppliedTree(t, refs).tree
<1>1. t \in TreeType BY DEF GoodTree
<1>2. /\ GoodTree(m) /\ m.parent = t.parent
      /\ \A i \in Leaves : m.leaf[i] = IF i \in Removed(refs) THEN Blank ELSE t.leaf[i]
  BY <1>1, RemoveAllIs
<1>3. AppliedTree(t, refs) = AddAll(m, refs) BY Zenon DEF AppliedTree
<1>. HIDE DEF m
<1>4. \A k \in AddsOf(refs) : \A i \in Leaves :
         m.leaf[i] # Blank => m.leaf[i].user # refs[k].leaf.user
  BY <1>2 DEF Fresh, Seats
<1>5. \A j, k \in AddsOf(refs) : refs[j].leaf.user = refs[k].leaf.user => j = k BY DEF Fresh
<1>6. /\ GoodTree(r) /\ Grows(m, r)
      /\ \A i \in Leaves : r.leaf[i] # Blank /\ m.leaf[i] = Blank =>
            \E k \in AddsOf(refs) : r.leaf[i] = refs[k].leaf
      /\ \A k \in AddsOf(refs) : \E i \in Leaves : r.leaf[i] = refs[k].leaf
  BY <1>2, <1>3, <1>4, <1>5, AddAllGood
<1>. HIDE DEF r
<1>7. /\ \A b, private : Knows(m, b, private) => Knows(r, b, private)
      /\ \A private : Current(m, private) => Current(r, private)
  BY <1>6, GrowsKeeps
<1>8. \A b, private : Knows(t, b, private) => Knows(m, b, private) BY <1>2 DEF Knows
<1>9. \A private : Current(t, private) => Current(m, private) BY <1>2 DEF Current
<1>10. \A i \in Leaves : m.leaf[i] # Blank => r.leaf[i] = m.leaf[i] /\ m.leaf[i] = t.leaf[i]
  BY <1>2, <1>6 DEF Grows
<1>11. ASSUME NEW k \in AddsOf(refs), NEW i \in Seats(r, refs[k].leaf.user)
       PROVE  m.leaf[i] = Blank /\ r.leaf[i] # Blank /\ i \in Leaves
  <2>1. i \in Leaves /\ r.leaf[i] # Blank /\ r.leaf[i].user = refs[k].leaf.user BY <1>11 DEF Seats
  <2>. QED BY <1>4, <1>10, <2>1
<1>13. ASSUME NEW k \in AddsOf(refs) PROVE Seats(r, refs[k].leaf.user) # {}
  <2>1. PICK i \in Leaves : r.leaf[i] = refs[k].leaf BY <1>6
  <2>2. refs[k].leaf # Blank BY BlankIsNone DEF RefsOK
  <2>. QED BY <2>1, <2>2 DEF Seats
<1>14. ASSUME Listed(m, r), NEW k \in AddsOf(refs), NEW i \in Seats(r, refs[k].leaf.user), NEW private
       PROVE  Knows(r, i, private)
  BY <1>11, <1>14 DEF Listed, Knows
<1>15. \A b \in Leaves : b \notin Removed(refs) /\ t.leaf[b] # Blank => r.leaf[b] = t.leaf[b]
  BY <1>2, <1>10
<1>16. \A b, private : Knows(t, b, private) => Knows(r, b, private) BY <1>7, <1>8
<1>17. \A private : Current(t, private) => Current(r, private) BY <1>7, <1>9
<1>. QED BY <1>6, <1>13, <1>14, <1>15, <1>16, <1>17 DEF m, r

\* What is built is what the references give, when they name all that is cleared.
LEMMA BuiltIs ==
    ASSUME NEW g, CommittedRemoves(g) = Removed(Named(g))
    PROVE  BuiltTree(g) = AppliedTree(g.tree, Named(g))
<1>. DEFINE n == Named(g)
<1>1. BuiltTree(g) = AddAll(RemoveAll(g.tree, CommittedRemoves(g)), n) BY Zenon DEF BuiltTree
<1>. QED BY Zenon, <1>1 DEF AppliedTree

\* The leaf somebody who comes back has kept: they have no other.
LEMMA StaleIs ==
    ASSUME NEW g, GoodTree(g.tree), NEW w, NEW i \in Seats(g.tree, w), i # g.myLeaf
    PROVE  StaleLeaf(g, w) = {i}
<1>. DEFINE theirs == Seats(g.tree, w) \ {g.myLeaf}
            first == CHOOSE k \in theirs : \A j \in theirs : k <= j
<1>1. StaleLeaf(g, w) = IF theirs = {} THEN {} ELSE {first} BY Zenon DEF StaleLeaf
<1>2. \A j \in Seats(g.tree, w) : j = i BY DEF GoodTree, Seats
<1>3. theirs = {i} BY <1>2
<1>4. i <= i BY WidestIs DEF Seats
<1>5. first \in theirs
  <2>. HIDE DEF theirs
  <2>1. \E k \in theirs : \A j \in theirs : k <= j BY <1>3, <1>4
  <2>. QED BY <2>1
<1>. HIDE DEF theirs, first
<1>. QED BY <1>1, <1>3, <1>5

\* Whoever is not told to go is not among the removed.
LEMMA NotRemoved ==
    ASSUME NEW g, NEW refs, Batch(refs), ~RemovesMe(g, refs)
    PROVE  g.myLeaf \notin Removed(refs)
<1>1. SUFFICES ASSUME NEW i \in DOMAIN refs, refs[i].type = "remove", refs[i].index = g.myLeaf
               PROVE  FALSE
  BY DEF Removed
<1>2. Proposal(refs[i]) BY <1>1 DEF Batch
<1>3. PICK k \in Leaves : refs[i] = RemoveOf(k) BY <1>1, <1>2 DEF Proposal
<1>4. k = g.myLeaf BY <1>1, <1>3 DEF RemoveOf
<1>. QED BY <1>1, <1>3, <1>4 DEF RemovesMe

\* A member reads a commit made of references alone.
LEMMA ReadsReferences ==
    ASSUME NEW g, NEW u, Sits(g.tree, g.myLeaf, u, g.private),
           NEW c, Batch(c.refs), RefsOK(c.refs), Fresh(c.refs, g.tree),
           AppliedTree(g.tree, c.refs).ok,
           c.epoch = g.epoch, c.leaf # g.myLeaf, c.path = <<>>,
           c.tree = AppliedTree(g.tree, c.refs).tree, c.hash = TreeHash(c.tree)
    PROVE  Reads(g, u, c)
<1>. SUFFICES ASSUME ~RemovesMe(g, c.refs)
              PROVE  /\ Applies(g, c)
                     /\ CommittedTree(g, c) = c.tree
                     /\ Sits(c.tree, g.myLeaf, u, KeysAfter(g, c))
  BY DEF Reads
<1>1. CommittedTree(g, c) = c.tree BY DEF CommittedTree
<1>2. Applies(g, c) BY <1>1 DEF Applies
<1>3. KeysAfter(g, c) = g.private BY DEF KeysAfter
<1>4. g.myLeaf \notin Removed(c.refs) BY NotRemoved
<1>. DEFINE t == g.tree
            b == g.myLeaf
<1>5. /\ GoodTree(t) /\ b \in Leaves /\ t.leaf[b] # Blank /\ t.leaf[b].user = u
      /\ Current(t, g.private) /\ Knows(t, b, g.private)
  BY DEF Sits
<1>. HIDE DEF t, b
<1>6. /\ Fresh(c.refs, t) /\ AppliedTree(t, c.refs).ok /\ b \notin Removed(c.refs)
      /\ c.tree = AppliedTree(t, c.refs).tree
  BY <1>4 DEF t, b
<1>7. /\ GoodTree(c.tree) /\ c.tree.leaf[b] = t.leaf[b]
      /\ Knows(c.tree, b, g.private) /\ Current(c.tree, g.private)
  BY <1>5, <1>6, AppliedIs
<1>8. Sits(c.tree, b, u, g.private) BY <1>5, <1>7 DEF Sits
<1>. QED BY <1>1, <1>2, <1>3, <1>8 DEF b

\* The author of a path, after it.
LEMMA AuthorSits ==
    ASSUME NEW t, NEW a, NEW u, NEW private, Sits(t, a, u, private), ~CutShort(t, a),
           NEW fresh \in Package, fresh.user = u, NEW e \in 1 .. MaxEpoch,
           NEW keys, \A n \in Nodes : keys[n] = IF n \in On(SealedPath(t, a)) THEN e ELSE private[n]
    PROVE  Sits(Rekey(t, a, fresh, SealedPath(t, a), e), a, u, keys)
<1>. DEFINE path == SealedPath(t, a)
            r == Rekey(t, a, fresh, path, e)
<1>1. /\ GoodTree(t) /\ a \in Leaves /\ t.leaf[a] # Blank /\ t.leaf[a].user = u
      /\ Current(t, private) /\ Knows(t, a, private)
  BY DEF Sits
<1>2. t \in TreeType BY <1>1 DEF GoodTree
<1>3. \A n \in Nodes : n \in On(path) => ~IsLeaf(n) /\ n < NodeWidth(t.count) BY <1>1, OnIs
<1>. HIDE DEF path
<1>4. /\ r.leaf[a] = fresh
      /\ \A n \in Nodes : n \in On(path) => r.parent[n] # Blank /\ r.parent[n].key = e
      /\ \A n \in Nodes : n \notin On(path) => r.parent[n] = t.parent[n]
      /\ GoodTree(r)
  BY <1>1, <1>2, <1>3, RekeyIs
<1>5. \A n \in Nodes : keys[n] = IF n \in On(path) THEN e ELSE private[n] BY DEF path
<1>. HIDE DEF r
<1>6. e # 0 /\ fresh # Blank BY GroupAssumption, BlankIsNone
<1>7. Current(r, keys) BY <1>1, <1>4, <1>5 DEF Current
<1>8. Knows(r, a, keys) BY <1>1, <1>4, <1>5, <1>6 DEF Knows
<1>. QED BY <1>1, <1>4, <1>6, <1>7, <1>8 DEF Sits, r, path

\* A tree with one leaf written.
SeatAt(t, a, fresh) == [t EXCEPT !.leaf[a] = fresh]

\* A leaf replaced leaves the rest of the tree alone.
LEMMA SeatIs ==
    ASSUME NEW t \in TreeType, NEW a \in Leaves, NEW fresh \in Package
    PROVE  LET s == SeatAt(t, a, fresh)
           IN  /\ s.count = t.count /\ s.parent = t.parent
               /\ s.leaf[a] = fresh /\ \A i \in Leaves : i # a => s.leaf[i] = t.leaf[i]
               /\ [s EXCEPT !.leaf[a] = fresh] = s
<1>. DEFINE s == SeatAt(t, a, fresh)
            l == [t.leaf EXCEPT ![a] = fresh]
            z == [count |-> t.count, leaf |-> l, parent |-> t.parent]
<1>1. t = [count |-> t.count, leaf |-> t.leaf, parent |-> t.parent]
      /\ t.leaf \in [Leaves -> Package \union {Blank}]
  BY TypeIs
<1>2. s = z BY <1>1 DEF SeatAt
<1>3. l[a] = fresh /\ (\A i \in Leaves : i # a => l[i] = t.leaf[i]) /\ l = [l EXCEPT ![a] = fresh]
  BY <1>1
<1>. HIDE DEF l, s
<1>4. s.count = t.count /\ s.parent = t.parent /\ s.leaf = l BY <1>2
<1>5. [s EXCEPT !.leaf[a] = fresh] = s
  <2>1. [z EXCEPT !.leaf[a] = fresh] = [count |-> t.count, leaf |-> [l EXCEPT ![a] = fresh], parent |-> t.parent]
    OBVIOUS
  <2>2. [z EXCEPT !.leaf[a] = fresh] = z BY Zenon, <1>3, <2>1
  <2>. QED BY Zenon, <1>2, <2>2
<1>. QED BY <1>3, <1>4, <1>5 DEF s

\* The parents of a path rekeyed.
Rekeyed(s, levels, e) ==
    [s EXCEPT !.parent = [n \in Nodes |->
        IF n \in On(levels) THEN [key |-> e, unmerged |-> {}] ELSE s.parent[n]]]

\* Writing the sender's leaf again changes nothing.
LEMMA RekeyAgain ==
    ASSUME NEW s, NEW a, NEW fresh, NEW e, NEW levels, [s EXCEPT !.leaf[a] = fresh] = s
    PROVE  Rekey(s, a, fresh, levels, e) = Rekeyed(s, levels, e)
<1>1. Rekey(s, a, fresh, levels, e)
        = [[s EXCEPT !.leaf[a] = fresh] EXCEPT !.parent = [n \in Nodes |->
            IF n \in On(levels) THEN [key |-> e, unmerged |-> {}]
            ELSE [s EXCEPT !.leaf[a] = fresh].parent[n]]]
  BY Zenon DEF Rekey, On
<1>2. ASSUME NEW x, x = s
      PROVE  [x EXCEPT !.parent = [n \in Nodes |->
                IF n \in On(levels) THEN [key |-> e, unmerged |-> {}] ELSE x.parent[n]]]
               = [s EXCEPT !.parent = [n \in Nodes |->
                IF n \in On(levels) THEN [key |-> e, unmerged |-> {}] ELSE s.parent[n]]]
  BY Zenon, <1>2
<1>. DEFINE x == [s EXCEPT !.leaf[a] = fresh]
<1>3. Rekey(s, a, fresh, levels, e)
        = [x EXCEPT !.parent = [n \in Nodes |->
            IF n \in On(levels) THEN [key |-> e, unmerged |-> {}] ELSE x.parent[n]]]
  BY Zenon, <1>1
<1>. HIDE DEF x
<1>4. x = s BY DEF x
<1>. QED BY Zenon, <1>2, <1>3, <1>4 DEF Rekeyed

\* The sender's new leaf may be in its place already.
LEMMA RekeySeated ==
    ASSUME NEW t \in TreeType, NEW a \in Leaves, NEW fresh \in Package, NEW e,
           NEW levels, NEW path, On(levels) = On(path),
           NEW s, s = SeatAt(t, a, fresh)
    PROVE  Rekey(s, a, fresh, levels, e) = Rekey(t, a, fresh, path, e)
<1>1. [s EXCEPT !.leaf[a] = fresh] = s
  <2>1. [SeatAt(t, a, fresh) EXCEPT !.leaf[a] = fresh] = SeatAt(t, a, fresh) BY SeatIs
  <2>. QED BY Zenon, <2>1
<1>2. Rekey(s, a, fresh, levels, e) = Rekeyed(s, levels, e) BY <1>1, RekeyAgain
<1>3. Rekey(t, a, fresh, path, e) = Rekeyed(s, path, e)
  <2>1. Rekey(t, a, fresh, path, e)
          = [[t EXCEPT !.leaf[a] = fresh] EXCEPT !.parent = [n \in Nodes |->
              IF n \in On(path) THEN [key |-> e, unmerged |-> {}]
              ELSE [t EXCEPT !.leaf[a] = fresh].parent[n]]]
    BY Zenon DEF Rekey, On
  <2>. QED BY Zenon, <2>1 DEF Rekeyed, SeatAt
<1>4. Rekeyed(s, levels, e) = Rekeyed(s, path, e) BY Zenon DEF Rekeyed
<1>. QED BY <1>2, <1>3, <1>4

\* A tree a member's path was rekeyed on: in order, every other leaf as it was,
\* the nodes of the path on the new key and every other node as it was.
KeyedOn(t, r, leaf, path, e) ==
    /\ GoodTree(r)
    /\ \A i \in Leaves : i # leaf => r.leaf[i] = t.leaf[i]
    /\ \A n \in Nodes : n \in On(path) => r.parent[n] # Blank /\ r.parent[n].key = e
    /\ \A n \in Nodes : n \notin On(path) => r.parent[n] = t.parent[n]

\* A tree in order is in order once a member's path is rekeyed.
LEMMA RekeyGood ==
    ASSUME NEW t, GoodTree(t), NEW leaf \in Leaves, NEW fresh \in Package, NEW levels,
           NEW e \in 1 .. MaxEpoch, t.leaf[leaf] # Blank, t.leaf[leaf].user = fresh.user,
           \A n \in Nodes : n \in On(levels) => ~IsLeaf(n) /\ n < NodeWidth(t.count),
           NEW r, r = Rekey(t, leaf, fresh, levels, e)
    PROVE  KeyedOn(t, r, leaf, levels, e)
<1>1. t \in TreeType BY DEF GoodTree
<1>2. /\ \A i \in Leaves : i # leaf => r.leaf[i] = t.leaf[i]
      /\ \A n \in Nodes : n \in On(levels) => r.parent[n] # Blank /\ r.parent[n].key = e
      /\ \A n \in Nodes : n \notin On(levels) => r.parent[n] = t.parent[n]
  BY <1>1, RekeyIs
<1>3. GoodTree(r) BY <1>1, RekeyIs
<1>. QED BY <1>2, <1>3 DEF KeyedOn

\* A member reads a commit with a path.
LEMMA ReadsPath ==
    ASSUME NEW g, NEW u, Sits(g.tree, g.myLeaf, u, g.private),
           NEW c, Batch(c.refs), RefsOK(c.refs), Fresh(c.refs, g.tree),
           AppliedTree(g.tree, c.refs).ok,
           c.epoch = g.epoch, c.leaf # g.myLeaf, c.path # <<>>,
           c.epoch + 1 \in 1 .. MaxEpoch, c.leaf \in Leaves, c.fresh \in Package,
           NEW t, t = AppliedTree(g.tree, c.refs).tree, ~CutShort(t, c.leaf),
           t.leaf[c.leaf] # Blank, t.leaf[c.leaf].user = c.fresh.user,
           c.path = SealedPath(t, c.leaf),
           c.tree = Rekey(t, c.leaf, c.fresh, c.path, c.epoch + 1), c.hash = TreeHash(c.tree)
    PROVE  Reads(g, u, c)
<1>. SUFFICES ASSUME ~RemovesMe(g, c.refs)
              PROVE  /\ Applies(g, c)
                     /\ CommittedTree(g, c) = c.tree
                     /\ Sits(c.tree, g.myLeaf, u, KeysAfter(g, c))
  BY DEF Reads
<1>. DEFINE b == g.myLeaf
            a == c.leaf
            s == SeatedTree(g, c)
            e == c.epoch + 1
            keys == PathKeys(g, s, c)
            levels == FilteredDirectPath(s, LeafToNode(a))
            r == c.tree
<1>1. b \notin Removed(c.refs) BY NotRemoved
<1>2. /\ GoodTree(g.tree) /\ b \in Leaves /\ g.tree.leaf[b] # Blank /\ g.tree.leaf[b].user = u
      /\ Current(g.tree, g.private) /\ Knows(g.tree, b, g.private)
  BY DEF Sits
<1>3. /\ GoodTree(t) /\ t.leaf[b] = g.tree.leaf[b]
      /\ Knows(t, b, g.private) /\ Current(t, g.private)
  <2>. DEFINE o == g.tree
  <2>1. /\ GoodTree(o) /\ Fresh(c.refs, o) /\ AppliedTree(o, c.refs).ok
        /\ t = AppliedTree(o, c.refs).tree
        /\ o.leaf[b] # Blank /\ Current(o, g.private) /\ Knows(o, b, g.private)
    BY <1>2
  <2>. HIDE DEF o, b
  <2>2. /\ GoodTree(t) /\ t.leaf[b] = o.leaf[b]
        /\ Knows(t, b, g.private) /\ Current(t, g.private)
    BY <1>1, <1>2, <2>1, AppliedIs
  <2>. QED BY <2>2 DEF o
<1>4. t \in TreeType BY <1>3 DEF GoodTree
<1>5. s = SeatAt(t, a, c.fresh) BY Zenon DEF SeatedTree, SeatAt
<1>. HIDE DEF s
<1>6. /\ s.count = t.count /\ s.parent = t.parent
      /\ s.leaf[a] = c.fresh /\ \A i \in Leaves : i # a => s.leaf[i] = t.leaf[i]
  BY <1>4, <1>5, SeatIs
<1>7. \A i \in Leaves : s.leaf[i] # Blank <=> t.leaf[i] # Blank BY <1>6, BlankIsNone
<1>8. /\ OpensPath(g, s, c)
      /\ On(levels) = On(SealedPath(t, a))
      /\ \A n \in Nodes :
            /\ n \notin On(SealedPath(t, a)) => keys[n] = g.private[n]
            /\ n \in On(SealedPath(t, a)) => keys[n] \in {0, e}
            /\ n \in On(SealedPath(t, a)) /\ 2 * b \in Under[n] => keys[n] = e
  BY <1>2, <1>3, <1>6, <1>7, PathOpens
<1>9. \A n \in Nodes : n \in On(SealedPath(t, a)) => ~IsLeaf(n) /\ n < NodeWidth(t.count)
  BY <1>3, OnIs
<1>10. CommittedTree(g, c) = Rekey(s, a, c.fresh, levels, e) BY Zenon DEF CommittedTree, s
<1>. HIDE DEF levels, keys
<1>11. Rekey(s, a, c.fresh, levels, e) = Rekey(t, a, c.fresh, c.path, e)
  BY <1>4, <1>5, <1>8, RekeySeated
<1>12. CommittedTree(g, c) = c.tree BY <1>10, <1>11
<1>13. Applies(g, c) BY <1>8, <1>12 DEF Applies, s
<1>14. KeysAfter(g, c) = keys BY DEF KeysAfter, keys, s
<1>15. /\ GoodTree(r) /\ r.leaf[b] = t.leaf[b]
       /\ \A n \in Nodes : n \in On(SealedPath(t, a)) => r.parent[n] # Blank /\ r.parent[n].key = e
       /\ \A n \in Nodes : n \notin On(SealedPath(t, a)) => r.parent[n] = t.parent[n]
  <2>. DEFINE f == c.fresh
              path == c.path
  <2>1. /\ r = Rekey(t, a, f, path, e) /\ e \in 1 .. MaxEpoch /\ f \in Package /\ a \in Leaves
        /\ t.leaf[a] # Blank /\ t.leaf[a].user = f.user /\ b # a /\ path = SealedPath(t, a)
    OBVIOUS
  <2>2. \A n \in Nodes : n \in On(path) => ~IsLeaf(n) /\ n < NodeWidth(t.count) BY <1>9
  <2>. HIDE DEF f, path, a, b, e, r
  <2>3. KeyedOn(t, r, a, path, e)
    <3>1. /\ GoodTree(t) /\ e \in 1 .. MaxEpoch /\ f \in Package /\ a \in Leaves
          /\ t.leaf[a] # Blank /\ t.leaf[a].user = f.user
      BY <1>3, <2>1
    <3>2. r = Rekey(t, a, f, path, e) BY <2>1
    <3>. QED BY <2>2, <3>1, <3>2, RekeyGood
  <2>4. r.leaf[b] = t.leaf[b] BY <1>2, <2>1, <2>3 DEF KeyedOn
  <2>5. On(path) = On(SealedPath(t, a)) BY <2>1
  <2>. QED BY Zenon, <2>3, <2>4, <2>5 DEF KeyedOn
<1>16. e # 0 BY GroupAssumption
<1>. HIDE DEF e, r
<1>. DEFINE on == On(SealedPath(t, a))
<1>a. \A n \in Nodes : /\ n \in on => r.parent[n] # Blank /\ r.parent[n].key = e
                       /\ n \notin on => r.parent[n] = t.parent[n]
  BY Zenon, <1>15
<1>b. \A n \in Nodes : /\ n \notin on => keys[n] = g.private[n]
                       /\ n \in on => keys[n] \in {0, e}
                       /\ n \in on /\ 2 * b \in Under[n] => keys[n] = e
  BY Zenon, <1>8
<1>. HIDE DEF on, b
<1>17. Current(r, keys) BY <1>3, <1>a, <1>b DEF Current
<1>18. Knows(r, b, keys) BY <1>3, <1>a, <1>b, <1>16 DEF Knows
<1>19. Sits(r, b, u, keys) BY <1>2, <1>3, <1>15, <1>17, <1>18 DEF Sits
<1>. QED BY <1>12, <1>13, <1>14, <1>19 DEF r, b

-----------------------------------------------------------------------------
(* A group whose commits everybody could follow.                            *)

\* Nothing referred to adds nobody.
LEMMA AddsOfNothing == AddsOf(<<>>) = {}
BY EmptyIsNothing DEF AddsOf

\* A call of two begins in order.
LEMMA InitOrderly == ASSUME Init PROVE Orderly
<1>1. PICK u \in Users, v \in Users : CallOfTwo(u, v) BY InitIs
<1>. DEFINE one == NewTree(Leaf(u, 0))
            two == AddLeaf(one, Leaf(v, 0))
<1>2. 0 \in 0 .. MaxEpoch BY GroupAssumption
<1>3. /\ Leaf(u, 0) \in Package /\ Leaf(v, 0) \in Package
      /\ Leaf(u, 0).user = u /\ Leaf(v, 0).user = v
  BY <1>2, LeafIs
<1>4. /\ GoodTree(one)
      /\ \A i \in Leaves : one.leaf[i] = IF i = 0 THEN Leaf(u, 0) ELSE Blank
  BY <1>3, NewTreeGood, NewTreeIs
<1>5. /\ AllocateLeaf(one) = 1 /\ 1 \in Leaves /\ 0 \in Leaves
      /\ two.leaf[0] = Leaf(u, 0) /\ two.leaf[1] = Leaf(v, 0)
      /\ \A n \in Nodes : two.parent[n] = Blank
  BY TwoIs, WidestIs
<1>6. u # v BY <1>1 DEF CallOfTwo
<1>. HIDE DEF one
<1>7. GoodTree(two) BY <1>3, <1>4, <1>5, <1>6, AddLeafGood
<1>8. member[u] = [status |-> "in", epoch |-> 0, tree |-> two, myLeaf |-> 0, private |-> NothingHeld]
      /\ member[v] = [status |-> "in", epoch |-> 0, tree |-> two, myLeaf |-> 1, private |-> NothingHeld]
      /\ \A w \in Users : w # u /\ w # v => member[w].status = "out"
  BY <1>1 DEF CallOfTwo, one
<1>. HIDE DEF two
<1>9. \A t : Current(t, NothingHeld) BY LeafIs
<1>10. \A b : Knows(two, b, NothingHeld) BY <1>5 DEF Knows
<1>11. Sits(two, 0, u, NothingHeld) /\ Sits(two, 1, v, NothingHeld)
  BY <1>3, <1>5, <1>7, <1>9, <1>10, BlankIsNone DEF Sits
<1>12. Members = {u, v} BY <1>8 DEF Members, In
<1>14. epoch = 0 /\ proposals = <<>> /\ commit = None /\ refused = {} BY DEF Init
<1>15. AtRest BY <1>8, <1>12, <1>14, AddsOfNothing DEF AtRest
<1>16. \A w \in Members : Sits(member[w].tree, member[w].myLeaf, w, member[w].private)
  BY <1>8, <1>11, <1>12
<1>. QED BY <1>14, <1>15, <1>16 DEF Orderly

\* A batch waits only between commits.
LEMMA RestIs ==
    ASSUME Orderly
    PROVE  /\ commit = None => AtRest
           /\ proposals # <<>> => commit = None
BY DEF Orderly, GoingRound

\* The steps keep the order: a key package sent,
LEMMA SendKeyPackageOrderly ==
    ASSUME Typed, Orderly, NEW u \in Users, SendKeyPackage(u)
    PROVE  Orderly'
<1>. DEFINE g == CreateGroup(u, "waiting", epoch + 1)
<1>1. /\ Quiet /\ member[u].status = "out"
      /\ member' = [member EXCEPT ![u] = g]
      /\ UNCHANGED <<epoch, proposals, commit, refused>>
  BY DEF SendKeyPackage
<1>2. MaxEpoch \in Nat /\ epoch \in 0 .. MaxEpoch /\ epoch + 1 \in 0 .. MaxEpoch
  BY GroupAssumption DEF Typed, SendKeyPackage
<1>3. g.status = "waiting" BY <1>2, CreateIs
<1>4. AtRest /\ commit = None /\ proposals = <<>> /\ refused = {} BY <1>1, RestIs DEF Quiet
<1>. HIDE DEF g
<1>5. member'[u] = g /\ \A v \in Users : v # u => member'[v] = member[v]
  BY <1>1 DEF Typed
<1>6. Members' = Members /\ u \notin Members /\ \A v \in Members : v \in Users /\ member'[v] = member[v]
  BY <1>1, <1>3, <1>5 DEF Members, In
<1>9. AtRest' BY <1>1, <1>4, <1>6, AddsOfNothing DEF AtRest
<1>10. \A v \in Members' : Sits(member'[v].tree, member'[v].myLeaf, v, member'[v].private)
  BY <1>6 DEF Orderly
<1>. QED BY <1>1, <1>4, <1>9, <1>10 DEF Orderly

\* one who goes without a word,
LEMMA VanishOrderly ==
    ASSUME Typed, Orderly, NEW u \in Users, Vanish(u)
    PROVE  Orderly'
<1>. DEFINE g == Out(member[u].private)
<1>1. /\ Quiet /\ In(u)
      /\ member' = [member EXCEPT ![u] = g]
      /\ UNCHANGED <<epoch, proposals, commit, refused>>
  BY DEF Vanish
<1>2. g.status = "out" BY DEF Out
<1>3. AtRest /\ commit = None /\ proposals = <<>> /\ refused = {} BY <1>1, RestIs DEF Quiet
<1>. HIDE DEF g
<1>4. member'[u] = g /\ \A v \in Users : v # u => member'[v] = member[v]
  BY <1>1 DEF Typed
<1>5. /\ Members' \subseteq Members /\ u \notin Members'
      /\ \A v \in Members' : v \in Users /\ member'[v] = member[v]
  BY <1>2, <1>4 DEF Members, In
<1>7. AtRest' BY <1>1, <1>3, <1>5, AddsOfNothing DEF AtRest
<1>8. \A v \in Members' : Sits(member'[v].tree, member'[v].myLeaf, v, member'[v].private)
  BY <1>5 DEF Orderly
<1>. QED BY <1>1, <1>3, <1>7, <1>8 DEF Orderly

\* a batch taken back,
LEMMA WithdrawOrderly ==
    ASSUME Orderly, Withdraw
    PROVE  Orderly'
<1>1. /\ proposals # <<>> /\ proposals' = <<>> /\ epoch' = epoch /\ member' = member
      /\ commit' = commit /\ refused' = refused
  BY DEF Withdraw
<1>2. AtRest /\ commit = None BY <1>1, RestIs
<1>3. AtRest' BY <1>1, <1>2, AddsOfNothing DEF AtRest, Members, In
<1>. QED BY <1>1, <1>2, <1>3 DEF Orderly, Members, In

\* a batch proposed,
LEMMA ProposeOrderly ==
    ASSUME Typed, Orderly, Propose
    PROVE  Orderly'
<1>1. /\ Quiet /\ UNCHANGED <<epoch, member, commit, refused>>
      /\ \A i, j \in DOMAIN proposals' : i # j => proposals'[i] # proposals'[j]
      /\ \A i \in DOMAIN proposals' :
            \/ \E u \in Joiners : proposals'[i] = AddOf(u)
            \/ \E k \in Leavers : proposals'[i] = RemoveOf(k)
  BY ProposedIs
<1>2. AtRest /\ commit = None BY <1>1, RestIs DEF Quiet
<1>3. ASSUME NEW i \in DOMAIN proposals', proposals'[i].type = "add"
      PROVE  \E u \in Joiners : proposals'[i] = AddOf(u)
  BY <1>1, <1>3 DEF RemoveOf
<1>4. ASSUME NEW u \in Joiners
      PROVE  AddOf(u).leaf.user = u /\ member[u].status = "waiting"
  <2>1. u \in Users /\ member[u].status = "waiting" BY DEF Joiners
  <2>2. member[u].tree.leaf[0].user = u BY <2>1, WaitingIs
  <2>. QED BY <2>1, <2>2 DEF AddOf
<1>5. \A i \in AddsOf(proposals)' : i \in DOMAIN proposals' /\ proposals'[i].type = "add" BY DEF AddsOf
<1>6. \A i \in AddsOf(proposals)' :
         \E u \in Joiners : /\ proposals'[i] = AddOf(u) /\ proposals'[i].leaf.user = u
                            /\ member[u].status = "waiting"
  BY <1>3, <1>4, <1>5
<1>7. \A i \in AddsOf(proposals)' : member[proposals'[i].leaf.user].status = "waiting"
  BY <1>6
<1>8. ASSUME NEW i \in AddsOf(proposals)', NEW j \in AddsOf(proposals)',
             proposals'[i].leaf.user = proposals'[j].leaf.user
      PROVE  i = j
  <2>1. proposals'[i] = proposals'[j] BY <1>6, <1>8
  <2>. QED BY <1>1, <1>5, <2>1
<1>9. AtRest' BY <1>1, <1>2, <1>7, <1>8 DEF AtRest, Members, In
<1>. QED BY <1>1, <1>2, <1>9 DEF Orderly, Members, In

\* What an author starts from, and what its references give.
LEMMA AuthorIs ==
    ASSUME Typed, Orderly, commit = None, NEW u \in Users, In(u),
           Named(member[u]) # <<>>, BuiltTree(member[u]).ok,
           CommittedRemoves(member[u]) = Removed(Named(member[u]))
    PROVE  LET g == member[u]
               n == Named(g)
               t == BuiltTree(g).tree
               m == RemoveAll(g.tree, CommittedRemoves(g))
           IN  /\ Batch(n) /\ RefsOK(n) /\ Fresh(n, g.tree)
               /\ AppliedTree(g.tree, n).ok /\ t = AppliedTree(g.tree, n).tree
               /\ g.epoch = epoch /\ g.myLeaf \in Leaves
               /\ t.leaf[g.myLeaf] # Blank /\ t.leaf[g.myLeaf].user = u
               /\ Sits(t, g.myLeaf, u, g.private)
               /\ Grows(m, t)
               /\ \A k \in AddsOf(n) : Seats(t, n[k].leaf.user) # {}
               /\ Listed(m, t) => \A k \in AddsOf(n) : \A i \in Seats(t, n[k].leaf.user) :
                     Knows(t, i, NothingHeld)
               /\ \A v \in Members \ {u} :
                     /\ member[v].epoch = epoch /\ member[v].tree = g.tree
                     /\ member[v].myLeaf # g.myLeaf
                     /\ Sits(member[v].tree, member[v].myLeaf, v, member[v].private)
<1>. DEFINE g == member[u]
            n == Named(g)
            t == BuiltTree(g).tree
            o == g.tree
<1>1. AtRest BY RestIs
<1>2. u \in Members /\ \A v \in Members : v \in Users BY DEF Members
<1>3. Sits(o, g.myLeaf, u, g.private) /\ g.epoch = epoch
  BY <1>1, <1>2 DEF Orderly, AtRest
<1>4. Batch(proposals) BY DEF Typed
<1>5. /\ \A i \in DOMAIN n : n[i] = proposals[i]
      /\ Batch(n) /\ RefsOK(n) /\ g.myLeaf \notin Removed(n) /\ AddsOf(n) = AddsOf(proposals)
  BY <1>4, NamedIs
<1>. HIDE DEF n
<1>6. \A k \in AddsOf(n) : n[k] = proposals[k] /\ n[k].leaf \in Package BY <1>5 DEF AddsOf, RefsOK
<1>7. \A k \in AddsOf(n) : n[k].leaf.user \in Users /\ member[n[k].leaf.user].status = "waiting"
  BY <1>1, <1>5, <1>6 DEF AtRest, Package
<1>. HIDE DEF o
<1>8. ASSUME NEW k \in AddsOf(n), NEW i \in Seats(o, n[k].leaf.user)
      PROVE  i \in Removed(n)
  <2>. DEFINE w == n[k].leaf.user
  <2>1. member[w].status = "waiting" BY <1>7
  <2>2. w # u BY <2>1 DEF In
  <2>3. o.leaf[g.myLeaf].user = u /\ GoodTree(o) BY <1>3 DEF Sits
  <2>4. o.leaf[i].user = w BY <1>8 DEF Seats
  <2>5. i # g.myLeaf BY <2>2, <2>3, <2>4
  <2>. HIDE DEF w
  <2>6. i \in Seats(g.tree, w) BY <1>8 DEF o, w
  <2>7. StaleLeaf(g, w) = {i}
    <3>1. GoodTree(g.tree) BY <2>3 DEF o
    <3>. HIDE DEF g
    <3>. QED BY <2>5, <2>6, <3>1, StaleIs
  <2>8. StaleLeaf(g, w) \subseteq CommittedRemoves(g)
    <3>. DEFINE stale(j) == StaleLeaf(g, n[j].leaf.user)
    <3>1. CommittedRemoves(g) = Removed(n) \union UNION {stale(j) : j \in AddsOf(n)}
      BY Zenon DEF CommittedRemoves, n
    <3>2. StaleLeaf(g, w) = stale(k) BY DEF w
    <3>. HIDE DEF stale
    <3>. QED BY <1>8, <3>1, <3>2
  <2>9. CommittedRemoves(g) = Removed(n) BY DEF n
  <2>. QED BY <2>7, <2>8, <2>9
<1>9. Fresh(n, o) BY <1>1, <1>5, <1>6, <1>8 DEF Fresh, AtRest
<1>10. BuiltTree(g) = AppliedTree(o, n) BY BuiltIs DEF n, o
<1>11. AppliedTree(o, n).ok /\ t = AppliedTree(o, n).tree BY <1>10
<1>. DEFINE a == g.myLeaf
            p == g.private
<1>12. /\ GoodTree(o) /\ a \in Leaves /\ o.leaf[a] # Blank /\ o.leaf[a].user = u
       /\ Current(o, p) /\ Knows(o, a, p) /\ a \notin Removed(n)
  BY <1>3, <1>5 DEF Sits
<1>. HIDE DEF t, a, p
<1>. DEFINE m == RemoveAll(o, Removed(n))
<1>13. /\ GoodTree(t) /\ Grows(m, t)
       /\ t.leaf[a] = o.leaf[a]
       /\ Knows(t, a, p) /\ Current(t, p)
       /\ \A k \in AddsOf(n) : Seats(t, n[k].leaf.user) # {}
       /\ Listed(m, t) => \A k \in AddsOf(n) : \A i \in Seats(t, n[k].leaf.user) :
             \A private : Knows(t, i, private)
  <2>. DEFINE r == AppliedTree(o, n).tree
  <2>1. /\ GoodTree(r) /\ Grows(m, r)
        /\ \A b \in Leaves : b \notin Removed(n) /\ o.leaf[b] # Blank => r.leaf[b] = o.leaf[b]
        /\ \A b, private : Knows(o, b, private) => Knows(r, b, private)
        /\ \A private : Current(o, private) => Current(r, private)
        /\ \A k \in AddsOf(n) : Seats(r, n[k].leaf.user) # {}
        /\ Listed(m, r) => \A k \in AddsOf(n) : \A i \in Seats(r, n[k].leaf.user) :
              \A private : Knows(r, i, private)
    BY <1>5, <1>9, <1>11, <1>12, AppliedIs
  <2>2. t = r BY <1>11
  <2>. HIDE DEF r, m
  <2>. QED BY <1>12, <2>1, <2>2
<1>14. Sits(t, a, u, p) BY <1>12, <1>13 DEF Sits
<1>15. m = RemoveAll(g.tree, CommittedRemoves(g)) BY DEF n, o
<1>. HIDE DEF m
<1>16. ASSUME NEW v \in Members \ {u}
       PROVE  /\ member[v].epoch = epoch /\ member[v].tree = o
              /\ member[v].myLeaf # a
              /\ Sits(member[v].tree, member[v].myLeaf, v, member[v].private)
  <2>1. /\ member[v].epoch = epoch /\ member[v].tree = o
        /\ Sits(member[v].tree, member[v].myLeaf, v, member[v].private)
    BY <1>1, <1>2 DEF AtRest, Orderly, o
  <2>2. o.leaf[member[v].myLeaf].user = v BY <2>1 DEF Sits
  <2>. QED BY <1>12, <2>1, <2>2
<1>17. t.leaf[a] # Blank /\ t.leaf[a].user = u BY <1>14 DEF Sits
<1>18. g.epoch = epoch BY <1>3
<1>. QED BY <1>5, <1>9, <1>11, <1>12, <1>13, <1>14, <1>15, <1>16, <1>17, <1>18 DEF n, t, o, a, p

\* The group once a member has made a commit that all can read.
LEMMA CommitOrderly ==
    ASSUME Typed, Orderly, commit = None, NEW u \in Users, In(u), member[u].epoch = epoch,
           NEW c, c # None, commit' = c,
           c.author = u, c.epoch = epoch, epoch' = epoch + 1, proposals' = <<>>, refused' = refused,
           NEW h, member' = [member EXCEPT ![u] = h],
           h.status = "in", h.epoch = epoch + 1, h.tree = c.tree,
           Sits(c.tree, h.myLeaf, u, h.private),
           \A v \in Members \ {u} : Reads(member[v], v, c),
           \A w \in c.adds :
              /\ Seats(c.tree, w) # {}
              /\ \A i \in Seats(c.tree, w) : Knows(c.tree, i, NothingHeld)
    PROVE  Orderly'
<1>1. AtRest /\ refused = {} BY RestIs DEF Orderly
<1>2. member'[u] = h /\ \A v \in Users : v # u => member'[v] = member[v] BY DEF Typed
<1>3. Members' = Members /\ u \in Members /\ \A v \in Members : v \in Users
  BY <1>2 DEF Members, In
<1>4. \A v \in Members' : Sits(member'[v].tree, member'[v].myLeaf, v, member'[v].private)
  BY <1>2, <1>3 DEF Orderly
<1>5. \A v \in Members \ {u} : member'[v].epoch = c.epoch /\ Reads(member'[v], v, c)
  BY <1>1, <1>2, <1>3 DEF AtRest
<1>7. \A v, w \in Members \ {u} : member'[v].tree = member'[w].tree BY <1>1, <1>2, <1>3 DEF AtRest
<1>8. GoingRound' BY <1>2, <1>3, <1>5, <1>7 DEF GoingRound
<1>. QED BY <1>1, <1>4, <1>8 DEF Orderly

\* A commit that is made is there.
LEMMA SomeCommit ==
    ASSUME NEW u, NEW t, NEW refs, NEW path
    PROVE  NewCommit(u, t, refs, path) # None
<1>. DEFINE c == NewCommit(u, t, refs, path)
<1>1. "author" \in DOMAIN c BY DEF NewCommit
<1>2. "author" \notin DOMAIN None BY DEF None
<1>. HIDE DEF c
<1>3. c # None BY <1>1, <1>2
<1>. QED BY <1>3 DEF c

\* a commit without a path: all who read it build the author's tree,
LEMMA BuildCommitOrderly ==
    ASSUME Typed, Orderly, NEW u \in Users, BuildCommit(u), ~spoilt'
    PROVE  Orderly'
<1>. DEFINE g == member[u]
            n == Named(g)
            t == BuiltTree(g).tree
            c == NewCommit(u, t, n, <<>>)
            m == RemoveAll(g.tree, CommittedRemoves(g))
            h == [g EXCEPT !.epoch = @ + 1, !.tree = t]
<1>1. /\ In(u) /\ n # <<>> /\ commit = None /\ BuiltTree(g).ok /\ commit' = c
      /\ member' = [member EXCEPT ![u] = h]
      /\ epoch' = epoch + 1 /\ proposals' = <<>> /\ refused' = refused
  BY Zenon DEF BuildCommit
<1>0. CommittedRemoves(g) = Removed(n) /\ ~LeavesUnlisted(g)
  <2>1. spoilt' = (spoilt \/ ClearsUnnamed(g) \/ LeavesUnlisted(g)) BY Zenon DEF BuildCommit
  <2>. QED BY <2>1 DEF ClearsUnnamed
<1>2. /\ Batch(n) /\ RefsOK(n) /\ Fresh(n, g.tree)
      /\ AppliedTree(g.tree, n).ok /\ t = AppliedTree(g.tree, n).tree
      /\ g.epoch = epoch
      /\ Sits(t, g.myLeaf, u, g.private)
      /\ Grows(m, t)
      /\ \A k \in AddsOf(n) : Seats(t, n[k].leaf.user) # {}
      /\ Listed(m, t) => \A k \in AddsOf(n) : \A i \in Seats(t, n[k].leaf.user) :
            Knows(t, i, NothingHeld)
      /\ \A v \in Members \ {u} :
            /\ member[v].epoch = epoch /\ member[v].tree = g.tree
            /\ member[v].myLeaf # g.myLeaf
            /\ Sits(member[v].tree, member[v].myLeaf, v, member[v].private)
  BY <1>0, <1>1, AuthorIs
<1>3. g \in Inside BY <1>1, InsideIs
<1>8a. Listed(m, t)
  <2>1. t \in TreeType BY <1>2 DEF Sits, GoodTree
  <2>. HIDE DEF g
  <2>. QED BY <1>0, <1>2, <2>1, ListsAll
<1>. HIDE DEF n, t, m
<1>4. /\ c.author = u /\ c.leaf = g.myLeaf /\ c.epoch = g.epoch /\ c.refs = n /\ c.path = <<>>
      /\ c.tree = t /\ c.hash = TreeHash(t) /\ c.adds = {n[i].leaf.user : i \in AddsOf(n)}
  BY DEF NewCommit
<1>5. c # None BY SomeCommit
<1>. HIDE DEF c
<1>6. h.status = "in" /\ h.epoch = epoch + 1 /\ h.tree = t /\ h.myLeaf = g.myLeaf /\ h.private = g.private
  BY <1>2, <1>3 DEF Inside
<1>. HIDE DEF h
<1>7. ASSUME NEW v \in Members \ {u} PROVE Reads(member[v], v, c)
  <2>. DEFINE r == member[v]
  <2>1. /\ r.epoch = epoch /\ r.tree = g.tree /\ r.myLeaf # g.myLeaf
        /\ Sits(r.tree, r.myLeaf, v, r.private)
    BY <1>2
  <2>. HIDE DEF r
  <2>2. /\ Batch(c.refs) /\ RefsOK(c.refs) /\ Fresh(c.refs, r.tree)
        /\ AppliedTree(r.tree, c.refs).ok /\ c.epoch = r.epoch /\ c.leaf # r.myLeaf
        /\ c.path = <<>> /\ c.tree = AppliedTree(r.tree, c.refs).tree /\ c.hash = TreeHash(c.tree)
    BY <1>2, <1>4, <2>1
  <2>3. Reads(r, v, c) BY <2>1, <2>2, ReadsReferences
  <2>. QED BY <2>3 DEF r
<1>8. ASSUME NEW w \in c.adds
      PROVE  /\ Seats(c.tree, w) # {}
             /\ \A i \in Seats(c.tree, w) : Knows(c.tree, i, NothingHeld)
  <2>1. PICK k \in AddsOf(n) : w = n[k].leaf.user BY <1>4
  <2>. QED BY <1>2, <1>4, <1>8a, <2>1
<1>9. Sits(c.tree, h.myLeaf, u, h.private) BY <1>2, <1>4, <1>6
<1>10. /\ In(u) /\ g.epoch = epoch /\ commit = None /\ commit' = c
       /\ c.author = u /\ c.epoch = epoch
       /\ epoch' = epoch + 1 /\ proposals' = <<>> /\ refused' = refused
       /\ member' = [member EXCEPT ![u] = h]
       /\ h.status = "in" /\ h.epoch = epoch + 1 /\ h.tree = c.tree
  BY <1>1, <1>2, <1>4, <1>6
<1>. QED BY <1>5, <1>7, <1>8, <1>9, <1>10, CommitOrderly

\* a commit with a path: everyone but the author can open it, and ends on the
\* author's tree,
LEMMA PathCommitOrderly ==
    ASSUME Typed, Orderly, NEW u \in Users, PathCommit(u), ~spoilt'
    PROVE  Orderly'
<1>. DEFINE g == member[u]
            n == Named(g)
            t == BuiltTree(g).tree
            a == g.myLeaf
            path == SealedPath(t, a)
            e == epoch + 1
            fresh == Leaf(u, e)
            r == Rekey(t, a, fresh, path, e)
            k == [m \in Nodes |-> IF m \in On(path) THEN e ELSE g.private[m]]
            c == NewCommit(u, r, n, path)
            h == [g EXCEPT !.epoch = @ + 1, !.tree = r, !.private = k]
<1>1. /\ In(u) /\ n # <<>> /\ commit = None /\ BuiltTree(g).ok /\ commit' = c
      /\ member' = [member EXCEPT ![u] = h]
      /\ epoch' = e /\ proposals' = <<>> /\ refused' = refused
      /\ path # <<>>
  BY Zenon DEF PathCommit, On
<1>6. ~CutShort(t, a) /\ AddsOf(n) = {}
  <2>1. spoilt' = (spoilt \/ CutShort(t, a) \/ AddsOf(n) # {}) BY Zenon DEF PathCommit
  <2>. QED BY <2>1
<1>7. CommittedRemoves(g) = Removed(n)
  <2>. DEFINE stale(i) == StaleLeaf(g, n[i].leaf.user)
  <2>1. CommittedRemoves(g) = Removed(n) \union UNION {stale(i) : i \in AddsOf(n)}
    BY Zenon DEF CommittedRemoves
  <2>. HIDE DEF stale
  <2>. QED BY <1>6, <2>1
<1>2. /\ Batch(n) /\ RefsOK(n) /\ Fresh(n, g.tree)
      /\ AppliedTree(g.tree, n).ok /\ t = AppliedTree(g.tree, n).tree
      /\ g.epoch = epoch /\ a \in Leaves
      /\ t.leaf[a] # Blank /\ t.leaf[a].user = u
      /\ Sits(t, a, u, g.private)
      /\ \A v \in Members \ {u} :
            /\ member[v].epoch = epoch /\ member[v].tree = g.tree
            /\ member[v].myLeaf # a
            /\ Sits(member[v].tree, member[v].myLeaf, v, member[v].private)
  BY <1>1, <1>7, AuthorIs
<1>3. g \in Inside BY <1>1, InsideIs
<1>4. e \in 1 .. MaxEpoch /\ e \in 0 .. MaxEpoch
  <2>1. proposals # <<>> BY <1>1, NamedIs DEF Typed
  <2>. QED BY <2>1, GroupAssumption DEF Typed
<1>5. fresh \in Package /\ fresh.user = u BY <1>4, LeafIs
<1>8. t \in TreeType BY <1>2 DEF Sits, GoodTree
<1>9. \A m \in Nodes : k[m] = IF m \in On(path) THEN e ELSE g.private[m] OBVIOUS
<1>. HIDE DEF n, t, fresh, k
<1>10. Sits(r, a, u, k)
  <2>. DEFINE p == g.private
  <2>1. Sits(t, a, u, p) /\ \A m \in Nodes : k[m] = IF m \in On(path) THEN e ELSE p[m]
    BY <1>2, <1>9
  <2>. HIDE DEF e, a, p
  <2>. QED BY <1>4, <1>5, <1>6, <2>1, AuthorSits DEF a
<1>. HIDE DEF path
<1>11. r.leaf[a] = fresh /\ \A i \in Leaves : i # a => r.leaf[i] = t.leaf[i]
  <2>. HIDE DEF e, a
  <2>. QED BY <1>2, <1>4, <1>5, <1>8, RekeyIs
<1>12. /\ c.author = u /\ c.leaf = a /\ c.epoch = g.epoch /\ c.refs = n /\ c.path = path
       /\ c.tree = r /\ c.hash = TreeHash(r) /\ c.adds = {n[i].leaf.user : i \in AddsOf(n)}
       /\ c.fresh = r.leaf[a]
  <2>. HIDE DEF r
  <2>. QED BY DEF NewCommit
<1>13. c # None BY SomeCommit
<1>14. c.fresh = fresh /\ c.tree = Rekey(t, c.leaf, c.fresh, c.path, c.epoch + 1)
  <2>1. c.fresh = fresh BY <1>2, <1>11, <1>12
  <2>2. r = Rekey(t, a, fresh, path, e) /\ e = c.epoch + 1 BY <1>2, <1>12
  <2>3. c.leaf = a /\ c.path = path /\ c.tree = r BY <1>12
  <2>. HIDE DEF a, r, c, e
  <2>. QED BY <2>1, <2>2, <2>3
<1>. HIDE DEF c, r
<1>15. h.status = "in" /\ h.epoch = e /\ h.tree = r /\ h.myLeaf = a /\ h.private = k
  BY <1>2, <1>3 DEF Inside
<1>. HIDE DEF h
<1>16. ASSUME NEW v \in Members \ {u} PROVE Reads(member[v], v, c)
  <2>. DEFINE q == member[v]
  <2>1. /\ q.epoch = epoch /\ q.tree = g.tree /\ q.myLeaf # a
        /\ Sits(q.tree, q.myLeaf, v, q.private)
    BY <1>2
  <2>. HIDE DEF q
  <2>2. /\ Batch(c.refs) /\ RefsOK(c.refs) /\ Fresh(c.refs, q.tree)
        /\ AppliedTree(q.tree, c.refs).ok /\ c.epoch = q.epoch /\ c.leaf # q.myLeaf
        /\ c.path # <<>> /\ c.hash = TreeHash(c.tree)
        /\ t = AppliedTree(q.tree, c.refs).tree
    BY <1>1, <1>2, <1>12, <2>1
  <2>3. /\ c.epoch + 1 \in 1 .. MaxEpoch /\ c.leaf \in Leaves /\ c.fresh \in Package
        /\ t.leaf[c.leaf] # Blank /\ t.leaf[c.leaf].user = c.fresh.user
    BY <1>2, <1>4, <1>5, <1>12, <1>14
  <2>4. c.path = SealedPath(t, c.leaf) BY <1>12 DEF path
  <2>5. ~CutShort(t, c.leaf) BY <1>6, <1>12
  <2>6. Sits(q.tree, q.myLeaf, v, q.private) BY <2>1
  <2>7. c.tree = Rekey(t, c.leaf, c.fresh, c.path, c.epoch + 1) BY <1>14
  <2>. HIDE DEF a, e, g
  <2>8. Reads(q, v, c) BY <2>2, <2>3, <2>4, <2>5, <2>6, <2>7, ReadsPath
  <2>. QED BY <2>8 DEF q
<1>17. c.adds = {} BY <1>6, <1>12
<1>18. Sits(c.tree, h.myLeaf, u, h.private) BY <1>10, <1>12, <1>15
<1>19. /\ commit = None /\ In(u) /\ member[u].epoch = epoch /\ commit' = c
       /\ c.author = u /\ c.epoch = epoch /\ epoch' = epoch + 1 /\ proposals' = <<>>
       /\ refused' = refused /\ member' = [member EXCEPT ![u] = h]
       /\ h.status = "in" /\ h.epoch = epoch + 1 /\ h.tree = c.tree
  BY <1>1, <1>2, <1>12, <1>15
<1>. HIDE DEF e, a, g
<1>. QED BY <1>13, <1>16, <1>17, <1>18, <1>19, CommitOrderly DEF g

\* What somebody let in holds.
LEMMA JoinerSits ==
    ASSUME Typed, NEW u \in Users, member[u].status = "waiting",
           GoodTree(commit.tree), Seats(commit.tree, u) # {}, commit.epoch + 1 = epoch,
           \A i \in Seats(commit.tree, u) : Knows(commit.tree, i, NothingHeld)
    PROVE  LET h == ProcessWelcome(u)
           IN  /\ h.status = "in" /\ h.epoch = epoch /\ h.tree = commit.tree
               /\ Sits(h.tree, h.myLeaf, u, h.private)
<1>. DEFINE g == member[u]
            t == commit.tree
            mine == Seats(t, u)
            first == CHOOSE i \in mine : \A j \in mine : i <= j
            h == [g EXCEPT !.status = "in", !.epoch = commit.epoch + 1, !.tree = t, !.myLeaf = first]
<1>1. t \in TreeType BY DEF GoodTree
<1>2. ReadTree(t) = t BY <1>1, ReadTreeIs
<1>3. ProcessWelcome(u) = h
  <2>. DEFINE z == ReadTree(t)
              theirs == Seats(z, u)
  <2>1. ProcessWelcome(u) = IF theirs = {} THEN g
          ELSE [g EXCEPT !.status = "in", !.epoch = commit.epoch + 1, !.tree = z,
                         !.myLeaf = CHOOSE i \in theirs : \A j \in theirs : i <= j]
    BY Zenon DEF ProcessWelcome
  <2>2. z = t BY <1>2
  <2>3. theirs # {} BY <2>2
  <2>. HIDE DEF z, g
  <2>. QED BY Zenon, <2>1, <2>2, <2>3
<1>4. first \in mine
  <2>1. mine \subseteq Nat BY WidestIs DEF Seats
  <2>. HIDE DEF mine
  <2>2. mine # {} BY DEF mine
  <2>3. \E i \in mine : \A j \in mine : i <= j BY <2>1, <2>2, Least
  <2>. QED BY <2>3
<1>. HIDE DEF first
<1>5. PICK p \in 0 .. MaxEpoch : g = CreateGroup(u, "waiting", p) BY WaitingIs
<1>6. g = [status |-> "waiting", epoch |-> 0, tree |-> NewTree(Leaf(u, p)), myLeaf |-> 0,
           private |-> NothingHeld]
  BY <1>5 DEF CreateGroup
<1>. HIDE DEF g
<1>7. h.status = "in" /\ h.epoch = commit.epoch + 1 /\ h.tree = t /\ h.myLeaf = first
      /\ h.private = NothingHeld
  BY <1>6
<1>8. first \in Leaves /\ t.leaf[first] # Blank /\ t.leaf[first].user = u
      /\ Knows(t, first, NothingHeld)
  BY <1>4 DEF Seats
<1>9. Current(t, NothingHeld) BY LeafIs
<1>. HIDE DEF h
<1>10. Sits(h.tree, h.myLeaf, u, h.private) BY <1>7, <1>8, <1>9 DEF Sits
<1>. QED BY <1>3, <1>7, <1>10

\* What a reader holds.
LEMMA ReaderSits ==
    ASSUME Typed, NEW u \in Users, In(u), Reads(member[u], u, commit),
           commit.epoch + 1 = epoch, member[u].epoch = commit.epoch
    PROVE  LET h == ProcessCommit(u)
           IN  \/ h.status = "out"
               \/ /\ h.status = "in" /\ h.epoch = epoch /\ h.tree = commit.tree
                  /\ Sits(h.tree, h.myLeaf, u, h.private)
<1>. DEFINE g == member[u]
            c == commit
            t == CommittedTree(g, c)
            k == IF c.path = <<>> THEN g.private ELSE PathKeys(g, SeatedTree(g, c), c)
            h == [g EXCEPT !.epoch = @ + 1, !.tree = t, !.private = k]
<1>1. ProcessCommit(u) = IF RemovesMe(g, c.refs) THEN Out(g.private)
                         ELSE IF ~Applies(g, c) THEN g ELSE h
  <2>1. ProcessCommit(u) = IF c.epoch # g.epoch \/ c.leaf = g.myLeaf THEN g
                           ELSE IF RemovesMe(g, c.refs) THEN Out(g.private)
                           ELSE IF ~Applies(g, c) THEN g ELSE h
    BY Zenon DEF ProcessCommit
  <2>2. ~(c.epoch # g.epoch \/ c.leaf = g.myLeaf) BY DEF Reads
  <2>. HIDE DEF g, c, h
  <2>. QED BY Zenon, <2>1, <2>2
<1>2. CASE RemovesMe(g, c.refs)
  <2>1. ProcessCommit(u) = Out(g.private) BY <1>1, <1>2
  <2>. QED BY <2>1 DEF Out
<1>3. CASE ~RemovesMe(g, c.refs)
  <2>1. Applies(g, c) /\ t = c.tree /\ Sits(c.tree, g.myLeaf, u, k) BY <1>3 DEF Reads, KeysAfter
  <2>2. ProcessCommit(u) = h BY <1>1, <1>3, <2>1
  <2>3. g \in Inside BY InsideIs
  <2>. HIDE DEF g, t, k, c
  <2>4. h.status = "in" /\ h.epoch = g.epoch + 1 /\ h.tree = t /\ h.private = k /\ h.myLeaf = g.myLeaf
    BY <2>3 DEF Inside
  <2>. HIDE DEF h
  <2>5. h.epoch = epoch BY <2>4 DEF g, c
  <2>6. Sits(h.tree, h.myLeaf, u, h.private) BY <2>1, <2>4
  <2>7. h.status = "in" /\ h.epoch = epoch /\ h.tree = c.tree /\ Sits(h.tree, h.myLeaf, u, h.private)
    BY <2>1, <2>4, <2>5, <2>6
  <2>. QED BY <2>2, <2>7 DEF c
<1>. QED BY <1>2, <1>3

\* and once it is handed round all are at rest on the new tree.
LEMMA HandRoundOrderly ==
    ASSUME Typed, Orderly, HandRound
    PROVE  Orderly'
<1>. DEFINE readers == Members \ {commit.author}
            joining == {u \in commit.adds : member[u].status = "waiting"}
            a == commit.author
            t == commit.tree
<1>1. /\ commit # None
      /\ member' = [u \in Users |-> IF u \in readers THEN ProcessCommit(u)
                                   ELSE IF u \in joining THEN ProcessWelcome(u)
                                   ELSE member[u]]
      /\ refused' = {u \in readers \union joining : member'[u] = member[u]}
      /\ commit' = None /\ epoch' = epoch /\ proposals' = proposals
  BY Zenon DEF HandRound
<1>2. GoingRound BY <1>1 DEF Orderly
<1>3. /\ proposals = <<>> /\ a \in Members /\ a \in Users /\ In(a)
      /\ commit.epoch + 1 = epoch /\ member[a].epoch = epoch /\ member[a].tree = t
  BY <1>2 DEF GoingRound, Members
<1>4. Sits(t, member[a].myLeaf, a, member[a].private) BY <1>3 DEF Orderly
<1>5. GoodTree(t) BY <1>4 DEF Sits
<1>6. commit.epoch \in Nat /\ epoch # commit.epoch
  BY <1>1, <1>3 DEF Typed, Sent
<1>7. ASSUME NEW u \in readers
      PROVE  /\ u \in Users /\ In(u) /\ member[u].epoch = commit.epoch
             /\ member'[u] = ProcessCommit(u)
             /\ \/ member'[u].status = "out"
                \/ /\ member'[u].status = "in" /\ member'[u].epoch = epoch /\ member'[u].tree = t
                   /\ Sits(t, member'[u].myLeaf, u, member'[u].private)
  <2>1. u \in Users /\ In(u) BY DEF Members
  <2>2. member[u].epoch = commit.epoch /\ Reads(member[u], u, commit) BY <1>2 DEF GoingRound
  <2>. DEFINE h == ProcessCommit(u)
  <2>3. \/ h.status = "out"
        \/ /\ h.status = "in" /\ h.epoch = epoch /\ h.tree = t
           /\ Sits(h.tree, h.myLeaf, u, h.private)
    BY <1>3, <2>1, <2>2, ReaderSits
  <2>4. member'[u] = h BY Zenon, <1>1, <1>7, <2>1
  <2>. HIDE DEF h
  <2>. QED BY <2>1, <2>2, <2>3, <2>4 DEF h
<1>8. ASSUME NEW u \in Users, u \in joining
      PROVE  /\ u \notin readers /\ member[u].status = "waiting"
             /\ member'[u].status = "in" /\ member'[u].epoch = epoch /\ member'[u].tree = t
             /\ Sits(t, member'[u].myLeaf, u, member'[u].private)
  <2>1. member[u].status = "waiting" /\ u \in commit.adds BY <1>8
  <2>2. u \notin readers BY <2>1 DEF Members, In
  <2>3. Seats(t, u) # {} /\ \A i \in Seats(t, u) : Knows(t, i, NothingHeld)
    BY <1>2, <2>1 DEF GoingRound
  <2>. DEFINE h == ProcessWelcome(u)
  <2>4. /\ h.status = "in" /\ h.epoch = epoch /\ h.tree = t
        /\ Sits(h.tree, h.myLeaf, u, h.private)
    BY <1>3, <1>5, <2>1, <2>3, JoinerSits
  <2>5. member'[u] = h BY Zenon, <1>1, <1>8, <2>2
  <2>. HIDE DEF h
  <2>. QED BY <2>1, <2>2, <2>4, <2>5
<1>9. ASSUME NEW u \in Users, u \notin readers, u \notin joining
      PROVE  member'[u] = member[u]
  BY Zenon, <1>1, <1>9
<1>10. joining \subseteq Users
  <2>1. Sent(commit, epoch) BY <1>1 DEF Typed
  <2>2. ASSUME NEW i \in AddsOf(commit.refs) PROVE commit.refs[i].leaf.user \in Users
    <3>1. i \in DOMAIN commit.refs /\ commit.refs[i].type = "add" BY <2>2 DEF AddsOf
    <3>2. Proposal(commit.refs[i]) BY <2>1, <3>1 DEF Sent, Batch
    <3>3. \A k \in Leaves : RemoveOf(k).type = "remove" BY DEF RemoveOf
    <3>. QED BY <3>1, <3>2, <3>3 DEF Proposal, Package
  <2>. QED BY <2>1, <2>2 DEF Sent
<1>11. a \notin joining /\ a \notin readers BY <1>3 DEF In
<1>14. \A u \in Users : u \notin readers /\ u # a => member[u].status # "in" BY DEF Members, In
<1>. HIDE DEF readers, joining
<1>15. ASSUME NEW u \in Users, member'[u].status = "in"
       PROVE  /\ member'[u].epoch = epoch /\ member'[u].tree = t
              /\ Sits(t, member'[u].myLeaf, u, member'[u].private)
  <2>1. CASE u \in readers BY <1>7, <1>15, <2>1
  <2>2. CASE u \in joining BY <1>8, <2>2
  <2>3. CASE u \notin readers /\ u \notin joining
    <3>1. member'[u] = member[u] BY <1>9, <2>3
    <3>2. u = a BY <1>14, <1>15, <2>3, <3>1
    <3>. QED BY <1>3, <1>4, <3>1, <3>2
  <2>. QED BY <2>1, <2>2, <2>3
<1>17. refused' = {}
  <2>1. ASSUME NEW u \in readers PROVE member'[u] # member[u]
    <3>1. member[u].status = "in" /\ member[u].epoch # epoch BY <1>6, <1>7 DEF In
    <3>. QED BY <1>7, <3>1
  <2>2. ASSUME NEW u \in joining PROVE member'[u] # member[u]
    BY <1>8, <1>10
  <2>. QED BY <1>1, <2>1, <2>2
<1>. HIDE DEF t, a
<1>18. \A u \in Members' : u \in Users /\ member'[u].status = "in" BY DEF Members, In
<1>19. \A u \in Members' : Sits(member'[u].tree, member'[u].myLeaf, u, member'[u].private)
  BY <1>15, <1>18
<1>20. \A u \in Members' : member'[u].epoch = epoch' /\ member'[u].tree = t
  BY <1>1, <1>15, <1>18
<1>22. AddsOf(proposals)' = {} BY <1>1, <1>3, AddsOfNothing
<1>23. AtRest' BY <1>20, <1>22 DEF AtRest
<1>. QED BY <1>1, <1>17, <1>19, <1>23 DEF Orderly

\* Every step keeps a group in order unless it makes a commit that not everybody
\* can follow.
LEMMA NextOrderly ==
    ASSUME Typed, ~spoilt => Orderly, [Next]_vars
    PROVE  (~spoilt => Orderly)'
<1>. SUFFICES ASSUME ~spoilt' PROVE Orderly' OBVIOUS
<1>0. spoilt' = spoilt \/ \E u \in Users : BuildCommit(u) \/ PathCommit(u)
  BY DEF Next, vars, Propose, Withdraw, HandRound, SendKeyPackage, Vanish
<1>1. ~spoilt
  <2>1. ASSUME NEW u \in Users, BuildCommit(u) PROVE ~spoilt
    <3>1. spoilt' = (spoilt \/ ClearsUnnamed(member[u]) \/ LeavesUnlisted(member[u]))
      BY Zenon, <2>1 DEF BuildCommit
    <3>. QED BY <3>1
  <2>2. ASSUME NEW u \in Users, PathCommit(u) PROVE ~spoilt
    <3>1. spoilt' = (spoilt \/ CutShort(BuiltTree(member[u]).tree, member[u].myLeaf)
                       \/ AddsOf(Named(member[u])) # {})
      BY Zenon, <2>2 DEF PathCommit
    <3>. QED BY <3>1
  <2>. QED BY <1>0, <2>1, <2>2
<1>2. Orderly BY <1>1
<1>3. CASE UNCHANGED vars
  BY <1>2, <1>3 DEF vars, Orderly, AtRest, GoingRound, Members, In
<1>4. CASE Propose BY <1>2, <1>4, ProposeOrderly
<1>5. CASE Withdraw BY <1>2, <1>5, WithdrawOrderly
<1>6. CASE HandRound BY <1>2, <1>6, HandRoundOrderly
<1>7. ASSUME NEW u \in Users, SendKeyPackage(u) PROVE Orderly' BY <1>2, <1>7, SendKeyPackageOrderly
<1>8. ASSUME NEW u \in Users, Vanish(u) PROVE Orderly' BY <1>2, <1>8, VanishOrderly
<1>9. ASSUME NEW u \in Users, BuildCommit(u) PROVE Orderly' BY <1>2, <1>9, BuildCommitOrderly
<1>10. ASSUME NEW u \in Users, PathCommit(u) PROVE Orderly' BY <1>2, <1>10, PathCommitOrderly
<1>. QED BY <1>3, <1>4, <1>5, <1>6, <1>7, <1>8, <1>9, <1>10 DEF Next

\* The strengthening that every reachable state satisfies.
LEMMA StaysOrderly == Spec => [](Typed /\ (~spoilt => Orderly))
<1>1. ASSUME Init PROVE Typed /\ (~spoilt => Orderly) BY <1>1, InitTyped, InitOrderly
<1>2. ASSUME Typed /\ (~spoilt => Orderly), [Next]_vars PROVE (Typed /\ (~spoilt => Orderly))'
  BY <1>2, NextTyped, NextOrderly
<1>. QED BY <1>1, <1>2, PTL DEF Spec

\* Every member applies every commit, by reference or with a path, and everybody
\* let in joins, as long as no commit was made that not everybody can follow.
THEOREM NobodyIsLeft == Spec => []NobodyRefuses
<1>1. ASSUME ~spoilt => Orderly PROVE NobodyRefuses BY <1>1 DEF Orderly, NobodyRefuses
<1>. QED BY <1>1, StaysOrderly, PTL

\* Members of one epoch hold one tree, whichever way each of them got to it.
THEOREM TreesAgree == Spec => [](~spoilt => SameTree)
<1>1. ASSUME Typed, Orderly PROVE SameTree
  <2>1. SUFFICES ASSUME NEW u \in Members, NEW v \in Members, member[u].epoch = member[v].epoch
                 PROVE  member[u].tree = member[v].tree
    BY DEF SameTree
  <2>2. CASE commit = None BY <1>1, <2>2 DEF Orderly, AtRest
  <2>3. CASE commit # None
    <3>1. GoingRound BY <1>1, <2>3 DEF Orderly
    <3>2. commit.epoch + 1 = epoch /\ commit.epoch # epoch
      BY <1>1, <2>3, <3>1 DEF GoingRound, Typed, Sent
    <3>3. \A w \in Members \ {commit.author} : member[w].epoch = commit.epoch BY <3>1 DEF GoingRound
    <3>4. member[commit.author].epoch = epoch BY <3>1 DEF GoingRound
    <3>5. CASE u = commit.author \/ v = commit.author BY <2>1, <3>2, <3>3, <3>4, <3>5
    <3>6. CASE u # commit.author /\ v # commit.author BY <3>1, <3>6 DEF GoingRound
    <3>. QED BY <3>5, <3>6
  <2>. QED BY <2>2, <2>3
<1>. QED BY <1>1, StaysOrderly, PTL

\* Every member has the key of each rekeyed parent above it, or is listed by it
\* as one who does not.
THEOREM HoldsOrIsListed == Spec => []HoldsOrIsUnmerged
<1>1. ASSUME ~spoilt => Orderly PROVE HoldsOrIsUnmerged
  <2>1. SUFFICES ASSUME ~spoilt,
                        NEW u \in Members,
                        NEW i \in DOMAIN DirectPath[LeafToNode(member[u].myLeaf)][member[u].tree.count],
                        LET n == DirectPath[LeafToNode(member[u].myLeaf)][member[u].tree.count][i]
                        IN  member[u].tree.parent[n] # Blank
                 PROVE  LET n == DirectPath[LeafToNode(member[u].myLeaf)][member[u].tree.count][i]
                        IN  \/ member[u].private[n] # 0
                            \/ member[u].myLeaf \in member[u].tree.parent[n].unmerged
    BY DEF HoldsOrIsUnmerged
  <2>. DEFINE t == member[u].tree
              b == member[u].myLeaf
              path == DirectPath[LeafToNode(b)][t.count]
              n == path[i]
  <2>2. Sits(t, b, u, member[u].private) BY <1>1, <2>1 DEF Orderly
  <2>3. b \in Leaves /\ t.leaf[b] # Blank /\ GoodTree(t) /\ Knows(t, b, member[u].private)
    BY <2>2 DEF Sits
  <2>. HIDE DEF t, b
  <2>4. t.count \in 1 .. MAX_MEMBERS /\ b \in 0 .. t.count - 1 BY <2>3, SeatedWithin
  <2>5. path = [j \in 1 .. Height(t.count) |-> Ancestor(b, j)]
        /\ \A j \in 1 .. Height(t.count) : Ancestor(b, j) \in Nodes
    BY <2>4, PathIs
  <2>6. i \in DOMAIN path BY <2>1 DEF t, b
  <2>. HIDE DEF path
  <2>7. i \in 1 .. Height(t.count) /\ n = Ancestor(b, i) /\ n \in Nodes BY <2>5, <2>6
  <2>8. i \in Nat /\ b \in Nat BY <2>4, <2>7, RootIs, WidestIs
  <2>9. Level[n] = i BY <2>7, <2>8, LevelOfAncestor
  <2>10. 2 * b \in Under[n] BY <2>7, <2>8, <2>9, UnderIs
  <2>11. t.parent[n] # Blank BY <2>1 DEF path, t, b
  <2>. HIDE DEF n
  <2>12. member[u].private[n] # 0 \/ b \in t.parent[n].unmerged
    BY <2>3, <2>7, <2>10, <2>11 DEF Knows
  <2>. QED BY <2>12 DEF n, path, t, b
<1>. QED BY <1>1, StaysOrderly, PTL
=============================================================================
