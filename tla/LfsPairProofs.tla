--------------------------- MODULE LfsPairProofs ---------------------------
(***************************************************************************)
(* A metadata pair survives every power failure and reset, for blocks of   *)
(* any size, commits of any lengths and any number of commits, the wrap of *)
(* the revision count included.                                            *)
(*                                                                         *)
(* End is a recursive function over the offsets of a block.  Its equation  *)
(* is proved to have a solution (RecursionFacts), and what it returns is   *)
(* reasoned about by what a block's first units decide: Reached(b, p) says *)
(* that a reader who sees no more of b than its first p units stops at p.  *)
(* Then the block ends at p, or where the commit behind p leads to.        *)
(*                                                                         *)
(* The inductive invariant says that one block is in use (Settled): its    *)
(* commits lead to e, no commit begins at e, what is behind e cannot be    *)
(* taken for one, and the other block has no commit or the revision before.*)
(* A commit changes that with its last unit, and with no other.            *)
(***************************************************************************)
EXTENDS LfsPair, RecursionFacts

Units == [1 .. BlockUnits -> Unit]

\* What the first p units of block b say.
Cut(b, p) == [i \in 1 .. BlockUnits |-> IF i <= p THEN b[i] ELSE Garbage]

\* The commits of block b lead to p: its first p units are enough to tell.
Reached(b, p) == End(Cut(b, p)) = p

\* What the fields of a part of a commit can be.
LEMMA PartUnit ==
  ASSUME NEW u \in Unit, u.kind = "part"
  PROVE  /\ u \in Part /\ u.v \in Value /\ u.n \in CommitUnits /\ u.n \in 1 .. BlockUnits
         /\ u.k \in 1 .. BlockUnits /\ u.rev \in Revision \cup {NoRev}
         /\ u # Erased /\ u # Garbage
<1>1. u \in Part /\ u # Erased /\ u # Garbage
  BY DEF Unit, Erased, Garbage
<1>2. u.v \in Value /\ u.n \in CommitUnits /\ u.k \in 1 .. BlockUnits
      /\ u.rev \in Revision \cup {NoRev}
  BY <1>1 DEF Part
<1> QED BY <1>1, <1>2, PairAssumption

\* A commit is not empty and fits the block.
LEMMA CommitUnit ==
  ASSUME NEW b \in Units, NEW p \in 0 .. BlockUnits, CommitAt(b, p)
  PROVE  /\ p + 1 \in 1 .. BlockUnits /\ b[p + 1].kind = "part"
         /\ b[p + 1].n \in 1 .. BlockUnits
         /\ p + b[p + 1].n \in p + 1 .. BlockUnits
<1>1. p + 1 \in 1 .. BlockUnits /\ b[p + 1].kind = "part" /\ p + b[p + 1].n <= BlockUnits
  BY PairAssumption DEF CommitAt
<1>2. b[p + 1] \in Unit
  BY <1>1 DEF Units
<1> QED BY <1>1, <1>2, PartUnit, PairAssumption

\* All parts of a commit are of that commit, in their order.
LEMMA CommitParts ==
  ASSUME NEW b \in Units, NEW p \in 0 .. BlockUnits, CommitAt(b, p),
         NEW j \in 1 .. b[p + 1].n
  PROVE  /\ p + j \in 1 .. BlockUnits /\ b[p + j].kind = "part" /\ b[p + j].k = j
         /\ b[p + j].v = b[p + 1].v
         /\ b[p + j].n = b[p + 1].n
         /\ b[p + j].rev = b[p + 1].rev
<1> DEFINE u == b[p + 1]
           w == b[p + j]
<1>1. p + j \in 1 .. BlockUnits /\ p + 1 \in 1 .. BlockUnits
  BY CommitUnit, PairAssumption
<1>2. w.kind = "part" /\ [w EXCEPT !.fcrc = u.fcrc] = [u EXCEPT !.k = j] /\ u.kind = "part"
  BY DEF CommitAt
<1>3. u \in Part /\ w \in Part
  BY <1>1, <1>2, PartUnit DEF Units
<1> HIDE DEF u, w
<1>4. /\ [u EXCEPT !.k = j].v = u.v /\ [u EXCEPT !.k = j].n = u.n
      /\ [u EXCEPT !.k = j].rev = u.rev /\ [u EXCEPT !.k = j].k = j
  BY <1>3 DEF Part
<1>5. /\ [w EXCEPT !.fcrc = u.fcrc].v = w.v /\ [w EXCEPT !.fcrc = u.fcrc].n = w.n
      /\ [w EXCEPT !.fcrc = u.fcrc].rev = w.rev /\ [w EXCEPT !.fcrc = u.fcrc].k = w.k
  BY <1>3 DEF Part
<1>6. w.k = j /\ w.v = u.v /\ w.n = u.n /\ w.rev = u.rev
  BY <1>2, <1>4, <1>5
<1> QED BY <1>1, <1>2, <1>6 DEF u, w

\* A commit is one wherever its units and the one before it are the same.
LEMMA CommitAgrees ==
  ASSUME NEW b \in Units, NEW c \in Units, NEW e \in 0 .. BlockUnits,
         \A i \in 1 .. e : c[i] = b[i],
         NEW p \in 0 .. BlockUnits, CommitAt(b, p), p + b[p + 1].n <= e
  PROVE  CommitAt(c, p) /\ c[p + 1] = b[p + 1]
<1>1. /\ p + 1 \in 1 .. BlockUnits /\ b[p + 1].n \in 1 .. BlockUnits
  BY CommitUnit
<1>2. \A j \in 1 .. b[p + 1].n : p + j \in 1 .. e
  BY <1>1, PairAssumption
<1>3. c[p + 1] = b[p + 1]
  BY <1>1, <1>2
<1>4. p > 0 => c[p] = b[p]
  BY <1>1, PairAssumption
<1>5. \A j \in 1 .. b[p + 1].n : c[p + j] = b[p + j]
  BY <1>2
<1> QED BY <1>3, <1>4, <1>5 DEF CommitAt

\* The equation that End is defined by.
Leads(b, f) ==
  \A p \in 0 .. BlockUnits :
    f[p] = IF CommitAt(b, p) THEN f[p + b[p + 1].n] ELSE p

Ends == [0 .. BlockUnits -> 0 .. BlockUnits]

(* The equation has a solution, and End is its value at 0: the recursion   *)
(* of lfs_dir_fetchmatch() over the commits of a block comes to an end.    *)
LEMMA EndEquation ==
  ASSUME NEW b \in Units
  PROVE  \E f \in Ends : End(b) = f[0] /\ Leads(b, f)
<1> DEFINE Is(f) == f = [p \in 0 .. BlockUnits |->
                           IF CommitAt(b, p) THEN f[p + b[p + 1].n] ELSE p]
           C == {p \in 0 .. BlockUnits : CommitAt(b, p)}
           nxt == [p \in C |-> p + b[p + 1].n]
<1>1. \A p \in C : nxt[p] \in p + 1 .. BlockUnits
  BY CommitUnit
<1>2. PICK f \in [0 .. BlockUnits -> 0 .. BlockUnits] : Follows(f, nxt, C, BlockUnits)
  <2>1. C \in SUBSET (0 .. BlockUnits) /\ BlockUnits \in Nat
    BY PairAssumption
  <2> HIDE DEF C, nxt
  <2> QED BY <1>1, <2>1, RecursionDownFrom
<1>3. \A p \in 0 .. BlockUnits : f[p] = IF CommitAt(b, p) THEN f[p + b[p + 1].n] ELSE p
  BY <1>2 DEF Follows
<1>4. Is(f)
  BY <1>3
<1> DEFINE g == CHOOSE h : Is(h)
<1>5. Is(g)
  <2> HIDE DEF Is
  <2> QED BY <1>4
<1>6. End(b) = g[0]
  BY DEF End
<1> HIDE DEF g
<1>7. \A p \in 0 .. BlockUnits : g[p] = IF CommitAt(b, p) THEN g[p + b[p + 1].n] ELSE p
  BY <1>5
<1>8. g \in [0 .. BlockUnits -> 0 .. BlockUnits]
  <2> DEFINE S == {p \in 0 .. BlockUnits : g[p] \in 0 .. BlockUnits}
  <2>1. ASSUME NEW p \in 0 .. BlockUnits, \A k \in p + 1 .. BlockUnits : k \in S
        PROVE  p \in S
    BY <1>7, <2>1, CommitUnit
  <2>2. 0 .. BlockUnits \subseteq S
    <3> HIDE DEF S
    <3>1. \A p \in 0 .. BlockUnits : (\A k \in p + 1 .. BlockUnits : k \in S) => p \in S
      BY <2>1
    <3> QED BY <3>1, PairAssumption, InductionDownFrom
  <2>3. \A p \in 0 .. BlockUnits : g[p] \in 0 .. BlockUnits
    BY <2>2
  <2>4. DOMAIN g = 0 .. BlockUnits /\ g = [p \in DOMAIN g |-> g[p]]
    BY <1>5
  <2> QED BY <2>3, <2>4
<1> QED BY <1>6, <1>7, <1>8 DEF Leads, Ends

\* A cut block is one, and has the same units in front.
LEMMA CutUnits ==
  ASSUME NEW b \in Units, NEW p \in 0 .. BlockUnits
  PROVE  Cut(b, p) \in Units /\ \A i \in 1 .. p : Cut(b, p)[i] = b[i]
BY PairAssumption DEF Cut, Units, Unit

\* No commit begins where the block was cut.
LEMMA CutNoCommit ==
  ASSUME NEW b \in Units, NEW p \in 0 .. BlockUnits
  PROVE  ~CommitAt(Cut(b, p), p)
<1>1. SUFFICES ASSUME CommitAt(Cut(b, p), p) PROVE FALSE
  OBVIOUS
<1>2. p + 1 \in 1 .. BlockUnits /\ Cut(b, p)[p + 1].kind = "part"
  BY <1>1, CommitUnit, CutUnits
<1>3. Cut(b, p)[p + 1] = Garbage
  BY <1>2, PairAssumption DEF Cut
<1> QED BY <1>2, <1>3 DEF Garbage

(* What leads to e does so in every block that begins with the same units. *)
LEMMA SameWay ==
  ASSUME NEW b \in Units, NEW c \in Units, NEW e \in 0 .. BlockUnits,
         \A i \in 1 .. e : c[i] = b[i],
         NEW f \in Ends, Leads(b, f), NEW g \in Ends, Leads(c, g), f[0] = e
  PROVE  g[0] = g[e]
<1> DEFINE S == {p \in 0 .. BlockUnits : f[p] >= p /\ (f[p] = e => g[p] = g[e])}
<1> USE DEF Leads, Ends
<1>1. ASSUME NEW p \in 0 .. BlockUnits, \A k \in p + 1 .. BlockUnits : k \in S
      PROVE  p \in S
  <2>1. CASE ~CommitAt(b, p)
    BY <2>1
  <2>2. CASE CommitAt(b, p)
    <3> DEFINE q == p + b[p + 1].n
    <3>1. q \in p + 1 .. BlockUnits
      BY <2>2, CommitUnit
    <3>2. f[p] = f[q] /\ f[q] >= q /\ (f[q] = e => g[q] = g[e])
      BY <1>1, <2>2, <3>1
    <3>3. f[p] = e => CommitAt(c, p) /\ c[p + 1] = b[p + 1]
      BY <2>2, <3>1, <3>2, CommitAgrees
    <3>4. f[p] >= p
      BY <3>1, <3>2
    <3> QED BY <3>2, <3>3, <3>4
  <2> QED BY <2>1, <2>2
<1>2. 0 \in S
  <2> HIDE DEF S
  <2>1. \A p \in 0 .. BlockUnits : (\A k \in p + 1 .. BlockUnits : k \in S) => p \in S
    BY <1>1
  <2>2. 0 .. BlockUnits \subseteq S
    BY <2>1, PairAssumption, InductionDownFrom
  <2> QED BY <2>2, PairAssumption
<1> QED BY <1>2

(* A block ends at e, or where the commit at e leads to. *)
LEMMA EndFromReached ==
  ASSUME NEW b \in Units, NEW e \in 0 .. BlockUnits, Reached(b, e)
  PROVE  /\ ~CommitAt(b, e) => End(b) = e
         /\ CommitAt(b, e) => /\ ~CommitAt(b, e + b[e + 1].n) => End(b) = e + b[e + 1].n
                              /\ Reached(b, e + b[e + 1].n)
<1> DEFINE c == Cut(b, e)
<1>1. c \in Units /\ \A i \in 1 .. e : b[i] = c[i]
  BY CutUnits
<1>2. PICK f \in Ends : End(c) = f[0] /\ Leads(c, f)
  BY <1>1, EndEquation
<1>3. f[0] = e
  BY <1>2 DEF Reached
<1>4. ASSUME NEW d \in Units, \A i \in 1 .. e : d[i] = c[i],
             NEW g \in Ends, End(d) = g[0], Leads(d, g)
      PROVE  End(d) = g[e]
  <2> HIDE DEF c
  <2> QED BY <1>1, <1>2, <1>3, <1>4, SameWay
<1>5. PICK g \in Ends : End(b) = g[0] /\ Leads(b, g)
  BY EndEquation
<1>6. End(b) = g[e]
  BY <1>1, <1>4, <1>5
<1>7. CASE CommitAt(b, e)
  <2> DEFINE q == e + b[e + 1].n
             h == Cut(b, q)
  <2>1. q \in e + 1 .. BlockUnits
    BY <1>7, CommitUnit
  <2>2. g[e] = g[q] /\ (~CommitAt(b, q) => g[q] = q)
    BY <1>5, <1>7, <2>1 DEF Leads, Ends
  <2>3. h \in Units /\ \A i \in 1 .. q : h[i] = b[i]
    BY <2>1, CutUnits
  <2>4. PICK k \in Ends : End(h) = k[0] /\ Leads(h, k)
    BY <2>3, EndEquation
  <2>5. End(h) = k[e]
    <3>1. \A i \in 1 .. e : h[i] = c[i]
      BY <1>1, <2>1, <2>3
    <3> HIDE DEF h, c
    <3> QED BY <1>4, <2>3, <2>4, <3>1
  <2>6. CommitAt(h, e) /\ h[e + 1] = b[e + 1]
    <3>1. q \in 0 .. BlockUnits /\ e + b[e + 1].n <= q
      BY <2>1
    <3> HIDE DEF h, q
    <3> QED BY <1>7, <2>3, <3>1, CommitAgrees
  <2>7. k[e] = k[q]
    BY <2>4, <2>6 DEF Leads, Ends
  <2>8. k[q] = q
    <3>1. ~CommitAt(h, q)
      BY <2>1, CutNoCommit
    <3> QED BY <2>1, <2>4, <3>1 DEF Leads
  <2>9. Reached(b, q)
    BY <2>5, <2>7, <2>8 DEF Reached
  <2> QED BY <1>6, <1>7, <2>2, <2>9
<1>8. CASE ~CommitAt(b, e)
  BY <1>5, <1>6, <1>8 DEF Leads
<1> QED BY <1>7, <1>8

(* Where a block ends, its commits lead to, and no commit begins.          *)
LEMMA EndReached ==
  ASSUME NEW b \in Units
  PROVE  End(b) \in 0 .. BlockUnits /\ Reached(b, End(b)) /\ ~CommitAt(b, End(b))
<1>1. PICK f \in Ends : End(b) = f[0] /\ Leads(b, f)
  BY EndEquation
<1> DEFINE e == End(b)
           c == Cut(b, e)
<1>2. e \in 0 .. BlockUnits
  BY <1>1, PairAssumption DEF Ends
<1>3. c \in Units /\ \A i \in 1 .. e : c[i] = b[i]
  BY <1>2, CutUnits
<1>4. PICK g \in Ends : End(c) = g[0] /\ Leads(c, g)
  BY <1>3, EndEquation
<1>5. g[0] = g[e]
  <2> HIDE DEF c
  <2> QED BY <1>1, <1>2, <1>3, <1>4, SameWay
<1>6. g[e] = e
  BY <1>2, <1>4, CutNoCommit DEF Leads
<1>7. ~CommitAt(b, e)
  <2> DEFINE S == {p \in 0 .. BlockUnits : ~CommitAt(b, f[p])}
  <2>1. ASSUME NEW p \in 0 .. BlockUnits, \A k \in p + 1 .. BlockUnits : k \in S
        PROVE  p \in S
    BY <1>1, <2>1, CommitUnit DEF Leads, Ends
  <2>2. \A p \in 0 .. BlockUnits : (\A k \in p + 1 .. BlockUnits : k \in S) => p \in S
    BY <2>1
  <2>3. 0 .. BlockUnits \subseteq S
    <3> HIDE DEF S
    <3> QED BY <2>2, PairAssumption, InductionDownFrom
  <2> QED BY <1>1, <2>3, PairAssumption
<1> QED BY <1>2, <1>4, <1>5, <1>6, <1>7 DEF Reached

\* What the first units lead to does not depend on those behind.
LEMMA ReachedAgrees ==
  ASSUME NEW b \in Units, NEW c \in Units, NEW e \in 0 .. BlockUnits,
         \A i \in 1 .. e : c[i] = b[i], Reached(b, e)
  PROVE  Reached(c, e)
<1>1. Cut(c, e) = Cut(b, e)
  BY PairAssumption DEF Cut
<1> QED BY <1>1 DEF Reached

\* A commit that a cut block has is in front of the cut in the whole one.
LEMMA CutCommit ==
  ASSUME NEW b \in Units, NEW e \in 0 .. BlockUnits,
         NEW p \in 0 .. BlockUnits, CommitAt(Cut(b, e), p)
  PROVE  CommitAt(b, p) /\ p + b[p + 1].n <= e
<1> DEFINE c == Cut(b, e)
<1>1. c \in Units /\ \A i \in 1 .. e : b[i] = c[i]
  BY CutUnits
<1> DEFINE q == p + c[p + 1].n
<1>2. c[p + 1].n \in 1 .. BlockUnits /\ q \in p + 1 .. BlockUnits
  BY <1>1, CommitUnit
<1>3. p + c[p + 1].n <= e
  <2>1. SUFFICES ASSUME q > e PROVE FALSE
    BY <1>2
  <2>2. q \in 1 .. BlockUnits /\ c[q].kind = "part"
    <3>1. c[p + 1].n \in 1 .. c[p + 1].n
      BY <1>2
    <3> HIDE DEF c
    <3> QED BY <1>1, <3>1, CommitParts DEF c
  <2>3. c[q] = Garbage
    <3> HIDE DEF q
    <3> QED BY <2>1, <2>2, PairAssumption DEF Cut
  <2> QED BY <2>2, <2>3 DEF Garbage
<1> HIDE DEF c
<1>4. CommitAt(b, p) /\ b[p + 1] = c[p + 1]
  BY <1>1, <1>3, CommitAgrees DEF c
<1> QED BY <1>3, <1>4

(* The first commit of a block. *)
LEMMA FirstCommit ==
  ASSUME NEW b \in Units, NEW e \in 1 .. BlockUnits, Reached(b, e)
  PROVE  CommitAt(b, 0)
<1>1. Cut(b, e) \in Units /\ 0 \in 0 .. BlockUnits
  BY CutUnits, PairAssumption
<1>2. PICK f \in Ends : End(Cut(b, e)) = f[0] /\ Leads(Cut(b, e), f)
  BY <1>1, EndEquation
<1>3. CommitAt(Cut(b, e), 0)
  BY <1>2, PairAssumption DEF Reached, Leads
<1> QED BY <1>1, <1>3, CutCommit

-----------------------------------------------------------------------------
(* The block in use. *)

\* What is behind the commits of a block that end at e: erased units at the
\* end only, and no part but the one next to them that can begin a commit.
Behind(b, e) ==
  /\ \A i \in e + 1 .. BlockUnits, j \in e + 1 .. BlockUnits :
       i < j /\ b[i] = Erased => b[j] = Erased
  /\ \A i \in e + 2 .. BlockUnits : b[i].kind = "part" => b[i].k # 1

\* The commits of block b lead to e, and what is behind is no hindrance.
UpTo(b, e) ==
  e \in 1 .. BlockUnits /\ Reached(b, e) /\ b[e].kind = "part" /\ Behind(b, e)

\* If the other block has a commit, block c of disk d has the next revision.
Newer(d, c) == End(d[1 - c]) > 0 => d[c][1].rev = (d[1 - c][1].rev + 1) % Revisions

\* Block c of disk d is in use, and its commits end at e.
Settled(d, c, e) == UpTo(d[c], e) /\ ~CommitAt(d[c], e) /\ Newer(d, c)

(* When a commit is complete behind e, the commits lead to its end, and    *)
(* what is behind that is no hindrance either.                             *)
LEMMA Committed ==
  ASSUME NEW b \in Units, NEW e, UpTo(b, e), CommitAt(b, e)
  PROVE  UpTo(b, e + b[e + 1].n) /\ ~CommitAt(b, e + b[e + 1].n)
<1> DEFINE m == b[e + 1].n
           q == e + m
<1>1. e \in 1 .. BlockUnits /\ e \in 0 .. BlockUnits
  BY PairAssumption DEF UpTo
<1>2. m \in 1 .. BlockUnits /\ q \in e + 1 .. BlockUnits
  BY <1>1, CommitUnit
<1>3. Reached(b, q)
  BY <1>1, EndFromReached DEF UpTo
<1>4. b[q].kind = "part"
  <2>1. m \in 1 .. b[e + 1].n
    BY <1>2
  <2> QED BY <1>1, <2>1, CommitParts
<1>5. ASSUME CommitAt(b, q) PROVE FALSE
  <2>1. /\ q \in 0 .. BlockUnits /\ q + 1 \in 1 .. BlockUnits
        /\ b[q + 1].kind = "part" /\ b[q + 1].n \in 1 .. BlockUnits
    <3>1. q \in 0 .. BlockUnits
      BY <1>1, <1>2
    <3> HIDE DEF q
    <3> QED BY <1>5, <3>1, CommitUnit
  <2>2. b[q + 1].k = 1
    <3>1. 1 \in 1 .. b[q + 1].n
      BY <2>1
    <3> HIDE DEF q
    <3> QED BY <1>5, <2>1, <3>1, CommitParts
  <2>3. q + 1 \in e + 2 .. BlockUnits
    BY <1>1, <1>2, <2>1
  <2> QED BY <2>1, <2>2, <2>3 DEF UpTo, Behind
<1>6. Behind(b, q)
  <2> HIDE DEF q
  <2> QED BY <1>1, <1>2 DEF UpTo, Behind
<1> HIDE DEF q
<1> QED BY <1>1, <1>2, <1>3, <1>4, <1>5, <1>6 DEF UpTo, q, m

\* A block has an end when it has a first commit.
LEMMA NoFirstCommit ==
  ASSUME NEW b \in Units
  PROVE  /\ Reached(b, 0)
         /\ ~CommitAt(b, 0) <=> End(b) = 0
<1>1. 0 \in 0 .. BlockUnits /\ Cut(b, 0) \in Units
  BY CutUnits, PairAssumption
<1>2. PICK f \in Ends : End(Cut(b, 0)) = f[0] /\ Leads(Cut(b, 0), f)
  BY <1>1, EndEquation
<1>3. Reached(b, 0)
  BY <1>1, <1>2, CutNoCommit DEF Reached, Leads
<1>4. ~CommitAt(b, 0) => End(b) = 0
  BY <1>1, <1>3, EndFromReached
<1>5. End(b) = 0 => ~CommitAt(b, 0)
  BY EndReached
<1> QED BY <1>3, <1>4, <1>5

(* The next revision is the more recent one, also when the count wraps.    *)
LEMMA NextIsMoreRecent ==
  ASSUME NEW s \in Revision, NEW r \in Revision, r = (s + 1) % Revisions
  PROVE  lfs_scmp(r, s) /\ ~lfs_scmp(s, r)
<1>0. /\ Revisions \in Nat /\ Revisions >= 4 /\ Revisions % 2 = 0
      /\ s \in 0 .. Revisions - 1 /\ r \in 0 .. Revisions - 1
  BY PairAssumption DEF Revision
<1>1. Revisions \div 2 \in Nat /\ 2 * (Revisions \div 2) = Revisions
  BY <1>0, Z3
<1>2. CASE s = Revisions - 1
  <2>1. r = 0
    BY <1>0, <1>2, Z3
  <2>2. (r - s) % Revisions = 1
    BY <1>0, <1>2, <2>1, Z3
  <2>3. (s - r) % Revisions = Revisions - 1
    BY <1>0, <1>2, <2>1, Z3
  <2> QED BY <1>0, <1>1, <2>2, <2>3 DEF lfs_scmp
<1>3. CASE s # Revisions - 1
  <2>1. r = s + 1
    BY <1>0, <1>3, Z3
  <2>2. (r - s) % Revisions = 1
    BY <1>0, <2>1, Z3
  <2>3. (s - r) % Revisions = Revisions - 1
    BY <1>0, <2>1, Z3
  <2> QED BY <1>0, <1>1, <2>2, <2>3 DEF lfs_scmp
<1> QED BY <1>2, <1>3

Disks == [Block -> Units]

(* What lfs_dir_fetch() finds on a disk with a block in use.               *)
LEMMA FetchSettled ==
  ASSUME NEW d \in Disks, NEW c \in Block, NEW e, Settled(d, c, e)
  PROVE  /\ End(d[c]) = e
         /\ {Taken(d, x) : x \in Recent(d)} = {c}
         /\ d[c][e].v \in Value
         /\ Fetched(d) = {d[c][e].v}
         /\ Found(d) = d[c][e].v
<1>1. /\ d[c] \in Units /\ d[1 - c] \in Units /\ 1 - c \in Block
      /\ e \in 1 .. BlockUnits /\ e \in 0 .. BlockUnits
  BY PairAssumption DEF Disks, Block, Settled, UpTo
<1>2. End(d[c]) = e
  BY <1>1, EndFromReached DEF Settled, UpTo
<1>3. Recent(d) \subseteq Block /\ Recent(d) # {}
  <2>1. ASSUME NEW b \in Units PROVE Revs(b) # {}
    <3>1. 0 \in Revision
      BY PairAssumption DEF Revision
    <3>2. CASE b[1].kind = "part"
      BY <3>2 DEF Revs
    <3>3. CASE b[1].kind # "part" /\ b[1] = Erased
      BY <3>3 DEF Revs
    <3>4. CASE b[1].kind # "part" /\ b[1] # Erased
      BY <3>1, <3>4 DEF Revs
    <3> QED BY <3>2, <3>3, <3>4
  <2>2. Revs(d[0]) # {} /\ Revs(d[1]) # {}
    BY <2>1 DEF Disks, Block
  <2> QED BY <2>2 DEF Recent, Block
<1>4. ASSUME NEW x \in Recent(d) PROVE Taken(d, x) = c
  <2>1. CASE x = c
    BY <1>1, <1>2, <2>1 DEF Taken
  <2>2. CASE x # c /\ End(d[1 - c]) = 0
    <3>1. x = 1 - c /\ 1 - x = c
      BY <1>3, <2>2 DEF Block
    <3> QED BY <2>2, <3>1 DEF Taken
  <2>3. CASE x # c /\ End(d[1 - c]) # 0
    <3>1. End(d[1 - c]) \in 1 .. BlockUnits
      BY <1>1, <2>3, EndReached, PairAssumption
    <3>2. CommitAt(d[c], 0) /\ CommitAt(d[1 - c], 0)
      <4>1. Reached(d[1 - c], End(d[1 - c]))
        BY <1>1, EndReached
      <4>2. CommitAt(d[1 - c], 0)
        BY <1>1, <3>1, <4>1, FirstCommit
      <4> QED BY <1>1, <4>2, FirstCommit DEF Settled, UpTo
    <3>3. ASSUME NEW y \in Block, CommitAt(d[y], 0)
          PROVE  d[y][1].rev \in Revision /\ Revs(d[y]) = {d[y][1].rev}
      <4>1. d[y] \in Units /\ 0 \in 0 .. BlockUnits /\ 1 \in 1 .. BlockUnits
        BY PairAssumption DEF Disks
      <4>2. d[y][1].kind = "part" /\ d[y][1].rev # NoRev
        BY <3>3 DEF CommitAt
      <4>3. d[y][1] \in Unit
        BY <4>1 DEF Units
      <4> QED BY <4>2, <4>3, PartUnit DEF Revs
    <3>4. d[c][1].rev = (d[1 - c][1].rev + 1) % Revisions
      BY <3>1 DEF Settled, Newer
    <3>5. /\ lfs_scmp(d[c][1].rev, d[1 - c][1].rev)
          /\ ~lfs_scmp(d[1 - c][1].rev, d[c][1].rev)
      <4>1. d[c][1].rev \in Revision /\ d[1 - c][1].rev \in Revision
        BY <1>1, <3>2, <3>3
      <4> QED BY <3>4, <4>1, NextIsMoreRecent
    <3>6. CASE c = 0
      <4>1. Revs(d[0]) = {d[0][1].rev} /\ Revs(d[1]) = {d[1][1].rev}
        BY <1>1, <3>2, <3>3, <3>6
      <4>2. ~lfs_scmp(d[1][1].rev, d[0][1].rev)
        BY <3>5, <3>6
      <4> QED BY <2>3, <3>6, <4>1, <4>2 DEF Recent
    <3>7. CASE c = 1
      <4>1. Revs(d[0]) = {d[0][1].rev} /\ Revs(d[1]) = {d[1][1].rev}
        BY <1>1, <3>2, <3>3, <3>7
      <4>2. lfs_scmp(d[1][1].rev, d[0][1].rev)
        BY <3>5, <3>7
      <4> QED BY <2>3, <3>7, <4>1, <4>2 DEF Recent
    <3> QED BY <3>6, <3>7 DEF Block
  <2> QED BY <2>1, <2>2, <2>3
<1>5. {Taken(d, x) : x \in Recent(d)} = {c}
  BY <1>3, <1>4
<1>6. d[c][e].v \in Value
  <2>1. d[c][e] \in Unit /\ d[c][e].kind = "part"
    BY <1>1 DEF Units, Settled, UpTo
  <2> QED BY <2>1, PartUnit
<1>7. Fetched(d) = {d[c][e].v}
  <2>1. \A x \in Recent(d) :
          (LET b == d[Taken(d, x)]
               f == End(b)
           IN  IF f = 0 THEN None ELSE b[f].v) = d[c][e].v
    BY <1>1, <1>2, <1>4
  <2> QED BY <1>3, <2>1 DEF Fetched
<1>8. Found(d) = d[c][e].v
  BY <1>6, <1>7 DEF Found
<1> QED BY <1>2, <1>5, <1>6, <1>7, <1>8

-----------------------------------------------------------------------------
(* The inductive invariant.                                                *)

\* lfs_mount() will find a block to be the one in use.
Mountable == phase = "off" => \E c \in Block : \E e : Settled(disk, c, e)

(* What RAM has of the block in use.  Until a commit is found to be there, *)
(* none ends behind dir->off; and until the other block is written, it is  *)
(* the older one.                                                          *)
MountedTrue ==
  phase # "off" =>
    /\ disk[pair][1].rev = rev
    /\ UpTo(disk[pair], off)
    /\ phase # "check" => ~CommitAt(disk[pair], off)
    /\ phase # "recheck" => Newer(disk, pair)

\* What is to be committed differs from what the block in use holds.
CommitAsked ==
  IF phase \in {"off", "idle"} THEN asked = None /\ size = 0
  ELSE /\ asked \in Value /\ asked # disk[pair][off].v
       /\ size \in CommitUnits /\ result = "none"

(* The units before the next one were programmed, and the first of them is *)
(* of this commit, if it is a part of a commit.                            *)
Appended ==
  phase \in {"append", "check"} =>
    /\ off + next - 1 <= BlockUnits
    /\ next <= IF phase = "append" THEN size ELSE size + 1
    /\ phase = "check" => next = size + 1
    /\ \A j \in 1 .. next - 1 : disk[pair][off + j] # Erased
    /\ next > 1 /\ disk[pair][off + 1].kind = "part" =>
         /\ disk[pair][off + 1].v = asked /\ disk[pair][off + 1].n = size
         /\ disk[pair][off + 1].rev = NoRev

(* The other block is erased from the next unit on, and what it has before *)
(* that is of this commit.                                                 *)
Compacted ==
  phase \in {"compact", "recheck"} =>
    /\ next <= IF phase = "compact" THEN size ELSE size + 1
    /\ \A i \in 1 .. BlockUnits :
         LET u == disk[1 - pair][i]
         IN  /\ i >= next => u = Erased
             /\ u.kind = "part" =>
                  u.v = asked /\ u.k = i /\ u.n = size /\ u.rev = NextRev

FirstPart == phase \in {"erase", "idle", "off"} => next = 1

PairInv ==
  /\ PairTypeOK /\ stored = Found(disk)
  /\ Mountable /\ MountedTrue /\ CommitAsked /\ Appended /\ Compacted /\ FirstPart

-----------------------------------------------------------------------------
(* Programming.                                                            *)

\* The next revision is one that the disk can hold.
LEMMA NextRevision ==
  ASSUME rev \in Revision
  PROVE  NextRev \in Revision /\ NextRev # NoRev
<1>1. Revisions \in Nat \ {0} /\ rev + 1 \in Nat
  BY PairAssumption DEF Revision
<1>2. (rev + 1) % Revisions \in 0 .. Revisions - 1
  BY <1>1
<1> QED BY <1>2, PairAssumption DEF NextRev, Revision, NoRev

\* The part to be programmed is what the commit asks for.
LEMMA NextPartUnit ==
  ASSUME asked \in Value, next \in 1 .. BlockUnits, size \in CommitUnits,
         NEW b, NEW i, NEW r \in Revision \cup {NoRev}
  PROVE  /\ NextPart(b, i, r) \in Unit /\ NextPart(b, i, r).kind = "part"
         /\ NextPart(b, i, r).v = asked /\ NextPart(b, i, r).k = next
         /\ NextPart(b, i, r).n = size /\ NextPart(b, i, r).rev = r
BY DEF NextPart, Unit, Part

\* What unit i of block b may hold after a program command.
LEMMA ProgramUnit ==
  ASSUME PairTypeOK, asked \in Value, next \in 1 .. BlockUnits, size \in CommitUnits,
         NEW b \in Block, NEW i \in 1 .. BlockUnits, NEW r \in Revision \cup {NoRev},
         Program(b, i, r)
  PROVE  \E u \in Unit :
           /\ disk' = [disk EXCEPT ![b] = [disk[b] EXCEPT ![i] = u]]
           /\ \/ u = Garbage
              \/ /\ disk[b][i] \in {Erased, u} /\ u.kind = "part" /\ u.v = asked
                 /\ u.k = next /\ u.n = size /\ u.rev = r
<1>1. PICK u \in {Programmed(b, i, NextPart(b, i, r)), Garbage} :
        disk' = [disk EXCEPT ![b][i] = u]
  BY DEF Program
<1>2. CASE u = Garbage
  BY <1>1, <1>2 DEF Unit
<1>3. CASE u # Garbage
  <2>1. u = NextPart(b, i, r) /\ disk[b][i] \in {Erased, u}
    BY <1>1, <1>3 DEF Programmed
  <2>2. /\ u \in Unit /\ u.kind = "part" /\ u.v = asked
        /\ u.k = next /\ u.n = size /\ u.rev = r
    BY <2>1, NextPartUnit
  <2> QED BY <1>1, <2>1, <2>2
<1> QED BY <1>2, <1>3

(* A unit more of the commit is appended to block b, or is spoilt.         *)
LEMMA UnitAppended ==
  ASSUME NEW b \in Units, UpTo(b, off), ~CommitAt(b, off),
         size \in CommitUnits, next \in 1 .. size, off + next \in 1 .. BlockUnits,
         \A j \in 1 .. next - 1 : b[off + j] # Erased,
         next > 1 /\ b[off + 1].kind = "part" => b[off + 1].n = size,
         NEW u \in Unit,
         \/ u = Garbage
         \/ /\ b[off + next] \in {Erased, u} /\ u.kind = "part"
            /\ u.k = next /\ u.n = size,
         NEW c, c = [b EXCEPT ![off + next] = u]
  PROVE  /\ c \in Units /\ c[off] = b[off] /\ c[1] = b[1]
         /\ UpTo(c, off)
         /\ next < size \/ u = Garbage => ~CommitAt(c, off)
         /\ \A j \in 1 .. next : c[off + j] # Erased
<1>0. off \in 1 .. BlockUnits /\ off \in 0 .. BlockUnits /\ size \in 1 .. BlockUnits
  BY PairAssumption DEF UpTo
<1>1. c \in Units
  BY DEF Units
<1>2. \A i \in 1 .. BlockUnits : c[i] = IF i = off + next THEN u ELSE b[i]
  BY DEF Units
<1>3. \A i \in 1 .. off : c[i] = b[i]
  BY <1>0, <1>2
<1>4. u # Erased
  BY PartUnit DEF Garbage, Erased
<1>5. \A j \in 1 .. next : c[off + j] # Erased
  <2>1. SUFFICES ASSUME NEW j \in 1 .. next PROVE c[off + j] # Erased
    OBVIOUS
  <2>2. off + j \in 1 .. BlockUnits
    BY <1>0, PairAssumption
  <2>3. CASE j = next
    BY <1>2, <1>4, <2>2, <2>3
  <2>4. CASE j # next
    <3>1. j \in 1 .. next - 1 /\ off + j # off + next
      BY <1>0, <2>4
    <3> QED BY <1>2, <2>2, <3>1
  <2> QED BY <2>3, <2>4
<1>6. Behind(c, off)
  <2>1. ASSUME NEW i \in off + 1 .. BlockUnits, NEW j \in off + 1 .. BlockUnits,
               i < j, c[i] = Erased
        PROVE  c[j] = Erased
    <3>1. i \in 1 .. BlockUnits /\ j \in 1 .. BlockUnits
      BY <1>0
    <3>2. i > off + next
      <4>1. SUFFICES ASSUME i <= off + next PROVE FALSE
        BY <1>0, <3>1
      <4>2. i - off \in 1 .. next /\ off + (i - off) = i
        BY <1>0, <3>1, <4>1
      <4> QED BY <1>5, <2>1, <4>2
    <3>3. c[i] = b[i] /\ c[j] = b[j]
      BY <1>0, <1>2, <2>1, <3>1, <3>2
    <3> QED BY <2>1, <3>3 DEF UpTo, Behind
  <2>2. ASSUME NEW i \in off + 2 .. BlockUnits, c[i].kind = "part"
        PROVE  c[i].k # 1
    <3>1. i \in 1 .. BlockUnits
      BY <1>0
    <3>2. CASE i = off + next
      <4>1. c[i] = u /\ next # 1
        BY <1>0, <1>2, <3>1, <3>2
      <4> QED BY <2>2, <4>1 DEF Garbage
    <3>3. CASE i # off + next
      <4>1. c[i] = b[i]
        BY <1>2, <3>1, <3>3
      <4> QED BY <2>2, <4>1 DEF UpTo, Behind
    <3> QED BY <3>2, <3>3
  <2> QED BY <2>1, <2>2 DEF Behind
<1>7. UpTo(c, off)
  <2>1. Reached(c, off)
    BY <1>0, <1>1, <1>3, ReachedAgrees DEF UpTo
  <2> QED BY <1>0, <1>3, <1>6, <2>1 DEF UpTo
<1>8. ASSUME next < size \/ u = Garbage, CommitAt(c, off) PROVE FALSE
  <2>1. c[off + 1].n = size
    <3>1. c[off + 1].kind = "part" /\ off + 1 \in 1 .. BlockUnits
      BY <1>0, <1>1, <1>8, CommitUnit
    <3>2. CASE next = 1
      BY <1>2, <3>1, <3>2 DEF Garbage
    <3>3. CASE next # 1
      <4>1. c[off + 1] = b[off + 1]
        BY <1>0, <1>2, <3>1, <3>3
      <4> QED BY <3>1, <3>3, <4>1
    <3> QED BY <3>2, <3>3
  <2>2. \A j \in 1 .. size : off + j \in 1 .. BlockUnits /\ c[off + j].kind = "part"
    <3>1. \A j \in 1 .. c[off + 1].n : off + j \in 1 .. BlockUnits /\ c[off + j].kind = "part"
      <4>1. SUFFICES ASSUME NEW j \in 1 .. c[off + 1].n
                     PROVE  off + j \in 1 .. BlockUnits /\ c[off + j].kind = "part"
        OBVIOUS
      <4>2. c \in Units /\ off \in 0 .. BlockUnits /\ CommitAt(c, off)
        BY <1>0, <1>1, <1>8
      <4> QED BY ONLY <4>1, <4>2, CommitParts
    <3> QED BY <2>1, <3>1
  <2>3. c[off + next] = u /\ u # Garbage
    BY <1>2, <2>2 DEF Garbage
  <2>4. CASE b[off + next] = u
    <3>1. c = b
      BY <1>1, <1>2, <2>4 DEF Units
    <3> QED BY <1>8, <3>1
  <2>5. CASE b[off + next] = Erased
    <3>1. next + 1 \in 1 .. size /\ off + (next + 1) \in off + 1 .. BlockUnits
      BY <1>0, <1>8, <2>2, <2>3
    <3>2. off + next \in off + 1 .. BlockUnits /\ off + next < off + (next + 1)
      BY <1>0
    <3>3. b[off + (next + 1)] = Erased
      BY <2>5, <3>1, <3>2 DEF UpTo, Behind
    <3>4. c[off + (next + 1)] = Erased
      BY <1>0, <1>2, <3>1, <3>2, <3>3
    <3> QED BY <2>2, <3>1, <3>4 DEF Erased
  <2> QED BY <2>3, <2>4, <2>5
<1>9. c[off] = b[off] /\ c[1] = b[1]
  BY <1>0, <1>3
<1> QED BY <1>1, <1>5, <1>7, <1>8, <1>9

(* As long as one of its parts is missing, there is no commit.             *)
LEMMA PartMissing ==
  ASSUME NEW b \in Units, size \in CommitUnits, b[1].kind = "part" => b[1].n = size,
         NEW m \in 1 .. size, b[m].kind # "part"
  PROVE  ~CommitAt(b, 0)
<1>1. SUFFICES ASSUME CommitAt(b, 0) PROVE FALSE
  OBVIOUS
<1> DEFINE p == 0
<1>2. p \in 0 .. BlockUnits /\ p + 1 = 1 /\ CommitAt(b, p) /\ p + m = m
  BY <1>1, PairAssumption
<1> HIDE DEF p
<1>3. b[p + 1].kind = "part"
  BY <1>2, CommitUnit
<1>4. m \in 1 .. b[p + 1].n
  BY <1>2, <1>3
<1>5. b[p + m].kind = "part"
  BY <1>2, <1>4, CommitParts
<1> QED BY <1>2, <1>5

(* When all are there, it is the only one.                                 *)
LEMMA OneCommit ==
  ASSUME NEW b \in Units, NEW m \in CommitUnits,
         \A i \in 1 .. BlockUnits : /\ i > m => b[i] = Erased
                                    /\ b[i].kind = "part" => b[i].k = i /\ b[i].n = m,
         CommitAt(b, 0)
  PROVE  UpTo(b, m) /\ ~CommitAt(b, m)
<1> DEFINE p == 0
<1>1. p \in 0 .. BlockUnits /\ p + 1 = 1 /\ CommitAt(b, p) /\ m \in 1 .. BlockUnits
      /\ p + m = m
  BY PairAssumption
<1> HIDE DEF p
<1>2. b[p + 1].kind = "part" /\ b[p + 1].n = m
  <2>1. b[p + 1].kind = "part"
    BY <1>1, CommitUnit
  <2>2. p + 1 \in 1 .. BlockUnits
    BY <1>1, PairAssumption
  <2> QED BY <2>1, <2>2
<1>3. Reached(b, m)
  <2>1. Reached(b, p)
    BY NoFirstCommit DEF p
  <2> QED BY <1>1, <1>2, <2>1, EndFromReached
<1>4. b[m].kind = "part"
  <2>1. m \in 1 .. b[p + 1].n
    BY <1>1, <1>2
  <2> QED BY <1>1, <2>1, CommitParts
<1>5. \A i \in m + 1 .. BlockUnits : b[i] = Erased
  BY <1>1
<1>6. Behind(b, m)
  BY <1>1, <1>5 DEF Behind, Erased
<1>7. ~CommitAt(b, m)
  <2>1. m + 1 \in 1 .. BlockUnits => b[m + 1].kind # "part"
    BY <1>1, <1>5 DEF Erased
  <2>2. m \in 0 .. BlockUnits
    BY <1>1
  <2> QED BY <2>1, <2>2, CommitUnit
<1> QED BY <1>1, <1>3, <1>4, <1>6, <1>7 DEF UpTo

-----------------------------------------------------------------------------
(* Each step preserves the invariant.                                      *)

\* What a fetch finds has a type, whatever the disk.
LEMMA FoundType == \A d : Found(d) \in Value \cup {None}
BY DEF Found

\* A block that has no commit is not the one in use.
LEMMA NewerIfEmpty ==
  ASSUME NEW d, NEW c, d[1 - c] \in Units, ~CommitAt(d[1 - c], 0)
  PROVE  Newer(d, c)
BY NoFirstCommit DEF Newer

\* What the invariant says about the types of the values it is made of.
LEMMA InvTypes ==
  ASSUME PairInv
  PROVE  /\ disk \in Disks /\ disk[0] \in Units /\ disk[1] \in Units
         /\ phase # "off" =>
              /\ pair \in Block /\ 1 - pair \in Block
              /\ disk[pair] \in Units /\ disk[1 - pair] \in Units
              /\ off \in 1 .. BlockUnits /\ off \in 0 .. BlockUnits
         /\ BlockUnits \in Nat \ {0}
BY PairAssumption DEF PairInv, PairTypeOK, MountedTrue, UpTo, Disks, Units, Block

(* At any time one block is in use.                                        *)
LEMMA BlockInUse ==
  ASSUME PairInv
  PROVE  /\ \E c \in Block : \E e : Settled(disk, c, e)
         /\ phase \in {"idle", "append", "erase", "compact"} => Settled(disk, pair, off)
         /\ phase = "check" =>
              IF CommitAt(disk[pair], off)
              THEN /\ Settled(disk, pair, off + size) /\ disk[pair][off + size].v = asked
                   /\ disk[pair][off + 1].n = size
              ELSE Settled(disk, pair, off)
         /\ phase = "recheck" =>
              IF CommitAt(disk[1 - pair], 0)
              THEN Settled(disk, 1 - pair, size) /\ disk[1 - pair][size].v = asked
              ELSE Settled(disk, pair, off)
<1> USE InvTypes
<1>1. phase \in {"idle", "append", "erase", "compact"} => Settled(disk, pair, off)
  BY DEF PairInv, MountedTrue, Settled
<1>2. ASSUME phase = "check"
      PROVE IF CommitAt(disk[pair], off)
            THEN /\ Settled(disk, pair, off + size) /\ disk[pair][off + size].v = asked
                 /\ disk[pair][off + 1].n = size
            ELSE Settled(disk, pair, off)
  <2> DEFINE b == disk[pair]
  <2>1. b \in Units /\ UpTo(b, off) /\ Newer(disk, pair)
    BY <1>2 DEF PairInv, MountedTrue
  <2>2. ASSUME CommitAt(b, off)
        PROVE  /\ Settled(disk, pair, off + size) /\ disk[pair][off + size].v = asked
               /\ disk[pair][off + 1].n = size
    <3>1. b[off + 1].kind = "part" /\ off \in 0 .. BlockUnits
      BY <1>2, <2>1, <2>2, CommitUnit
    <3>2. size \in 1 .. BlockUnits /\ next = size + 1
      BY <1>2, PairAssumption DEF PairInv, CommitAsked, Appended
    <3>3. b[off + 1].n = size /\ b[off + 1].v = asked
      BY <1>2, <3>1, <3>2 DEF PairInv, Appended
    <3> HIDE DEF b
    <3>4. UpTo(b, off + size) /\ ~CommitAt(b, off + size)
      BY <2>1, <2>2, <3>3, Committed
    <3>5. b[off + size].v = asked
      <4>1. size \in 1 .. b[off + 1].n
        BY <3>2, <3>3
      <4> QED BY <2>1, <2>2, <3>1, <3>3, <4>1, CommitParts
    <3> QED BY <2>1, <3>3, <3>4, <3>5 DEF Settled, b
  <2> QED BY <2>1, <2>2 DEF Settled
<1>3. ASSUME phase = "recheck"
      PROVE  IF CommitAt(disk[1 - pair], 0)
             THEN Settled(disk, 1 - pair, size) /\ disk[1 - pair][size].v = asked
             ELSE Settled(disk, pair, off)
  <2> DEFINE b == disk[1 - pair]
  <2>1. b \in Units /\ size \in CommitUnits /\ size \in 1 .. BlockUnits
    BY <1>3, PairAssumption DEF PairInv, CommitAsked
  <2>2. ASSUME CommitAt(b, 0)
        PROVE  Settled(disk, 1 - pair, size) /\ b[size].v = asked
    <3>1. /\ next \in Nat /\ next <= size + 1
          /\ \A i \in 1 .. BlockUnits :
               /\ i >= next => b[i] = Erased
               /\ b[i].kind = "part" => b[i].k = i /\ b[i].n = size
               /\ b[i].kind = "part" => b[i].v = asked /\ b[i].rev = NextRev
      BY <1>3 DEF PairInv, PairTypeOK, Compacted
    <3>2. UpTo(b, size) /\ ~CommitAt(b, size)
      <4> HIDE DEF b
      <4>1. \A i \in 1 .. BlockUnits : i > size => b[i] = Erased
        BY <2>1, <3>1
      <4> QED BY <2>1, <2>2, <3>1, <4>1, OneCommit
    <3>3. b[1].kind = "part" /\ b[size].kind = "part"
      BY <2>2, <3>2 DEF CommitAt, UpTo
    <3>4. b[1].rev = NextRev /\ b[size].v = asked
      BY <2>1, <3>1, <3>3
    <3>5. Newer(disk, 1 - pair)
      <4>1. 1 - (1 - pair) = pair
        BY <1>3 DEF Block
      <4>2. disk[pair][1].rev = rev
        BY <1>3 DEF PairInv, MountedTrue
      <4> QED BY <3>4, <4>1, <4>2 DEF Newer, NextRev
    <3> QED BY <3>2, <3>4, <3>5 DEF Settled
  <2>3. ASSUME ~CommitAt(b, 0) PROVE Settled(disk, pair, off)
    BY <1>3, <2>1, <2>3, NewerIfEmpty DEF PairInv, MountedTrue, Settled
  <2> QED BY <2>2, <2>3
<1>4. \E c \in Block : \E e : Settled(disk, c, e)
  <2>1. CASE phase = "off"
    BY <2>1 DEF PairInv, Mountable
  <2>2. CASE phase # "off"
    BY <1>1, <1>2, <1>3, <2>2 DEF PairInv, PairTypeOK, Phase
  <2> QED BY <2>1, <2>2
<1> QED BY <1>1, <1>2, <1>3, <1>4

\* lfs_format() leaves block 1 in use, with the revision after that of 0.
LEMMA PairInvInit == PairInit => PairInv
<1>1. SUFFICES ASSUME PairInit PROVE PairInv
  OBVIOUS
<1>2. PICK v \in Value, n \in CommitUnits, r \in Revision :
        disk = [b \in Block |-> [i \in 1 .. BlockUnits |->
                 IF i <= n
                 THEN [kind |-> "part", v |-> v, k |-> i, n |-> n,
                       rev |-> (r + b) % Revisions, fcrc |-> i = n /\ n < BlockUnits]
                 ELSE Erased]]
  BY <1>1 DEF PairInit
<1>3. n \in 1 .. BlockUnits /\ BlockUnits \in Nat \ {0} /\ Revisions \in Nat \ {0, 1}
  BY PairAssumption
<1>4. \A b \in Block : (r + b) % Revisions \in Revision
  BY <1>3, PairAssumption DEF Block, Revision
<1>5. ASSUME NEW b \in Block
      PROVE  /\ disk[b] \in Units
             /\ \A i \in 1 .. BlockUnits :
                  IF i <= n
                  THEN /\ disk[b][i].kind = "part" /\ disk[b][i].v = v
                       /\ disk[b][i].k = i /\ disk[b][i].n = n
                       /\ disk[b][i].rev = (r + b) % Revisions
                       /\ disk[b][i].fcrc = (i = n /\ n < BlockUnits)
                  ELSE disk[b][i] = Erased
  <2>1. ASSUME NEW i \in 1 .. BlockUnits, i <= n
        PROVE  [kind |-> "part", v |-> v, k |-> i, n |-> n,
                rev |-> (r + b) % Revisions, fcrc |-> i = n /\ n < BlockUnits] \in Unit
    BY <1>4 DEF Unit, Part
  <2>2. Erased \in Unit
    BY DEF Unit
  <2>3. disk[b] = [i \in 1 .. BlockUnits |->
                 IF i <= n
                 THEN [kind |-> "part", v |-> v, k |-> i, n |-> n,
                       rev |-> (r + b) % Revisions, fcrc |-> i = n /\ n < BlockUnits]
                 ELSE Erased]
    BY <1>2
  <2>4. disk[b] \in Units
    BY <2>1, <2>2, <2>3 DEF Units
  <2> QED BY <2>3, <2>4
<1>6. ASSUME NEW b \in Block PROVE CommitAt(disk[b], 0)
  <2>1. 1 \in 1 .. BlockUnits /\ 0 + 1 = 1
    BY <1>3
  <2>2. disk[b][1].kind = "part" /\ disk[b][1].n = n /\ disk[b][1].rev # NoRev
    <3>1. disk[b][1].rev \in Revision
      BY <1>3, <1>4, <1>5, <2>1
    <3> QED BY <1>3, <1>5, <2>1, <3>1 DEF Revision, NoRev
  <2>3. ASSUME NEW j \in 1 .. n
        PROVE  /\ disk[b][0 + j].kind = "part"
               /\ [disk[b][0 + j] EXCEPT !.fcrc = disk[b][1].fcrc]
                    = [disk[b][1] EXCEPT !.k = j]
    <3>1. j \in 1 .. BlockUnits /\ 0 + j = j /\ j <= n
      BY <1>3
    <3>2. /\ disk[b][j] = [kind |-> "part", v |-> v, k |-> j, n |-> n,
                       rev |-> (r + b) % Revisions, fcrc |-> j = n /\ n < BlockUnits]
          /\ disk[b][1] = [kind |-> "part", v |-> v, k |-> 1, n |-> n,
                       rev |-> (r + b) % Revisions, fcrc |-> 1 = n /\ n < BlockUnits]
      BY <1>2, <1>3, <2>1, <3>1
    <3> QED BY <3>1, <3>2
  <2> QED BY <1>3, <2>1, <2>2, <2>3 DEF CommitAt
<1>7. Settled(disk, 1, n)
  <2>1. 1 \in Block /\ 0 \in Block /\ 1 \in 1 .. BlockUnits /\ 1 <= n /\ 1 - 1 = 0
    BY <1>3 DEF Block
  <2>2. UpTo(disk[1], n) /\ ~CommitAt(disk[1], n)
    <3>1. \A i \in 1 .. BlockUnits :
            /\ i > n => disk[1][i] = Erased
            /\ disk[1][i].kind = "part" => disk[1][i].k = i /\ disk[1][i].n = n
      BY <1>3, <1>5, <2>1 DEF Erased
    <3> QED BY <1>5, <1>6, <2>1, <3>1, OneCommit
  <2>3. disk[1][1].rev = (r + 1) % Revisions /\ disk[0][1].rev = (r + 0) % Revisions
    BY <1>5, <2>1
  <2>4. (r + 0) % Revisions = r
    BY <1>3 DEF Revision
  <2>5. Newer(disk, 1)
    BY <2>1, <2>3, <2>4 DEF Newer
  <2> QED BY <2>2, <2>5 DEF Settled
<1>8. PairTypeOK
  <2>1. disk \in [Block -> [1 .. BlockUnits -> Unit]]
    BY <1>2, <1>5 DEF Units
  <2>2. 0 \in Revision /\ 0 \in Block /\ 0 \in 0 .. BlockUnits /\ 1 \in 1 .. BlockUnits + 1
    BY <1>3 DEF Revision, Block
  <2> QED BY <1>1, <2>1, <2>2, FoundType DEF PairInit, PairTypeOK, Phase
<1>9. Mountable
  BY <1>7 DEF Mountable, Block
<1> QED BY <1>1, <1>8, <1>9
    DEF PairInit, PairInv, MountedTrue, CommitAsked, Appended, Compacted, FirstPart

(* A reset, at once or after a torn command.                               *)
LEMMA LostInv ==
  ASSUME PairInv, Lost, stored' = Found(disk'), disk' \in Disks,
         NEW c \in Block, NEW e, Settled(disk', c, e)
  PROVE  PairInv'
<1>1. PairTypeOK'
  <2>1. 0 \in Revision /\ 0 \in Block /\ 0 \in 0 .. BlockUnits /\ 1 \in 1 .. BlockUnits + 1
    BY PairAssumption DEF Revision, Block
  <2> QED BY <2>1, FoundType DEF PairTypeOK, Phase, Lost, Disks, Units
<1>2. Mountable'
  BY DEF Mountable
<1> QED BY <1>1, <1>2
    DEF Lost, PairInv, MountedTrue, CommitAsked, Appended, Compacted, FirstPart

\* lfs_mount() takes the block in use.
LEMMA MountInv ==
  ASSUME PairInv, lfs_mount, stored' = Found(disk')
  PROVE  PairInv'
<1> USE InvTypes DEF lfs_mount
<1>0. PICK c \in Block : \E e : Settled(disk, c, e)
  BY BlockInUse
<1>1. PICK e : Settled(disk, c, e)
  BY <1>0
<1>2. pair' = c /\ off' = e
  BY <1>1, FetchSettled
<1>3. disk[c] \in Units /\ UpTo(disk[c], e) /\ e \in 1 .. BlockUnits /\ e \in 0 .. BlockUnits
  BY <1>1 DEF Settled, UpTo, Block
<1>4. disk[c][1].rev \in Revision
  <2>1. CommitAt(disk[c], 0)
    BY <1>3, FirstCommit DEF UpTo
  <2>2. disk[c][1].kind = "part" /\ disk[c][1].rev # NoRev
    BY <2>1 DEF CommitAt
  <2>3. disk[c][1] \in Unit
    BY <1>3 DEF Units
  <2> QED BY <2>2, <2>3, PartUnit
<1>5. PairTypeOK'
  <2>1. erased' \in BOOLEAN
    BY DEF PairInv, PairTypeOK
  <2> QED BY <1>2, <1>3, <1>4, <2>1, FoundType DEF PairInv, PairTypeOK, Phase
<1>6. MountedTrue'
  BY <1>1, <1>2 DEF MountedTrue, Settled
<1> QED BY <1>5, <1>6 DEF PairInv, Mountable, CommitAsked, Appended, Compacted, FirstPart

\* lfs_dir_commit() begins with nothing programmed.
LEMMA CommitInv ==
  ASSUME PairInv, NEW v \in Value \ {stored}, NEW n \in CommitUnits, Commit(v, n),
         stored' = Found(disk')
  PROVE  PairInv'
<1> USE InvTypes DEF Commit
<1>1. stored = disk[pair][off].v
  BY BlockInUse, FetchSettled DEF PairInv
<1>2. n \in 1 .. BlockUnits
  BY PairAssumption
<1>3. PairTypeOK'
  BY <1>2, FoundType DEF PairInv, PairTypeOK, Phase, dirVars
<1>4. MountedTrue'
  BY DEF PairInv, MountedTrue, dirVars
<1>5. CommitAsked'
  BY <1>1 DEF CommitAsked, dirVars
<1>6. Appended'
  BY <1>2 DEF Appended, dirVars
<1> QED BY <1>3, <1>4, <1>5, <1>6 DEF PairInv, Mountable, Compacted, FirstPart

(* One more unit of the commit is programmed behind the others.            *)
LEMMA AppendUnit ==
  ASSUME PairInv, phase = "append", off + next <= BlockUnits, NEW u \in Unit,
         disk' = [disk EXCEPT ![pair] = [disk[pair] EXCEPT ![off + next] = u]],
         \/ u = Garbage
         \/ /\ disk[pair][off + next] \in {Erased, u} /\ u.kind = "part"
            /\ u.k = next /\ u.n = size
  PROVE  /\ disk' \in Disks
         /\ disk'[pair][1] = disk[pair][1] /\ disk'[pair][off] = disk[pair][off]
         /\ UpTo(disk'[pair], off) /\ Newer(disk', pair)
         /\ next < size \/ u = Garbage => ~CommitAt(disk'[pair], off)
         /\ \A j \in 1 .. next : disk'[pair][off + j] # Erased
         /\ disk'[pair][off + 1] = IF next = 1 THEN u ELSE disk[pair][off + 1]
<1>0. /\ disk \in Disks /\ disk[pair] \in Units /\ pair \in Block
      /\ off \in 1 .. BlockUnits /\ BlockUnits \in Nat \ {0}
  BY InvTypes
<1> DEFINE b == disk[pair]
           c == [b EXCEPT ![off + next] = u]
<1>1. /\ b \in Units /\ UpTo(b, off) /\ ~CommitAt(b, off) /\ Newer(disk, pair)
      /\ size \in CommitUnits /\ next \in 1 .. size /\ off + next \in 1 .. BlockUnits
      /\ \A j \in 1 .. next - 1 : b[off + j] # Erased
      /\ next > 1 /\ b[off + 1].kind = "part" => b[off + 1].n = size
      /\ off + 1 \in 1 .. BlockUnits
  <2>1. size \in CommitUnits /\ size \in 1 .. BlockUnits /\ next \in 1 .. BlockUnits + 1
    BY PairAssumption DEF PairInv, CommitAsked, PairTypeOK
  <2>2. next <= size
    BY DEF PairInv, Appended
  <2>3. next \in 1 .. size /\ off + next \in 1 .. BlockUnits /\ off + 1 \in 1 .. BlockUnits
    BY <1>0, <2>1, <2>2
  <2> QED BY <1>0, <2>1, <2>3 DEF PairInv, MountedTrue, Appended
<1>2. /\ c \in Units /\ c[off] = b[off] /\ c[1] = b[1] /\ UpTo(c, off)
      /\ next < size \/ u = Garbage => ~CommitAt(c, off)
      /\ \A j \in 1 .. next : c[off + j] # Erased
  <2> HIDE DEF b
  <2>1. \/ u = Garbage
        \/ /\ b[off + next] \in {Erased, u} /\ u.kind = "part"
           /\ u.k = next /\ u.n = size
    BY DEF b
  <2>2. c = [b EXCEPT ![off + next] = u]
    OBVIOUS
  <2> HIDE DEF c
  <2>3. /\ UpTo(b, off) /\ ~CommitAt(b, off)
        /\ \A j \in 1 .. next - 1 : b[off + j] # Erased
        /\ next > 1 /\ b[off + 1].kind = "part" => b[off + 1].n = size
    BY <1>1
  <2>4. b \in Units /\ size \in CommitUnits /\ next \in 1 .. size /\ off + next \in 1 .. BlockUnits
    BY <1>1
  <2> HIDE <1>0, <1>1
  <2> QED BY <2>1, <2>2, <2>3, <2>4, UnitAppended
<1>3. disk' \in Disks /\ disk'[pair] = c /\ disk'[1 - pair] = disk[1 - pair]
  <2>1. disk' = [disk EXCEPT ![pair] = c] /\ pair \in Block /\ disk \in Disks
    BY <1>0
  <2>2. c \in Units
    BY <1>2
  <2> HIDE DEF b, c
  <2> QED BY <2>1, <2>2 DEF Disks, Block
<1>4. Newer(disk', pair)
  BY <1>1, <1>2, <1>3 DEF Newer
<1>5. c[off + 1] = IF next = 1 THEN u ELSE b[off + 1]
  <2>1. /\ off + 1 \in 1 .. BlockUnits /\ off \in Nat /\ next \in Nat
        /\ b \in [1 .. BlockUnits -> Unit]
    BY <1>0, <1>1 DEF Units
  <2> HIDE DEF b
  <2> QED BY <2>1
<1> QED BY <1>2, <1>3, <1>4, <1>5

\* The commit is complete with its last unit, when none was spoilt.
LEMMA AppendPartInv ==
  ASSUME PairInv, AppendPart, stored' = Found(disk')
  PROVE  PairInv'
<1> USE InvTypes
<1>1. /\ phase = "append" /\ next <= size /\ off + next <= BlockUnits
      /\ Program(pair, off + next, NoRev)
      /\ phase' = IF next' > size THEN "check" ELSE "append"
      /\ next' = next + 1
      /\ pair' = pair /\ rev' = rev /\ off' = off /\ erased' = erased
      /\ asked' = asked /\ size' = size /\ result' = result
  BY DEF AppendPart, Program, dirVars
<1>2. /\ asked \in Value /\ size \in CommitUnits /\ size \in 1 .. BlockUnits
      /\ next \in 1 .. BlockUnits /\ off + next \in 1 .. BlockUnits /\ result = "none"
  <2>1. asked \in Value /\ size \in CommitUnits /\ result = "none"
    BY <1>1 DEF PairInv, CommitAsked
  <2>2. size \in 1 .. BlockUnits
    BY <2>1, PairAssumption
  <2>3. next \in 1 .. BlockUnits + 1
    BY DEF PairInv, PairTypeOK
  <2>4. off \in 1 .. BlockUnits
    BY <1>1
  <2> QED BY <1>1, <2>1, <2>2, <2>3, <2>4
<1>3. PICK u \in Unit :
        /\ disk' = [disk EXCEPT ![pair] = [disk[pair] EXCEPT ![off + next] = u]]
        /\ \/ u = Garbage
           \/ /\ disk[pair][off + next] \in {Erased, u} /\ u.kind = "part" /\ u.v = asked
              /\ u.k = next /\ u.n = size /\ u.rev = NoRev
  BY <1>1, <1>2, ProgramUnit DEF PairInv
<1>4. /\ disk' \in Disks
      /\ disk'[pair][1] = disk[pair][1] /\ disk'[pair][off] = disk[pair][off]
      /\ UpTo(disk'[pair], off) /\ Newer(disk', pair)
      /\ next < size \/ u = Garbage => ~CommitAt(disk'[pair], off)
      /\ \A j \in 1 .. next : disk'[pair][off + j] # Erased
      /\ disk'[pair][off + 1] = IF next = 1 THEN u ELSE disk[pair][off + 1]
  BY <1>1, <1>3, AppendUnit
<1>5. PairTypeOK'
  <2>1. next' \in 1 .. BlockUnits + 1
    BY <1>1, <1>2
  <2>2. disk' \in [Block -> [1 .. BlockUnits -> Unit]]
    BY <1>4 DEF Disks, Units
  <2> QED BY <1>1, <2>1, <2>2, FoundType DEF PairInv, PairTypeOK, Phase
<1>6. MountedTrue'
  BY <1>1, <1>2, <1>4 DEF PairInv, MountedTrue
<1>7. CommitAsked'
  BY <1>1, <1>4 DEF PairInv, CommitAsked
<1>8. Appended'
  <2>1. off + next' - 1 <= BlockUnits /\ next' - 1 = next
    BY <1>1, <1>2
  <2>2. disk'[pair][off + 1].kind = "part" =>
          /\ disk'[pair][off + 1].v = asked /\ disk'[pair][off + 1].n = size
          /\ disk'[pair][off + 1].rev = NoRev
    <3>1. CASE next = 1
      BY <1>3, <1>4, <3>1 DEF Garbage
    <3>2. CASE next # 1
      BY <1>1, <1>2, <1>4, <3>2 DEF PairInv, Appended
    <3> QED BY <3>1, <3>2
  <2>3. /\ next' <= IF phase' = "append" THEN size ELSE size + 1
        /\ phase' = "check" => next' = size + 1
    BY <1>1, <1>2
  <2> QED BY <1>1, <1>4, <2>1, <2>2, <2>3 DEF Appended
<1> QED BY <1>1, <1>5, <1>6, <1>7, <1>8 DEF PairInv, Mountable, Compacted, FirstPart

\* What was programmed of a commit that is too long is no commit.
LEMMA NoRoomInv ==
  ASSUME PairInv, NoRoom, stored' = Found(disk')
  PROVE  PairInv'
<1> USE InvTypes DEF NoRoom, dirVars
<1>1. PairTypeOK'
  BY FoundType DEF PairInv, PairTypeOK, Phase
<1>2. MountedTrue'
  BY DEF PairInv, MountedTrue
<1>3. CommitAsked'
  BY DEF PairInv, CommitAsked
<1> QED BY <1>1, <1>2, <1>3 DEF PairInv, Mountable, Appended, Compacted, FirstPart

\* Reading the commit back finds it, if there is one.
LEMMA SoundAppended ==
  ASSUME PairInv, phase = "check"
  PROVE  Sound(pair, off, NoRev) <=> CommitAt(disk[pair], off)
<1>1. ASSUME CommitAt(disk[pair], off) PROVE Sound(pair, off, NoRev)
  <2>1. disk[pair][off + 1].kind = "part"
    BY <1>1 DEF CommitAt
  <2>2. next > 1
    <3>1. size \in CommitUnits /\ next = size + 1
      BY DEF PairInv, CommitAsked, Appended
    <3>2. size \in 1 .. BlockUnits
      BY <3>1, PairAssumption
    <3> QED BY <3>1, <3>2, PairAssumption
  <2> QED BY <1>1, <2>1, <2>2 DEF PairInv, Appended, Sound
<1> QED BY <1>1 DEF Sound

\* The commit that is found moves dir->off, another leaves the block as it was.
LEMMA CheckInv ==
  ASSUME PairInv, Check, stored' = Found(disk')
  PROVE  PairInv'
<1> USE InvTypes DEF Check, Done, dirVars
<1>1. CASE CommitAt(disk[pair], off)
  <2>1. /\ phase' = "idle" /\ asked' = None /\ size' = 0 /\ next' = 1 /\ result' = "ok"
        /\ off' = off + size /\ disk' = disk /\ pair' = pair /\ rev' = rev
        /\ erased' = erased
    BY <1>1, SoundAppended
  <2>2. Settled(disk, pair, off + size)
    BY <1>1, BlockInUse
  <2>3. PairTypeOK'
    <3>1. 1 \in 1 .. BlockUnits + 1 /\ off + size \in 0 .. BlockUnits
      BY <2>2, PairAssumption DEF Settled, UpTo
    <3> QED BY <2>1, <3>1, FoundType DEF PairInv, PairTypeOK, Phase
  <2>4. MountedTrue'
    BY <2>1, <2>2 DEF PairInv, MountedTrue, Settled
  <2> QED BY <2>1, <2>3, <2>4
      DEF PairInv, Mountable, CommitAsked, Appended, Compacted, FirstPart
<1>2. CASE ~CommitAt(disk[pair], off)
  <2>1. /\ phase' = "erase" /\ next' = 1 /\ size' \in CommitUnits
        /\ UNCHANGED <<disk, pair, rev, off, erased, asked, result>>
    BY <1>2, SoundAppended
  <2>2. PairTypeOK'
    BY <2>1, PairAssumption, FoundType DEF PairInv, PairTypeOK, Phase
  <2>3. MountedTrue'
    BY <1>2, <2>1 DEF PairInv, MountedTrue
  <2>4. CommitAsked'
    BY <2>1 DEF PairInv, CommitAsked
  <2> QED BY <2>1, <2>2, <2>3, <2>4
      DEF PairInv, Mountable, Appended, Compacted, FirstPart
<1> QED BY <1>1, <1>2

(* A change of the other block that leaves it without a commit, or with    *)
(* the first one it had, leaves the block in use as it was.                *)
LEMMA OtherBlock ==
  ASSUME PairInv, phase \in {"erase", "compact"}, NEW w \in Units,
         disk' = [disk EXCEPT ![1 - pair] = w],
         CommitAt(w, 0) => w[1] = disk[1 - pair][1] /\ CommitAt(disk[1 - pair], 0)
  PROVE  Settled(disk', pair, off)
<1>1. /\ disk \in Disks /\ disk[1 - pair] \in Units /\ pair \in Block /\ 1 - pair \in Block
  BY InvTypes
<1>2. disk' \in Disks /\ disk'[pair] = disk[pair] /\ disk'[1 - pair] = w
  BY <1>1 DEF Disks, Block
<1>3. Settled(disk, pair, off)
  BY BlockInUse
<1>4. CASE ~CommitAt(w, 0)
  BY <1>2, <1>3, <1>4, NewerIfEmpty DEF Settled
<1>5. CASE CommitAt(w, 0)
  <2>1. End(disk[1 - pair]) > 0
    BY <1>1, <1>5, NoFirstCommit, EndReached
  <2> QED BY <1>2, <1>3, <1>5, <2>1 DEF Settled, Newer
<1> QED BY <1>4, <1>5

\* Erasing the other block takes the older commits.
LEMMA EraseInv ==
  ASSUME PairInv, Erase, stored' = Found(disk')
  PROVE  PairInv'
<1>1. /\ disk \in Disks /\ disk[1 - pair] \in Units /\ pair \in Block /\ 1 - pair \in Block
      /\ BlockUnits \in Nat \ {0} /\ phase = "erase"
  BY InvTypes DEF Erase
<1>2. /\ phase' = "compact" /\ pair' = pair /\ rev' = rev /\ off' = off
      /\ erased' = erased /\ asked' = asked /\ size' = size /\ next' = next
      /\ result' = result
  BY DEF Erase, dirVars
<1> DEFINE w == [i \in 1 .. BlockUnits |-> Erased]
<1>3. w \in Units /\ disk' = [disk EXCEPT ![1 - pair] = w]
  BY DEF Erase, Units, Unit
<1>4. \A i \in 1 .. BlockUnits : w[i] = Erased
  OBVIOUS
<1> HIDE DEF w
<1>5. ~CommitAt(w, 0)
  BY <1>1, <1>4 DEF CommitAt, Erased
<1>6. disk' \in Disks /\ disk'[pair] = disk[pair] /\ disk'[1 - pair] = w
  BY <1>1, <1>3 DEF Disks, Block
<1>7. Settled(disk', pair, off)
  BY <1>1, <1>3, <1>5, OtherBlock
<1>8. PairTypeOK'
  <2>1. disk' \in [Block -> [1 .. BlockUnits -> Unit]]
    BY <1>6 DEF Disks, Units
  <2> QED BY <1>2, <2>1, FoundType DEF PairInv, PairTypeOK, Phase
<1>9. MountedTrue'
  BY <1>1, <1>2, <1>6, <1>7 DEF PairInv, MountedTrue, Settled
<1>10. CommitAsked'
  BY <1>1, <1>2, <1>6 DEF PairInv, CommitAsked
<1>11. Compacted'
  <2>1. next' <= size
    <3>1. size \in CommitUnits /\ next = 1
      BY <1>1 DEF PairInv, CommitAsked, FirstPart
    <3>2. size \in 1 .. BlockUnits
      BY <3>1, PairAssumption
    <3> QED BY <1>2, <3>1, <3>2
  <2> QED BY <1>2, <1>4, <1>6, <2>1 DEF Compacted, Erased
<1> QED BY <1>2, <1>8, <1>9, <1>10, <1>11 DEF PairInv, Mountable, Appended, FirstPart

(* A unit more of the commit is programmed in the other block, or spoilt.  *)
LEMMA CompactUnit ==
  ASSUME PairInv, phase = "compact", NEW u \in Unit,
         disk' = [disk EXCEPT ![1 - pair] = [disk[1 - pair] EXCEPT ![next] = u]],
         \/ u = Garbage
         \/ u.kind = "part" /\ u.v = asked /\ u.k = next /\ u.n = size /\ u.rev = NextRev
  PROVE  /\ disk' \in Disks /\ disk'[pair] = disk[pair]
         /\ next < size \/ u = Garbage => Settled(disk', pair, off)
         /\ \A i \in 1 .. BlockUnits :
              /\ i >= next + 1 => disk'[1 - pair][i] = Erased
              /\ disk'[1 - pair][i].kind = "part" =>
                   /\ disk'[1 - pair][i].v = asked /\ disk'[1 - pair][i].k = i
                   /\ disk'[1 - pair][i].n = size /\ disk'[1 - pair][i].rev = NextRev
<1>1. /\ disk \in Disks /\ disk[1 - pair] \in Units /\ pair \in Block /\ 1 - pair \in Block
      /\ BlockUnits \in Nat \ {0}
  BY InvTypes
<1>2. size \in CommitUnits /\ size \in 1 .. BlockUnits /\ next \in 1 .. size
  <2>1. size \in CommitUnits /\ next <= size /\ next \in 1 .. BlockUnits + 1
    BY DEF PairInv, CommitAsked, Compacted, PairTypeOK
  <2>2. size \in 1 .. BlockUnits
    BY <2>1, PairAssumption
  <2> QED BY <2>1, <2>2
<1> DEFINE w == [disk[1 - pair] EXCEPT ![next] = u]
<1>3. w \in Units /\ disk' = [disk EXCEPT ![1 - pair] = w]
  BY <1>1 DEF Units
<1>4. \A i \in 1 .. BlockUnits : w[i] = IF i = next THEN u ELSE disk[1 - pair][i]
  BY <1>1 DEF Units
<1> HIDE DEF w
<1>5. disk' \in Disks /\ disk'[pair] = disk[pair] /\ disk'[1 - pair] = w
  BY <1>1, <1>3 DEF Disks, Block
<1>6. ASSUME NEW i \in 1 .. BlockUnits
      PROVE  /\ i >= next + 1 => w[i] = Erased
             /\ w[i].kind = "part" =>
                  w[i].v = asked /\ w[i].k = i /\ w[i].n = size /\ w[i].rev = NextRev
  <2>1. CASE i = next
    BY <1>2, <1>4, <2>1 DEF Garbage
  <2>2. CASE i # next
    <3>1. w[i] = disk[1 - pair][i]
      BY <1>4, <2>2
    <3> QED BY <1>2, <3>1 DEF PairInv, Compacted
  <2> QED BY <2>1, <2>2
<1>7. ASSUME next < size \/ u = Garbage PROVE Settled(disk', pair, off)
  <2>1. w[1].kind = "part" => w[1].n = size
    BY <1>1, <1>6
  <2>2. \E m \in 1 .. size : w[m].kind # "part"
    <3>1. CASE u = Garbage
      <4>1. next \in 1 .. BlockUnits
        BY <1>1, <1>2
      <4>2. w[next] = Garbage
        BY <1>4, <3>1, <4>1
      <4> QED BY <1>2, <4>2 DEF Garbage
    <3>2. CASE next < size
      <4>1. next + 1 \in 1 .. size /\ next + 1 \in 1 .. BlockUnits
        BY <1>1, <1>2, <3>2
      <4>2. next + 1 >= next + 1
        BY <1>2
      <4>3. w[next + 1] = Erased
        BY <1>6, <4>1, <4>2
      <4> QED BY <4>1, <4>3 DEF Erased
    <3> QED BY <1>7, <3>1, <3>2
  <2>3. ~CommitAt(w, 0)
    BY <1>2, <1>3, <2>1, <2>2, PartMissing
  <2> QED BY <1>3, <2>3, OtherBlock
<1> QED BY <1>5, <1>6, <1>7

\* The other block becomes the one in use with the last unit of its commit.
LEMMA CompactPartInv ==
  ASSUME PairInv, CompactPart, stored' = Found(disk')
  PROVE  PairInv'
<1>1. /\ phase = "compact" /\ Program(1 - pair, next, NextRev)
      /\ phase' = IF next' > size THEN "recheck" ELSE "compact"
      /\ next' = next + 1
      /\ pair' = pair /\ rev' = rev /\ off' = off /\ erased' = erased
      /\ asked' = asked /\ size' = size /\ result' = result
  BY DEF CompactPart, Program, dirVars
<1>2. /\ pair \in Block /\ 1 - pair \in Block /\ disk[1 - pair] \in Units
      /\ rev \in Revision
  BY <1>1, InvTypes DEF PairInv, PairTypeOK
<1>3. /\ asked \in Value /\ size \in CommitUnits /\ size \in 1 .. BlockUnits
      /\ next \in 1 .. BlockUnits /\ next <= size /\ result = "none"
  <2>1. /\ asked \in Value /\ size \in CommitUnits /\ result = "none" /\ next <= size
        /\ next \in 1 .. BlockUnits + 1
    BY <1>1 DEF PairInv, CommitAsked, Compacted, PairTypeOK
  <2>2. size \in 1 .. BlockUnits /\ BlockUnits \in Nat
    BY <2>1, PairAssumption
  <2> QED BY <2>1, <2>2
<1>4. NextRev \in Revision \cup {NoRev}
  BY <1>2, NextRevision
<1>5. PICK u \in Unit :
        /\ disk' = [disk EXCEPT ![1 - pair] = [disk[1 - pair] EXCEPT ![next] = u]]
        /\ \/ u = Garbage
           \/ /\ disk[1 - pair][next] \in {Erased, u} /\ u.kind = "part" /\ u.v = asked
              /\ u.k = next /\ u.n = size /\ u.rev = NextRev
  <2>1. PairTypeOK
    BY DEF PairInv
  <2>2. next \in 1 .. BlockUnits
    BY <1>3
  <2> DEFINE b == 1 - pair
             i == next
             r == NextRev
  <2>3. /\ b \in Block /\ i \in 1 .. BlockUnits /\ r \in Revision \cup {NoRev}
        /\ Program(b, i, r)
    BY <1>1, <1>2, <1>4, <2>2
  <2> HIDE DEF b, i, r
  <2>4. \E u \in Unit :
          /\ disk' = [disk EXCEPT ![b] = [disk[b] EXCEPT ![i] = u]]
          /\ \/ u = Garbage
             \/ /\ disk[b][i] \in {Erased, u} /\ u.kind = "part" /\ u.v = asked
                /\ u.k = next /\ u.n = size /\ u.rev = r
    BY <1>3, <2>1, <2>2, <2>3, ProgramUnit
  <2> QED BY <2>4 DEF b, i, r
<1>6. /\ disk' \in Disks /\ disk'[pair] = disk[pair]
      /\ next < size \/ u = Garbage => Settled(disk', pair, off)
      /\ \A i \in 1 .. BlockUnits :
           /\ i >= next + 1 => disk'[1 - pair][i] = Erased
           /\ disk'[1 - pair][i].kind = "part" =>
                /\ disk'[1 - pair][i].v = asked /\ disk'[1 - pair][i].k = i
                /\ disk'[1 - pair][i].n = size /\ disk'[1 - pair][i].rev = NextRev
  BY <1>1, <1>5, CompactUnit
<1>7. NextRev' = NextRev
  BY <1>1 DEF NextRev
<1>8. PairTypeOK'
  <2>1. next' \in 1 .. BlockUnits + 1
    BY <1>1, <1>3, PairAssumption
  <2>2. disk' \in [Block -> [1 .. BlockUnits -> Unit]]
    BY <1>6 DEF Disks, Units
  <2> QED BY <1>1, <2>1, <2>2, FoundType DEF PairInv, PairTypeOK, Phase
<1>9. MountedTrue'
  <2>1. phase' # "recheck" => next < size
    BY <1>1, <1>3
  <2> QED BY <1>1, <1>6, <2>1 DEF PairInv, MountedTrue, Settled
<1>10. CommitAsked'
  BY <1>1, <1>6 DEF PairInv, CommitAsked
<1>11. Compacted'
  <2>1. next' <= IF phase' = "compact" THEN size ELSE size + 1
    BY <1>1, <1>3
  <2> QED BY <1>1, <1>6, <1>7, <2>1 DEF Compacted
<1> QED BY <1>1, <1>8, <1>9, <1>10, <1>11 DEF PairInv, Mountable, Appended, FirstPart

\* The same for the other block, when the whole directory is read back.
LEMMA SoundCompacted ==
  ASSUME PairInv, phase = "recheck"
  PROVE  Sound(1 - pair, 0, NextRev) <=> CommitAt(disk[1 - pair], 0)
<1>1. ASSUME CommitAt(disk[1 - pair], 0) PROVE Sound(1 - pair, 0, NextRev)
  <2>1. disk[1 - pair][1].kind = "part" /\ 0 + 1 = 1 /\ 1 \in 1 .. BlockUnits
    BY <1>1, PairAssumption DEF CommitAt
  <2>2. /\ disk[1 - pair][1].v = asked /\ disk[1 - pair][1].n = size
        /\ disk[1 - pair][1].rev = NextRev
    BY <2>1 DEF PairInv, Compacted
  <2> QED BY <1>1, <2>1, <2>2 DEF Sound
<1> QED BY <1>1 DEF Sound

\* The pair is swapped when the whole directory is found in the other block.
LEMMA RecheckInv ==
  ASSUME PairInv, Recheck, stored' = Found(disk')
  PROVE  PairInv'
<1>1. /\ disk \in Disks /\ pair \in Block /\ 1 - pair \in Block /\ phase = "recheck"
      /\ rev \in Revision /\ BlockUnits \in Nat \ {0} /\ 1 \in 1 .. BlockUnits + 1
  BY InvTypes DEF Recheck, PairInv, PairTypeOK
<1>2. CASE CommitAt(disk[1 - pair], 0)
  <2>1. Sound(1 - pair, 0, NextRev)
    BY <1>1, <1>2, SoundCompacted
  <2>2. /\ phase' = "idle" /\ asked' = None /\ size' = 0 /\ next' = 1 /\ result' = "ok"
        /\ pair' = 1 - pair /\ rev' = NextRev /\ off' = size /\ disk' = disk
        /\ erased' = erased
    BY <2>1 DEF Recheck, Done
  <2>3. Settled(disk, 1 - pair, size)
    BY <1>1, <1>2, BlockInUse
  <2>4. disk[1 - pair][1].rev = NextRev
    BY <2>1 DEF Sound
  <2>5. PairTypeOK'
    <3>1. size \in 0 .. BlockUnits
      BY <1>1, <2>3 DEF Settled, UpTo
    <3> QED BY <1>1, <2>2, <3>1, NextRevision, FoundType DEF PairInv, PairTypeOK, Phase
  <2>6. MountedTrue'
    BY <2>2, <2>3, <2>4 DEF MountedTrue, Settled
  <2> QED BY <2>2, <2>5, <2>6
      DEF PairInv, Mountable, CommitAsked, Appended, Compacted, FirstPart
<1>3. CASE ~CommitAt(disk[1 - pair], 0)
  <2>1. /\ phase' = "idle" /\ asked' = None /\ size' = 0 /\ next' = 1 /\ result' = "error"
        /\ UNCHANGED <<disk, pair, rev, off, erased>>
    BY <1>1, <1>3, SoundCompacted DEF Recheck, Done, dirVars
  <2>2. Settled(disk, pair, off)
    BY <1>1, <1>3, BlockInUse
  <2>3. PairTypeOK'
    BY <1>1, <2>1, FoundType DEF PairInv, PairTypeOK, Phase
  <2>4. MountedTrue'
    BY <1>1, <2>1, <2>2 DEF PairInv, MountedTrue, Settled
  <2> QED BY <2>1, <2>3, <2>4
      DEF PairInv, Mountable, CommitAsked, Appended, Compacted, FirstPart
<1> QED BY <1>2, <1>3

\* A reset leaves the disk as it is, at any moment.
LEMMA ResetInv ==
  ASSUME PairInv, Reset, stored' = Found(disk')
  PROVE  PairInv'
<1>1. Lost /\ disk' = disk
  BY DEF Reset
<1>2. \E c \in Block : \E e : Settled(disk, c, e)
  BY BlockInUse
<1>3. disk' \in Disks
  BY <1>1, InvTypes
<1> QED BY <1>1, <1>2, <1>3, LostInv

(* What a torn program command leaves of the disk.                         *)
LEMMA TornProgramDisk ==
  ASSUME PairInv, TornProgram
  PROVE  disk' \in Disks /\ Settled(disk', pair, off) /\ disk'[pair][off] = disk[pair][off]
<1> DEFINE u == Garbage
<1>0. u = Garbage /\ u \in Unit
  BY DEF Unit
<1> HIDE DEF u
<1>1. CASE phase = "append"
  <2>1. /\ off + next <= BlockUnits
        /\ disk' = [disk EXCEPT ![pair] = [disk[pair] EXCEPT ![off + next] = u]]
    BY <1>0, <1>1 DEF TornProgram
  <2>2. /\ disk' \in Disks /\ UpTo(disk'[pair], off) /\ Newer(disk', pair)
        /\ ~CommitAt(disk'[pair], off) /\ disk'[pair][off] = disk[pair][off]
    BY <1>0, <1>1, <2>1, AppendUnit
  <2> QED BY <2>2 DEF Settled
<1>2. CASE phase = "compact"
  <2>1. disk' = [disk EXCEPT ![1 - pair] = [disk[1 - pair] EXCEPT ![next] = u]]
    BY <1>0, <1>2 DEF TornProgram
  <2> QED BY <1>0, <1>2, <2>1, CompactUnit
<1> QED BY <1>1, <1>2 DEF TornProgram

(* Taking parts from a block makes no commit.                              *)
LEMMA FewerParts ==
  ASSUME NEW b \in Units, NEW w \in Units,
         \A i \in 1 .. BlockUnits : w[i].kind = "part" => w[i] = b[i],
         CommitAt(w, 0)
  PROVE  w[1] = b[1] /\ CommitAt(b, 0)
<1> DEFINE p == 0
           e == w[p + 1].n
<1>1. p \in 0 .. BlockUnits /\ p + 1 = 1 /\ CommitAt(w, p)
  BY PairAssumption
<1>2. \A i \in 1 .. BlockUnits : p + i = i
  BY PairAssumption
<1> HIDE DEF p
<1>3. e \in 1 .. BlockUnits
  BY <1>1, CommitUnit
<1>4. \A i \in 1 .. e : w[p + i].kind = "part"
  BY <1>1, CommitParts
<1>5. \A i \in 1 .. e : b[i] = w[i]
  <2> HIDE DEF e
  <2>1. \A i \in 1 .. e : i \in 1 .. BlockUnits
    BY <1>3, PairAssumption
  <2> QED BY <1>2, <1>4, <2>1
<1>6. e \in 0 .. BlockUnits /\ p + e <= e
  <2> HIDE DEF e
  <2> QED BY <1>2, <1>3, PairAssumption
<1>7. CommitAt(b, p) /\ b[p + 1] = w[p + 1]
  BY <1>1, <1>5, <1>6, CommitAgrees
<1> QED BY <1>1, <1>7 DEF p

(* What a torn erase command leaves of it.                                 *)
LEMMA TornEraseDisk ==
  ASSUME PairInv, TornErase
  PROVE  disk' \in Disks /\ Settled(disk', pair, off) /\ disk'[pair][off] = disk[pair][off]
<1>1. /\ disk \in Disks /\ disk[1 - pair] \in Units /\ pair \in Block /\ 1 - pair \in Block
      /\ BlockUnits \in Nat \ {0} /\ phase = "erase"
  BY InvTypes DEF TornErase
<1> DEFINE b == disk[1 - pair]
<1>2. PICK w \in Units : /\ disk' = [disk EXCEPT ![1 - pair] = w]
                         /\ \A i \in 1 .. BlockUnits : w[i].kind = "part" => w[i] = b[i]
  <2>1. PICK left \in [1 .. BlockUnits -> {"as it was", "erased", "garbage"}] :
         disk' = [disk EXCEPT ![1 - pair] =
                   [i \in 1 .. BlockUnits |->
                      IF left[i] = "erased" THEN Erased
                      ELSE IF left[i] = "garbage" THEN Garbage ELSE b[i]]]
    BY DEF TornErase
  <2> DEFINE w == [i \in 1 .. BlockUnits |->
                      IF left[i] = "erased" THEN Erased
                      ELSE IF left[i] = "garbage" THEN Garbage ELSE b[i]]
  <2>2. w \in Units /\ disk' = [disk EXCEPT ![1 - pair] = w]
    BY <1>1, <2>1 DEF Units, Unit
  <2>3. \A i \in 1 .. BlockUnits : w[i].kind = "part" => w[i] = b[i]
    BY DEF Erased, Garbage
  <2> HIDE DEF w, b
  <2> QED BY <2>2, <2>3
<1>3. b \in Units
  BY <1>1
<1> HIDE DEF b
<1>4. CommitAt(w, 0) => w[1] = b[1] /\ CommitAt(b, 0)
  BY <1>2, <1>3, FewerParts
<1>5. Settled(disk', pair, off)
  BY <1>1, <1>2, <1>4, OtherBlock DEF b
<1>6. disk' \in Disks /\ disk'[pair] = disk[pair]
  BY <1>1, <1>2 DEF Disks, Block
<1> QED BY <1>5, <1>6

(* No step leaves the invariant.                                           *)
LEMMA PairInvNext == PairInv /\ [PairNext]_pairVars => PairInv'
<1>1. SUFFICES ASSUME PairInv, [PairNext]_pairVars PROVE PairInv'
  OBVIOUS
<1>2. CASE UNCHANGED pairVars
  BY <1>1, <1>2 DEF pairVars, dirVars, PairInv, PairTypeOK, Mountable, MountedTrue,
     CommitAsked, Appended, Compacted, FirstPart, NextRev
<1>3. CASE PairNext
  <2>1. stored' = Found(disk')
    BY <1>1, <1>3 DEF PairNext, PairInv
  <2>2. CASE lfs_mount
    BY <1>1, <2>1, <2>2, MountInv
  <2>3. ASSUME NEW v \in Value \ {stored}, NEW n \in CommitUnits, Commit(v, n)
        PROVE  PairInv'
    BY <1>1, <2>1, <2>3, CommitInv
  <2>4. CASE AppendPart
    BY <1>1, <2>1, <2>4, AppendPartInv
  <2>5. CASE NoRoom
    BY <1>1, <2>1, <2>5, NoRoomInv
  <2>6. CASE Check
    BY <1>1, <2>1, <2>6, CheckInv
  <2>7. CASE Erase
    BY <1>1, <2>1, <2>7, EraseInv
  <2>8. CASE CompactPart
    BY <1>1, <2>1, <2>8, CompactPartInv
  <2>9. CASE Recheck
    BY <1>1, <2>1, <2>9, RecheckInv
  <2>10. CASE Reset
    BY <1>1, <2>1, <2>10, ResetInv
  <2>11. ASSUME TornProgram \/ TornErase PROVE PairInv'
    <3>1. disk' \in Disks /\ Settled(disk', pair, off) /\ Lost
      BY <1>1, <2>11, TornProgramDisk, TornEraseDisk DEF TornProgram, TornErase
    <3>2. pair \in Block
      BY <1>1 DEF PairInv, PairTypeOK
    <3> QED BY <1>1, <2>1, <3>1, <3>2, LostInv
  <2> QED BY <1>3, <2>2, <2>3, <2>4, <2>5, <2>6, <2>7, <2>8, <2>9, <2>10, <2>11
      DEF PairNext
<1> QED BY <1>1, <1>2, <1>3

(* Every state of the specification is one of the inductive invariant.     *)
LEMMA PairInvAlways == PairSpec => []PairInv
BY PairInvInit, PairInvNext, PTL DEF PairSpec

-----------------------------------------------------------------------------
(* What holds of the pair in every state.                                  *)

(* The variables keep their types: no revision leaves the word on the disk *)
(* and no offset the block.                                                *)
THEOREM PairTypeCorrect == PairSpec => []PairTypeOK
<1>1. PairInv => PairTypeOK
  BY DEF PairInv
<1> QED BY <1>1, PairInvAlways, PTL

\* The value on the disk is that of the last commit of the block in use.
LEMMA StoredValue ==
  ASSUME PairInv, NEW c \in Block, NEW e, Settled(disk, c, e)
  PROVE  stored = disk[c][e].v /\ stored \in Value
BY InvTypes, FetchSettled DEF PairInv

(* In every state that commits, power failures and resets can lead to,     *)
(* lfs_mount() finds one directory, whatever garbage reads as.             *)
THEOREM PairAlwaysMountable == PairSpec => []AlwaysMountable
<1>1. PairInv => AlwaysMountable
  <2>1. SUFFICES ASSUME PairInv PROVE AlwaysMountable
    OBVIOUS
  <2>2. PICK c \in Block : \E e : Settled(disk, c, e)
    BY <2>1, BlockInUse
  <2>3. PICK e : Settled(disk, c, e)
    BY <2>2
  <2>4. stored = disk[c][e].v /\ stored \in Value /\ Fetched(disk) = {disk[c][e].v}
    BY <2>1, <2>3, InvTypes, StoredValue, FetchSettled
  <2> QED BY <2>4, PairAssumption DEF AlwaysMountable
<1> QED BY <1>1, PairInvAlways, PTL

(* What lfs_dir_fetch() found at the mount and what the commits made of it *)
(* is what is on the disk, as long as the volume is mounted.               *)
THEOREM PairDirTrue == PairSpec => []DirTrue
<1>1. PairInv => DirTrue
  <2>1. SUFFICES ASSUME PairInv, phase # "off"
                 PROVE  /\ disk[pair][1].rev = rev
                        /\ phase = "idle" =>
                             /\ pair \in {Taken(disk, c) : c \in Recent(disk)}
                             /\ End(disk[pair]) = off
                        /\ End(disk[pair]) > off => phase \in {"append", "check"}
    BY DEF DirTrue
  <2>2. /\ pair \in Block /\ disk \in Disks /\ disk[pair] \in Units
        /\ off \in 0 .. BlockUnits /\ phase \in Phase
    BY <2>1, InvTypes DEF PairInv, PairTypeOK
  <2>3. phase = "idle" =>
          pair \in {Taken(disk, c) : c \in Recent(disk)} /\ End(disk[pair]) = off
    BY <2>1, <2>2, BlockInUse, FetchSettled
  <2>4. phase # "check" => End(disk[pair]) = off
    BY <2>1, <2>2, EndFromReached DEF PairInv, MountedTrue, UpTo
  <2>5. phase # "check" => ~(End(disk[pair]) > off)
    BY <2>2, <2>4, PairAssumption
  <2> QED BY <2>1, <2>3, <2>5 DEF PairInv, MountedTrue
<1> QED BY <1>1, PairInvAlways, PTL

-----------------------------------------------------------------------------
(* The pair is an atomic store.                                            *)

\* The blocks that can be the one in use, in each phase.
InUse ==
  /\ phase \in {"idle", "append", "erase", "compact"} => Settled(disk, pair, off)
  /\ phase = "check" =>
       IF CommitAt(disk[pair], off)
       THEN Settled(disk, pair, off + size) /\ disk[pair][off + size].v = asked
       ELSE Settled(disk, pair, off)
  /\ phase = "recheck" =>
       IF CommitAt(disk[1 - pair], 0)
       THEN Settled(disk, 1 - pair, size) /\ disk[1 - pair][size].v = asked
       ELSE Settled(disk, pair, off)

\* BlockInUse, as a state predicate that can be said of the next state.
LEMMA InvInUse == PairInv => InUse
BY BlockInUse DEF InUse

(* Programming or erasing takes the value from the old one to the asked    *)
(* one, or leaves it: it becomes the new one with the last unit of a       *)
(* commit that has all of its parts.                                       *)
LEMMA WriteImplements ==
  ASSUME PairInv, PairInv', AppendPart \/ Erase \/ CompactPart
  PROVE  /\ asked \in Value /\ asked' = asked /\ result' = result
         /\ stored' = stored \/ stored' = asked
<1>1. /\ pair' = pair /\ off' = off /\ size' = size /\ asked' = asked /\ result' = result
      /\ phase \in {"append", "erase", "compact"}
      /\ phase' \in {"append", "check", "compact", "recheck"}
      /\ next' = next + 1 \/ Erase
  BY DEF AppendPart, Erase, CompactPart, Program, dirVars
<1>2. /\ pair \in Block /\ 1 - pair \in Block /\ disk \in Disks /\ disk[pair] \in Units
      /\ off \in 1 .. BlockUnits /\ next \in Nat \ {0}
  BY <1>1, InvTypes, PairAssumption DEF PairInv, PairTypeOK
<1>3. asked \in Value
  BY <1>1 DEF PairInv, CommitAsked
<1>4. disk'[pair][off] = disk[pair][off]
  <2>1. CASE AppendPart
    <3>1. PICK u : disk' = [disk EXCEPT ![pair][off + next] = u]
      BY <2>1 DEF AppendPart, Program
    <3>2. off + next # off
      BY <1>2, PairAssumption
    <3> QED BY <1>2, <3>1, <3>2 DEF Disks, Units
  <2>2. CASE Erase \/ CompactPart
    <3>1. disk'[pair] = disk[pair]
      BY <1>2, <2>2 DEF Erase, CompactPart, Program, Disks, Block
    <3> QED BY <3>1
  <2> QED BY <2>1, <2>2
<1>5. stored = disk[pair][off].v
  <2>1. Settled(disk, pair, off)
    BY <1>1, BlockInUse
  <2> QED BY <1>2, <2>1, StoredValue
<1>6. /\ stored' = Found(disk') /\ disk' \in Disks
      /\ Settled(disk', pair, off)
         \/ \E c \in Block : \E e : Settled(disk', c, e) /\ disk'[c][e].v = asked
  <2>1. stored' = Found(disk') /\ disk' \in Disks
    BY DEF PairInv, PairTypeOK, Disks, Units
  <2>2. InUse'
    BY InvInUse, PTL
  <2> QED BY <1>1, <1>2, <2>1, <2>2 DEF InUse
<1>7. CASE Settled(disk', pair, off)
  BY <1>1, <1>2, <1>3, <1>4, <1>5, <1>6, <1>7, FetchSettled
<1>8. CASE \E c \in Block : \E e : Settled(disk', c, e) /\ disk'[c][e].v = asked
  BY <1>1, <1>3, <1>6, <1>8, FetchSettled
<1> QED BY <1>6, <1>7, <1>8

\* The end of a commit is told what came of it.
LEMMA ReadBackImplements ==
  ASSUME PairInv, PairInv', Check \/ Recheck, stored' = stored
  PROVE  Store!Succeed \/ Store!Refuse \/ UNCHANGED Store!storeVars
<1>1. /\ pair \in Block /\ 1 - pair \in Block /\ phase \in {"check", "recheck"}
      /\ asked \in Value /\ asked # None /\ asked # disk[pair][off].v
  BY InvTypes, PairAssumption DEF Check, Recheck, PairInv, CommitAsked
<1>2. CASE Check
  <2>1. CASE CommitAt(disk[pair], off)
    <3>1. asked' = None /\ result' = "ok"
      BY <1>2, <2>1, SoundAppended DEF Check, Done
    <3>2. stored = asked
      BY <1>1, <1>2, <2>1, BlockInUse, StoredValue DEF Check
    <3> QED BY <1>1, <3>1, <3>2 DEF Store!Succeed
  <2>2. CASE ~CommitAt(disk[pair], off)
    BY <1>2, <2>2, SoundAppended DEF Check, Store!storeVars
  <2> QED BY <2>1, <2>2
<1>3. CASE Recheck
  <2>1. CASE CommitAt(disk[1 - pair], 0)
    <3>1. asked' = None /\ result' = "ok"
      BY <1>3, <2>1, SoundCompacted DEF Recheck, Done
    <3>2. stored = asked
      BY <1>1, <1>3, <2>1, BlockInUse, StoredValue DEF Recheck
    <3> QED BY <1>1, <3>1, <3>2 DEF Store!Succeed
  <2>2. CASE ~CommitAt(disk[1 - pair], 0)
    <3>1. asked' = None /\ result' = "error"
      BY <1>3, <2>2, SoundCompacted DEF Recheck, Done
    <3>2. stored # asked
      BY <1>1, <1>3, <2>2, BlockInUse, StoredValue DEF Recheck
    <3> QED BY <1>1, <3>1, <3>2 DEF Store!Refuse
  <2> QED BY <2>1, <2>2
<1> QED BY <1>2, <1>3

\* Every step of the pair is one of the store, or changes nothing in it.
LEMMA StepImplements ==
  PairInv /\ PairInv' /\ [PairNext]_pairVars => [Store!StoreNext]_Store!storeVars
<1>1. SUFFICES ASSUME PairInv, PairInv', [PairNext]_pairVars
               PROVE  Store!StoreNext \/ UNCHANGED Store!storeVars
  OBVIOUS
<1>2. CASE UNCHANGED pairVars
  BY <1>2 DEF pairVars, Store!storeVars
<1>3. CASE PairNext
  <2>1. disk' = disk => stored' = stored
    BY <1>3 DEF PairNext
  <2>2. CASE lfs_mount \/ Reset
    <3>1. asked' = None /\ result' = "none" /\ stored' = stored
      BY <1>1, <2>1, <2>2 DEF lfs_mount, Reset, Lost, PairInv, CommitAsked
    <3> QED BY <3>1 DEF Store!CutShort, Store!StoreNext
  <2>3. ASSUME NEW v \in Value \ {stored}, NEW n \in CommitUnits, Commit(v, n)
        PROVE  Store!Ask
    <3>1. asked = None /\ asked' = v /\ result' = "none" /\ disk' = disk
      BY <1>1, <2>3 DEF Commit, PairInv, CommitAsked
    <3> QED BY <2>1, <2>3, <3>1 DEF Store!Ask
  <2>4. CASE AppendPart \/ Erase \/ CompactPart
    <3>1. /\ asked \in Value /\ asked' = asked /\ result' = result
          /\ stored' = stored \/ stored' = asked
      BY <1>1, <2>4, WriteImplements
    <3> QED BY <3>1, PairAssumption DEF Store!Store, Store!StoreNext, Store!storeVars
  <2>5. CASE NoRoom
    BY <2>1, <2>5 DEF NoRoom, dirVars, Store!storeVars
  <2>6. CASE Check \/ Recheck
    <3>1. disk' = disk
      BY <2>6 DEF Check, Recheck
    <3> QED BY <1>1, <2>1, <2>6, <3>1, ReadBackImplements DEF Store!StoreNext
  <2>7. CASE TornProgram \/ TornErase
    <3>1. /\ disk' \in Disks /\ Settled(disk', pair, off) /\ Lost
          /\ disk'[pair][off] = disk[pair][off]
      BY <1>1, <2>7, TornProgramDisk, TornEraseDisk DEF TornProgram, TornErase
    <3>2. pair \in Block /\ phase \in {"append", "erase", "compact"}
      BY <1>1, <2>7 DEF PairInv, PairTypeOK, TornProgram, TornErase
    <3>3. stored = disk[pair][off].v
      BY <1>1, <3>2, BlockInUse, StoredValue
    <3>4. stored' = disk'[pair][off].v
      <4>1. stored' = Found(disk')
        BY <1>1 DEF PairInv
      <4> QED BY <3>1, <3>2, <4>1, FetchSettled
    <3> QED BY <3>1, <3>3, <3>4 DEF Lost, Store!CutShort, Store!StoreNext
  <2> QED BY <1>3, <2>2, <2>3, <2>4, <2>5, <2>6, <2>7 DEF PairNext, Store!StoreNext
<1> QED BY <1>1, <1>2, <1>3

(* The pair implements an atomic store: a commit that returns 0 has stored *)
(* its value, one that returns an error nothing, and one that is cut short *)
(* the one or the other, whatever was torn and whenever.                   *)
THEOREM PairImplementsStore == PairSpec => ImplementsStore
<1>1. PairInit => Store!StoreInit
  <2>1. SUFFICES ASSUME PairInit PROVE Store!StoreInit
    OBVIOUS
  <2>2. PairInv
    BY <2>1, PairInvInit
  <2>3. stored \in Value
    BY <2>2, BlockInUse, StoredValue
  <2> QED BY <2>1, <2>3 DEF PairInit, Store!StoreInit
<1> QED BY <1>1, StepImplements, PairInvAlways, PTL
    DEF PairSpec, ImplementsStore, Store!StoreSpec
=============================================================================
