---------------------------- MODULE OikosProofs ----------------------------
(***************************************************************************)
(* Proofs about Oikos, for any memory map, sizes, programs and number of   *)
(* processes: the counter of pages is right, no page has two owners, pages *)
(* get lost in two ways only, and SYS_MMAP gives all or nothing.           *)
(*                                                                         *)
(* Every operation works on one address space w and the bitmap (Sound);    *)
(* what it does to the others is what it does to Rest(w), the marked pages *)
(* that are not w's.                                                       *)
(*                                                                         *)
(* And about KernelHeap: the blocks tile the heap, as long as the pages    *)
(* added to it lie right behind it.                                        *)
(***************************************************************************)
EXTENDS Oikos, KernelHeap, FiniteSetTheorems, SequenceTheorems, WellFoundedInduction, TLAPS

\* A set of numbers has a least one, which Min picks
LEMMA LeastOne ==
  ASSUME NEW S \in SUBSET Nat, S # {}
  PROVE  Min(S) \in S /\ \A y \in S : Min(S) <= y
<1> DEFINE R == {p \in Nat \X Nat : p[1] < p[2]}
<1>1. IsWellFoundedOn(R, Nat)
  BY NatLessThanWellFounded, Zenon DEF OpToRel
<1> HIDE DEF R
<1>2. PICK x \in S : \A y \in S : ~(<<y, x>> \in R)
  BY <1>1, WFMin
<1>3. ASSUME NEW y \in S PROVE x <= y
  <2>1. x \in Nat /\ y \in Nat /\ <<y, x>> \in Nat \X Nat
    OBVIOUS
  <2>2. ~(<<y, x>>[1] < <<y, x>>[2])
    BY <1>2, <2>1, Zenon DEF R
  <2> QED BY <2>1, <2>2
<1> QED BY <1>3 DEF Min
-----------------------------------------------------------------------------
(* Loops: what holds before the first round and is kept by each holds after the last *)

Inductive(n, S) == n \in Nat /\ 0 \in S /\ \A i \in 1 .. n : i - 1 \in S => i \in S

LEMMA Induct ==
  ASSUME NEW n, NEW S, Inductive(n, S)
  PROVE  \A i \in 0 .. n : i \in S
<1> DEFINE Bad == {i \in 0 .. n : i \notin S}
<1>1. n \in Nat /\ 0 \in S /\ \A i \in 1 .. n : i - 1 \in S => i \in S
  BY DEF Inductive
<1>2. Bad \in SUBSET Nat
  BY <1>1
<1>3. SUFFICES ASSUME Bad # {} PROVE FALSE
  OBVIOUS
<1>4. PICK k : k \in Bad /\ \A y \in Bad : k <= y
  <2> HIDE DEF Bad
  <2> QED BY <1>2, <1>3, LeastOne
<1>5. k \in 1 .. n
  BY <1>1, <1>4
<1>6. k - 1 \in 0 .. n /\ ~(k <= k - 1)
  BY <1>1, <1>5
<1>7. k - 1 \in S
  BY <1>4, <1>6
<1> QED BY <1>1, <1>4, <1>5, <1>7

\* F[i] takes the things X[i - 1] allows before round i to things X[i] allows after it
Rounds(n, X, F, w) ==
  n \in Nat /\ w \in X[0] /\ \A i \in 1 .. n : \A x \in X[i - 1] : F[i][x] \in X[i]
RunOf(n, F, w, g) == g = [i \in 0 .. n |-> IF i = 0 THEN w ELSE F[i][g[i - 1]]]

LEMMA RunsGrow ==
  ASSUME NEW n \in Nat, NEW F, NEW w, NEW k \in 1 .. n, NEW g, RunOf(k - 1, F, w, g)
  PROVE  \E h : RunOf(k, F, w, h)
<1>1. PICK j : j = k - 1 /\ j \in Nat /\ j \in 0 .. k /\ j # k /\ k # 0
  OBVIOUS
<1>2. PICK h : h = [i \in 0 .. k |-> IF i = k THEN F[k][g[j]] ELSE g[i]]
  OBVIOUS
<1>3. \A i \in 0 .. j : g[i] = IF i = 0 THEN w ELSE F[i][g[i - 1]]
  BY <1>1 DEF RunOf
<1>4. ASSUME NEW i \in 0 .. k PROVE h[i] = IF i = 0 THEN w ELSE F[i][h[i - 1]]
  <2>1. CASE i = k
    <3>1. h[j] = g[j] /\ i - 1 = j /\ h[i] = F[k][g[j]] /\ i # 0
      BY <1>1, <1>2, <2>1
    <3> QED BY <2>1, <3>1
  <2>2. CASE i # k /\ i # 0
    <3>1. i \in 0 .. j /\ i - 1 \in 0 .. k /\ i - 1 # k
      BY <1>1, <2>2
    <3>2. h[i] = g[i] /\ h[i - 1] = g[i - 1]
      BY <1>2, <2>2, <3>1
    <3> QED BY <1>3, <2>2, <3>1, <3>2
  <2>3. CASE i = 0
    <3>1. 0 \in 0 .. j /\ h[0] = g[0]
      BY <1>1, <1>2, <2>3
    <3> QED BY <1>3, <2>3, <3>1
  <2> QED BY <2>1, <2>2, <2>3
<1>5. h = [i \in 0 .. k |-> IF i = 0 THEN w ELSE F[i][h[i - 1]]]
  BY <1>2, <1>4
<1> QED BY <1>5 DEF RunOf

LEMMA Runs ==
  ASSUME NEW n, NEW X, NEW F, NEW w, Rounds(n, X, F, w)
  PROVE  \E g : RunOf(n, F, w, g) /\ \A i \in 0 .. n : g[i] \in X[i]
<1>1. n \in Nat /\ w \in X[0] /\ \A i \in 1 .. n : \A x \in X[i - 1] : F[i][x] \in X[i]
  BY DEF Rounds
<1> DEFINE S == {k \in 0 .. n : \E g : RunOf(k, F, w, g)}
<1>2. 0 \in S
  <2>1. PICK g : g = [i \in 0 .. 0 |-> w]
    OBVIOUS
  <2>2. \A i \in 0 .. 0 : i = 0
    OBVIOUS
  <2>3. RunOf(0, F, w, g)
    BY <2>1, <2>2 DEF RunOf
  <2> QED BY <1>1, <2>3
<1>3. ASSUME NEW k \in 1 .. n, k - 1 \in S PROVE k \in S
  <2>1. PICK g : RunOf(k - 1, F, w, g)
    BY <1>3
  <2> QED BY <1>1, <2>1, RunsGrow
<1>4. n \in S
  <2>1. Inductive(n, S)
    BY <1>1, <1>2, <1>3 DEF Inductive
  <2> HIDE DEF S
  <2> QED BY <1>1, <2>1, Induct
<1>5. PICK g : RunOf(n, F, w, g)
  BY <1>4
<1>6. g[0] = w /\ \A i \in 1 .. n : g[i] = F[i][g[i - 1]]
  BY <1>1, <1>5 DEF RunOf
<1> DEFINE T == {i \in 0 .. n : g[i] \in X[i]}
<1>7. 0 \in T /\ \A i \in 1 .. n : i - 1 \in T => i \in T
  BY <1>1, <1>6
<1>8. Inductive(n, T)
  BY <1>1, <1>7 DEF Inductive
<1>9. \A i \in 0 .. n : i \in T
  <2> HIDE DEF T
  <2> QED BY <1>8, Induct
<1> QED BY <1>5, <1>9

\* h does the rounds as far as they keep within X
Follows(n, X, F, w, h) ==
  /\ Rounds(n, X, F, w) /\ h[0] = w
  /\ \A i \in 1 .. n : h[i - 1] \in X[i - 1] => h[i] = F[i][h[i - 1]]

LEMMA RunsIn ==
  ASSUME NEW n, NEW X, NEW F, NEW w, NEW h, Follows(n, X, F, w, h)
  PROVE  h[n] \in X[n]
<1>0. /\ h[0] = w
      /\ \A i \in 1 .. n : h[i - 1] \in X[i - 1] => h[i] = F[i][h[i - 1]]
  BY DEF Follows
<1>1. n \in Nat /\ w \in X[0] /\ \A i \in 1 .. n : \A x \in X[i - 1] : F[i][x] \in X[i]
  BY DEF Follows, Rounds
<1> DEFINE T == {i \in 0 .. n : h[i] \in X[i]}
<1>2. 0 \in T /\ \A i \in 1 .. n : i - 1 \in T => i \in T
  BY <1>0, <1>1
<1>3. Inductive(n, T)
  BY <1>1, <1>2 DEF Inductive
<1>4. n \in T
  <2> HIDE DEF T
  <2> QED BY <1>1, <1>3, Induct
<1> QED BY <1>4
-----------------------------------------------------------------------------
(* The loops of Oikos one by one: X[i] is what may be there after round i *)

WalkRounds(w, va, n, X) ==
  n \in Nat /\ w \in X[0] /\ \A i \in 1 .. n : \A x \in X[i - 1] : EnsureTable(x, Table(Levels - i, va)) \in X[i]
WalkRun(w, va, n, g) ==
  g = [i \in 0 .. n |-> IF i = 0 THEN w ELSE EnsureTable(g[i - 1], Table(Levels - i, va))]

LEMMA WalkLoop ==
  ASSUME NEW w, NEW va, NEW n, n = Levels - 1, NEW X, WalkRounds(w, va, n, X)
  PROVE  Walk(w, va) \in X[n]
<1>1. n \in Nat /\ w \in X[0] /\ \A i \in 1 .. n : \A x \in X[i - 1] : EnsureTable(x, Table(Levels - i, va)) \in X[i]
  BY DEF WalkRounds
<1>2. PICK F : F = [i \in 1 .. n |-> [x \in X[i - 1] |-> EnsureTable(x, Table(Levels - i, va))]]
  OBVIOUS
<1>3. \A i \in 1 .. n : \A x \in X[i - 1] : F[i][x] = EnsureTable(x, Table(Levels - i, va))
  BY <1>2
<1>4. Rounds(n, X, F, w)
  BY <1>1, <1>3 DEF Rounds
<1>5. PICK g : RunOf(n, F, w, g) /\ \A i \in 0 .. n : g[i] \in X[i]
  BY <1>4, Runs
<1>6. WalkRun(w, va, n, g)
  <2>1. ASSUME NEW i \in 0 .. n, i # 0 PROVE F[i][g[i - 1]] = EnsureTable(g[i - 1], Table(Levels - i, va))
    <3>1. i \in 1 .. n /\ i - 1 \in 0 .. n
      BY <1>1, <2>1
    <3> QED BY <1>3, <1>5, <3>1
  <2> QED BY <1>1, <1>5, <2>1 DEF RunOf, WalkRun
<1>7. PICK h : h = CHOOSE f : WalkRun(w, va, n, f)
  OBVIOUS
<1>8. WalkRun(w, va, n, h)
  BY <1>6, <1>7, Zenon
<1>9. Walk(w, va) = h[n]
  BY <1>7 DEF Iterate, Walk, WalkRun
<1>10. h[0] = w /\ \A i \in 1 .. n : h[i] = EnsureTable(h[i - 1], Table(Levels - i, va))
  BY <1>1, <1>8 DEF WalkRun
<1>11. Follows(n, X, F, w, h)
  BY <1>3, <1>4, <1>10 DEF Follows
<1>12. h[n] \in X[n]
  BY <1>11, RunsIn
<1> QED BY <1>9, <1>12

MapRounds(w, base, frame, n, X) ==
  n \in Nat /\ w \in X[0] /\ \A i \in 1 .. n : \A x \in X[i - 1] : MapIgnoring(x, base + (i - 1), frame + (i - 1)) \in X[i]
MapRun(w, base, frame, n, g) ==
  g = [i \in 0 .. n |-> IF i = 0 THEN w ELSE MapIgnoring(g[i - 1], base + (i - 1), frame + (i - 1))]

LEMMA MapLoop ==
  ASSUME NEW w, NEW base, NEW frame, NEW n, NEW X, MapRounds(w, base, frame, n, X)
  PROVE  MapPages(w, base, n, frame) \in X[n]
<1>1. n \in Nat /\ w \in X[0] /\ \A i \in 1 .. n : \A x \in X[i - 1] : MapIgnoring(x, base + (i - 1), frame + (i - 1)) \in X[i]
  BY DEF MapRounds
<1>2. PICK F : F = [i \in 1 .. n |-> [x \in X[i - 1] |-> MapIgnoring(x, base + (i - 1), frame + (i - 1))]]
  OBVIOUS
<1>3. \A i \in 1 .. n : \A x \in X[i - 1] : F[i][x] = MapIgnoring(x, base + (i - 1), frame + (i - 1))
  BY <1>2
<1>4. Rounds(n, X, F, w)
  BY <1>1, <1>3 DEF Rounds
<1>5. PICK g : RunOf(n, F, w, g) /\ \A i \in 0 .. n : g[i] \in X[i]
  BY <1>4, Runs
<1>6. MapRun(w, base, frame, n, g)
  <2>1. ASSUME NEW i \in 0 .. n, i # 0 PROVE F[i][g[i - 1]] = MapIgnoring(g[i - 1], base + (i - 1), frame + (i - 1))
    <3>1. i \in 1 .. n /\ i - 1 \in 0 .. n
      BY <1>1, <2>1
    <3> QED BY <1>3, <1>5, <3>1
  <2> QED BY <1>1, <1>5, <2>1 DEF RunOf, MapRun
<1>7. PICK h : h = CHOOSE f : MapRun(w, base, frame, n, f)
  OBVIOUS
<1>8. MapRun(w, base, frame, n, h)
  BY <1>6, <1>7, Zenon
<1>9. MapPages(w, base, n, frame) = h[n]
  BY <1>7 DEF Iterate, MapPages, MapRun
<1>10. h[0] = w /\ \A i \in 1 .. n : h[i] = MapIgnoring(h[i - 1], base + (i - 1), frame + (i - 1))
  BY <1>1, <1>8 DEF MapRun
<1>11. Follows(n, X, F, w, h)
  BY <1>3, <1>4, <1>10 DEF Follows
<1>12. h[n] \in X[n]
  BY <1>11, RunsIn
<1> QED BY <1>9, <1>12

LoadRounds(w, segs, n, X) ==
  n \in Nat /\ w \in X[0] /\ \A i \in 1 .. n : \A x \in X[i - 1] : LoadSegment(x, segs[i]) \in X[i]
LoadRun(w, segs, n, g) ==
  g = [i \in 0 .. n |-> IF i = 0 THEN w ELSE LoadSegment(g[i - 1], segs[i])]

LEMMA LoadLoop ==
  ASSUME NEW w, NEW segs, NEW n, n = Len(segs), NEW X, LoadRounds(w, segs, n, X)
  PROVE  LoadSegments(w, segs) \in X[n]
<1>1. n \in Nat /\ w \in X[0] /\ \A i \in 1 .. n : \A x \in X[i - 1] : LoadSegment(x, segs[i]) \in X[i]
  BY DEF LoadRounds
<1>2. PICK F : F = [i \in 1 .. n |-> [x \in X[i - 1] |-> LoadSegment(x, segs[i])]]
  OBVIOUS
<1>3. \A i \in 1 .. n : \A x \in X[i - 1] : F[i][x] = LoadSegment(x, segs[i])
  BY <1>2
<1>4. Rounds(n, X, F, w)
  BY <1>1, <1>3 DEF Rounds
<1>5. PICK g : RunOf(n, F, w, g) /\ \A i \in 0 .. n : g[i] \in X[i]
  BY <1>4, Runs
<1>6. LoadRun(w, segs, n, g)
  <2>1. ASSUME NEW i \in 0 .. n, i # 0 PROVE F[i][g[i - 1]] = LoadSegment(g[i - 1], segs[i])
    <3>1. i \in 1 .. n /\ i - 1 \in 0 .. n
      BY <1>1, <2>1
    <3> QED BY <1>3, <1>5, <3>1
  <2> QED BY <1>1, <1>5, <2>1 DEF RunOf, LoadRun
<1>7. PICK h : h = CHOOSE f : LoadRun(w, segs, n, f)
  OBVIOUS
<1>8. LoadRun(w, segs, n, h)
  BY <1>6, <1>7, Zenon
<1>9. LoadSegments(w, segs) = h[n]
  BY <1>7 DEF Iterate, LoadSegments, LoadRun
<1>10. h[0] = w /\ \A i \in 1 .. n : h[i] = LoadSegment(h[i - 1], segs[i])
  BY <1>1, <1>8 DEF LoadRun
<1>11. Follows(n, X, F, w, h)
  BY <1>3, <1>4, <1>10 DEF Follows
<1>12. h[n] \in X[n]
  BY <1>11, RunsIn
<1> QED BY <1>9, <1>12

MmapRounds(w, base, n, X) ==
  n \in Nat /\ w \in X[0] /\ \A i \in 1 .. n : \A x \in X[i - 1] : MmapPage(x, base + (i - 1)) \in X[i]
MmapRun(w, base, n, g) ==
  g = [i \in 0 .. n |-> IF i = 0 THEN w ELSE MmapPage(g[i - 1], base + (i - 1))]

LEMMA MmapLoop ==
  ASSUME NEW w, NEW base, NEW n, NEW X, MmapRounds(w, base, n, X)
  PROVE  MmapPages(w, base, n) \in X[n]
<1>1. n \in Nat /\ w \in X[0] /\ \A i \in 1 .. n : \A x \in X[i - 1] : MmapPage(x, base + (i - 1)) \in X[i]
  BY DEF MmapRounds
<1>2. PICK F : F = [i \in 1 .. n |-> [x \in X[i - 1] |-> MmapPage(x, base + (i - 1))]]
  OBVIOUS
<1>3. \A i \in 1 .. n : \A x \in X[i - 1] : F[i][x] = MmapPage(x, base + (i - 1))
  BY <1>2
<1>4. Rounds(n, X, F, w)
  BY <1>1, <1>3 DEF Rounds
<1>5. PICK g : RunOf(n, F, w, g) /\ \A i \in 0 .. n : g[i] \in X[i]
  BY <1>4, Runs
<1>6. MmapRun(w, base, n, g)
  <2>1. ASSUME NEW i \in 0 .. n, i # 0 PROVE F[i][g[i - 1]] = MmapPage(g[i - 1], base + (i - 1))
    <3>1. i \in 1 .. n /\ i - 1 \in 0 .. n
      BY <1>1, <2>1
    <3> QED BY <1>3, <1>5, <3>1
  <2> QED BY <1>1, <1>5, <2>1 DEF RunOf, MmapRun
<1>7. PICK h : h = CHOOSE f : MmapRun(w, base, n, f)
  OBVIOUS
<1>8. MmapRun(w, base, n, h)
  BY <1>6, <1>7, Zenon
<1>9. MmapPages(w, base, n) = h[n]
  BY <1>7 DEF Iterate, MmapPages, MmapRun
<1>10. h[0] = w /\ \A i \in 1 .. n : h[i] = MmapPage(h[i - 1], base + (i - 1))
  BY <1>1, <1>8 DEF MmapRun
<1>11. Follows(n, X, F, w, h)
  BY <1>3, <1>4, <1>10 DEF Follows
<1>12. h[n] \in X[n]
  BY <1>11, RunsIn
<1> QED BY <1>9, <1>12

UnmapRounds(w, base, n, X) ==
  n \in Nat /\ w \in X[0] /\ \A i \in 1 .. n : \A x \in X[i - 1] : Unmap(x, base + (i - 1)) \in X[i]
UnmapRun(w, base, n, g) ==
  g = [i \in 0 .. n |-> IF i = 0 THEN w ELSE Unmap(g[i - 1], base + (i - 1))]

LEMMA UnmapLoop ==
  ASSUME NEW w, NEW base, NEW n, n = w.done, NEW X, UnmapRounds(w, base, n, X)
  PROVE  Rollback(w, base) \in X[n]
<1>1. n \in Nat /\ w \in X[0] /\ \A i \in 1 .. n : \A x \in X[i - 1] : Unmap(x, base + (i - 1)) \in X[i]
  BY DEF UnmapRounds
<1>2. PICK F : F = [i \in 1 .. n |-> [x \in X[i - 1] |-> Unmap(x, base + (i - 1))]]
  OBVIOUS
<1>3. \A i \in 1 .. n : \A x \in X[i - 1] : F[i][x] = Unmap(x, base + (i - 1))
  BY <1>2
<1>4. Rounds(n, X, F, w)
  BY <1>1, <1>3 DEF Rounds
<1>5. PICK g : RunOf(n, F, w, g) /\ \A i \in 0 .. n : g[i] \in X[i]
  BY <1>4, Runs
<1>6. UnmapRun(w, base, n, g)
  <2>1. ASSUME NEW i \in 0 .. n, i # 0 PROVE F[i][g[i - 1]] = Unmap(g[i - 1], base + (i - 1))
    <3>1. i \in 1 .. n /\ i - 1 \in 0 .. n
      BY <1>1, <2>1
    <3> QED BY <1>3, <1>5, <3>1
  <2> QED BY <1>1, <1>5, <2>1 DEF RunOf, UnmapRun
<1>7. PICK h : h = CHOOSE f : UnmapRun(w, base, n, f)
  OBVIOUS
<1>8. UnmapRun(w, base, n, h)
  BY <1>6, <1>7, Zenon
<1>9. Rollback(w, base) = h[n]
  BY <1>7 DEF Iterate, Rollback, UnmapRun
<1>10. h[0] = w /\ \A i \in 1 .. n : h[i] = Unmap(h[i - 1], base + (i - 1))
  BY <1>1, <1>8 DEF UnmapRun
<1>11. Follows(n, X, F, w, h)
  BY <1>3, <1>4, <1>10 DEF Follows
<1>12. h[n] \in X[n]
  BY <1>11, RunsIn
<1> QED BY <1>9, <1>12

DevRounds(w, va, frame, n, X) ==
  n \in Nat /\ w \in X[0] /\ \A i \in 1 .. n : \A x \in X[i - 1] : DevPage(x, va + (i - 1), frame + (i - 1)) \in X[i]
DevRun(w, va, frame, n, g) ==
  g = [i \in 0 .. n |-> IF i = 0 THEN w ELSE DevPage(g[i - 1], va + (i - 1), frame + (i - 1))]

LEMMA DevLoop ==
  ASSUME NEW w, NEW va, NEW frame, NEW n, NEW X, DevRounds(w, va, frame, n, X)
  PROVE  DevPages(w, va, frame, n) \in X[n]
<1>1. n \in Nat /\ w \in X[0] /\ \A i \in 1 .. n : \A x \in X[i - 1] : DevPage(x, va + (i - 1), frame + (i - 1)) \in X[i]
  BY DEF DevRounds
<1>2. PICK F : F = [i \in 1 .. n |-> [x \in X[i - 1] |-> DevPage(x, va + (i - 1), frame + (i - 1))]]
  OBVIOUS
<1>3. \A i \in 1 .. n : \A x \in X[i - 1] : F[i][x] = DevPage(x, va + (i - 1), frame + (i - 1))
  BY <1>2
<1>4. Rounds(n, X, F, w)
  BY <1>1, <1>3 DEF Rounds
<1>5. PICK g : RunOf(n, F, w, g) /\ \A i \in 0 .. n : g[i] \in X[i]
  BY <1>4, Runs
<1>6. DevRun(w, va, frame, n, g)
  <2>1. ASSUME NEW i \in 0 .. n, i # 0 PROVE F[i][g[i - 1]] = DevPage(g[i - 1], va + (i - 1), frame + (i - 1))
    <3>1. i \in 1 .. n /\ i - 1 \in 0 .. n
      BY <1>1, <2>1
    <3> QED BY <1>3, <1>5, <3>1
  <2> QED BY <1>1, <1>5, <2>1 DEF RunOf, DevRun
<1>7. PICK h : h = CHOOSE f : DevRun(w, va, frame, n, f)
  OBVIOUS
<1>8. DevRun(w, va, frame, n, h)
  BY <1>6, <1>7, Zenon
<1>9. DevPages(w, va, frame, n) = h[n]
  BY <1>7 DEF Iterate, DevPages, DevRun
<1>10. h[0] = w /\ \A i \in 1 .. n : h[i] = DevPage(h[i - 1], va + (i - 1), frame + (i - 1))
  BY <1>1, <1>8 DEF DevRun
<1>11. Follows(n, X, F, w, h)
  BY <1>3, <1>4, <1>10 DEF Follows
<1>12. h[n] \in X[n]
  BY <1>11, RunsIn
<1> QED BY <1>9, <1>12
-----------------------------------------------------------------------------
(* Numbers and sizes *)

\* A bounded set of numbers has a greatest one, which Max picks
LEMMA GreatestOne ==
  ASSUME NEW S \in SUBSET Nat, S # {}, NEW b \in Nat, \A y \in S : y <= b
  PROVE  Max(S) \in S /\ \A y \in S : y <= Max(S)
<1> DEFINE B == {c \in Nat : \A y \in S : y <= c}
<1>1. B \in SUBSET Nat /\ B # {}
  OBVIOUS
<1>2. PICK m : m \in B /\ \A c \in B : m <= c
  <2> HIDE DEF B
  <2> QED BY <1>1, LeastOne
<1>3. m \in S
  <2>1. SUFFICES ASSUME m \notin S PROVE FALSE
    OBVIOUS
  <2>2. PICK z \in S : TRUE
    OBVIOUS
  <2>3. m \in Nat /\ \A y \in S : y < m
    BY <1>2, <2>1
  <2>4. m - 1 \in Nat /\ \A y \in S : y <= m - 1
    BY <2>2, <2>3
  <2>5. m - 1 \in B /\ ~(m <= m - 1)
    BY <2>3, <2>4
  <2> QED BY <1>2, <2>5
<1>4. m \in S /\ \A y \in S : m >= y
  BY <1>2, <1>3
<1>5. Max(S) \in S /\ \A y \in S : Max(S) >= y
  BY <1>4, Zenon DEF Max
<1> QED BY <1>5

\* The numbers of a sequence have a bound
LEMMA Bounded ==
  ASSUME NEW n \in Nat, NEW f, \A i \in 1 .. n : f[i] \in Nat
  PROVE  \E b \in Nat : \A i \in 1 .. n : f[i] <= b
<1> DEFINE S == {k \in 0 .. n : \E b \in Nat : \A i \in 1 .. k : f[i] <= b}
<1>1. 0 \in S
  BY 0 \in Nat
<1>2. ASSUME NEW k \in 1 .. n, k - 1 \in S PROVE k \in S
  <2>1. PICK b \in Nat : \A i \in 1 .. k - 1 : f[i] <= b
    BY <1>2
  <2>2. PICK c \in Nat : b <= c /\ f[k] <= c
    BY f[k] \in Nat
  <2>3. \A i \in 1 .. k : f[i] <= c
    <3>1. ASSUME NEW i \in 1 .. k PROVE f[i] <= c
      <4>1. f[i] \in Nat /\ (i = k \/ i \in 1 .. k - 1)
        OBVIOUS
      <4> QED BY <2>1, <2>2, <4>1
    <3> QED BY <3>1
  <2> QED BY <2>3
<1>3. Inductive(n, S)
  BY <1>1, <1>2 DEF Inductive
<1>4. n \in S
  <2> HIDE DEF S
  <2> QED BY <1>3, Induct
<1> QED BY <1>4

LEMMA Division ==
  ASSUME NEW a \in Nat, NEW b \in Nat \ {0}
  PROVE  a \div b \in Nat /\ (a < b => a \div b = 0) /\ (a >= b => a \div b >= 1)
OBVIOUS

LEMMA EntryType == \A i \in Entries : MemMap[i].base \in Nat /\ MemMap[i].size \in Nat
<1>1. PICK R : R = [base : Nat, size : Nat, avail : BOOLEAN]
  OBVIOUS
<1>2. MemMap \in Seq(R)
  BY <1>1, MapAssumption
<1>3. ASSUME NEW i \in Entries PROVE MemMap[i] \in R
  BY <1>2, ElementOfSeq DEF Entries
<1> QED BY <1>1, <1>3

\* There is a page
LEMMA TotalNat == Total \in Nat \ {0}
<1>1. Len(MemMap) \in Nat \ {0} /\ \A i \in Entries : MemMap[i].base + MemMap[i].size \in Nat
  <2>1. Len(MemMap) \in Nat \ {0}
    BY MapAssumption, EmptySeq
  <2> QED BY <2>1, EntryType
<1>2. PICK f : f = [i \in Entries |-> MemMap[i].base + MemMap[i].size]
  OBVIOUS
<1>3. PICK b \in Nat : \A i \in Entries : f[i] <= b
  BY <1>1, <1>2, Bounded DEF Entries
<1>4. PICK S : S = {MemMap[i].base + MemMap[i].size : i \in Entries}
  OBVIOUS
<1>5. S \in SUBSET Nat /\ S # {} /\ \A y \in S : y <= b
  <2>1. 1 \in Entries
    BY <1>1 DEF Entries
  <2> QED BY <1>1, <1>2, <1>3, <1>4, <2>1
<1>6. Max(S) \in Nat
  BY <1>5, GreatestOne
<1>7. PageSize \in Nat \ {0} /\ BitmapMax \in Nat \ {0}
  BY SizesAssumption
<1>8. Max(S) \div PageSize \in Nat
  BY <1>6, <1>7, Division
<1> QED BY <1>4, <1>7, <1>8 DEF Total

LEMMA PagesFinite == IsFiniteSet(Pages) /\ Cardinality(Pages) = Total /\ 0 \in Pages /\ Pages \subseteq Nat
<1>1. Total \in Nat \ {0}
  BY TotalNat
<1>2. Total - 1 \in Int /\ ~(0 > Total - 1) /\ Total - 1 - 0 + 1 = Total
  BY <1>1
<1>3. IsFiniteSet(0 .. Total - 1) /\ Cardinality(0 .. Total - 1) = Total
  BY <1>2, FS_Interval
<1> QED BY <1>1, <1>3 DEF Pages
-----------------------------------------------------------------------------
(* The page bitmap *)

\* The counter is right, and page 0, which stands for a failure, is not given out
PmmOK(m) == m \in [bits : SUBSET Pages, used : Nat] /\ 0 \in m.bits /\ m.used = Cardinality(m.bits)

Run(f, n) == f .. f + n - 1

LEMMA RunOne == ASSUME NEW f \in Nat PROVE Run(f, 1) = {f}
BY DEF Run

\* What pmm_alloc answers: nothing, or a run of pages that were free
Alloced(m, n, a) ==
  /\ PmmOK(a.pmm)
  /\ \/ a.frame = 0 /\ a.pmm = m
     \/ /\ a.frame \in Pages \ {0} /\ n > 0
        /\ Run(a.frame, n) \subseteq Pages \ m.bits
        /\ a.pmm.bits = m.bits \cup Run(a.frame, n)

LEMMA PmmAllocOK ==
  ASSUME NEW m, PmmOK(m), NEW n \in Nat
  PROVE  Alloced(m, n, PmmAlloc(m, n))
<1> DEFINE runs == {i \in Pages : i + n <= Total /\ m.bits \cap (i .. i + n - 1) = {}}
<1>1. m.bits \in SUBSET Pages /\ m.used \in Nat /\ 0 \in m.bits /\ m.used = Cardinality(m.bits)
  BY DEF PmmOK
<1>2. CASE n = 0 \/ runs = {}
  BY <1>2 DEF PmmAlloc, Alloced
<1>3. CASE ~(n = 0 \/ runs = {})
  <2>1. runs \in SUBSET Nat
    BY PagesFinite
  <2>2. PICK f : f = Min(runs)
    OBVIOUS
  <2>3. f \in runs
    <3> HIDE DEF runs
    <3> QED BY <1>3, <2>1, <2>2, LeastOne
  <2>4. f \in Nat /\ f \in Pages /\ f + n <= Total /\ m.bits \cap Run(f, n) = {} /\ n > 0 /\ Total \in Nat
    BY <1>3, <2>3, PagesFinite, TotalNat DEF Run
  <2>5. Run(f, n) \subseteq Pages \ m.bits /\ f \in Run(f, n)
    <3>1. Run(f, n) \subseteq 0 .. Total - 1 /\ f \in Run(f, n)
      BY <2>4 DEF Run
    <3> QED BY <2>4, <3>1 DEF Pages
  <2>6. IsFiniteSet(Run(f, n)) /\ Cardinality(Run(f, n)) = n
    <3>1. f + n - 1 \in Int /\ f \in Int /\ ~(f > f + n - 1) /\ f + n - 1 - f + 1 = n
      BY <2>4
    <3> QED BY <3>1, FS_Interval DEF Run
  <2>7. IsFiniteSet(m.bits)
    BY <1>1, PagesFinite, FS_Subset
  <2>8. Cardinality(m.bits \cup Run(f, n)) = m.used + n
    <3>1. m.bits \cap Run(f, n) = {} /\ Cardinality({}) = 0
      BY <2>4, FS_EmptySet
    <3>2. Cardinality(m.bits \cup Run(f, n)) = Cardinality(m.bits) + Cardinality(Run(f, n)) - 0
      BY <2>6, <2>7, <3>1, FS_Union
    <3> QED BY <1>1, <2>6, <3>2
  <2>9. PmmAlloc(m, n) = [pmm |-> [bits |-> m.bits \cup Run(f, n), used |-> m.used + n], frame |-> f]
    BY <1>3, <2>2 DEF PmmAlloc, Run
  <2>10. f # 0
    BY <1>1, <2>5
  <2>11. PmmOK([bits |-> m.bits \cup Run(f, n), used |-> m.used + n])
    BY <1>1, <2>5, <2>8 DEF PmmOK
  <2> QED BY <2>4, <2>5, <2>9, <2>10, <2>11 DEF Alloced
<1> QED BY <1>2, <1>3

LEMMA PmmFreeOK ==
  ASSUME NEW m, PmmOK(m), NEW S
  PROVE  PmmOK(PmmFree(m, S)) /\ PmmFree(m, S).bits = m.bits \ (S \ {0})
<1>1. m.bits \in SUBSET Pages /\ m.used \in Nat /\ 0 \in m.bits /\ m.used = Cardinality(m.bits)
  BY DEF PmmOK
<1>2. PICK T : T = S \ {0}
  OBVIOUS
<1>3. IsFiniteSet(m.bits)
  BY <1>1, PagesFinite, FS_Subset
<1>4. /\ IsFiniteSet(m.bits \cap T) /\ Cardinality(m.bits \cap T) <= Cardinality(m.bits)
      /\ IsFiniteSet(m.bits \ T)
      /\ Cardinality(m.bits \ T) = Cardinality(m.bits) - Cardinality(m.bits \cap T)
  BY <1>3, FS_Intersection, FS_Difference
<1>5. Cardinality(m.bits \cap T) \in Nat /\ Cardinality(m.bits \ T) \in Nat
  BY <1>4, FS_CardinalityType
<1>6. PmmFree(m, S) = [bits |-> m.bits \ T, used |-> Cardinality(m.bits \ T)]
  <2>1. PICK c \in Nat : c = Cardinality(m.bits \cap T)
    BY <1>5
  <2>2. ~(c > m.used) /\ m.used - c = Cardinality(m.bits \ T)
    BY <1>1, <1>4, <2>1
  <2> QED BY <1>2, <2>1, <2>2 DEF PmmFree
<1>7. PmmOK([bits |-> m.bits \ T, used |-> Cardinality(m.bits \ T)])
  BY <1>1, <1>2, <1>5 DEF PmmOK
<1> QED BY <1>2, <1>6, <1>7

\* The pages pmm_init reserves; page 0 is one, for the first megabyte is
LEMMA ReservedOK == PmmOK([bits |-> Reserved, used |-> Cardinality(Reserved)])
<1>1. Reserved \in SUBSET Pages
  BY DEF Reserved
<1>2. IsFiniteSet(Reserved) /\ Cardinality(Reserved) \in Nat
  BY <1>1, PagesFinite, FS_Subset, FS_CardinalityType
<1>3. LowUsed \in Nat \ {0}
  <2>1. LowTop \in Nat \ {0}
    BY SizesAssumption
  <2>2. CASE Avail = {}
    BY <2>1, <2>2 DEF LowUsed
  <2>3. CASE Avail # {}
    <3>1. Avail \in SUBSET Nat
      BY MapAssumption DEF Avail, Entries
    <3>2. Min(Avail) \in Entries
      BY <2>3, <3>1, LeastOne DEF Avail
    <3>3. MemMap[Min(Avail)].base \in Nat
      BY <3>2, EntryType
    <3> QED BY <2>1, <2>3, <3>3 DEF LowUsed
  <2> QED BY <2>2, <2>3
<1>4. 0 \in Touched(0, LowUsed)
  <2>1. PageSize \in Nat \ {0}
    BY SizesAssumption
  <2>2. 0 \div PageSize = 0
    BY <2>1, Division
  <2>3. PICK d \in Nat : d = (0 + LowUsed + PageSize - 1) \div PageSize /\ d >= 1
    <3>1. 0 + LowUsed + PageSize - 1 \in Nat /\ 0 + LowUsed + PageSize - 1 >= PageSize
      BY <1>3, <2>1
    <3> QED BY <2>1, <3>1, Division
  <2> QED BY <1>3, <2>2, <2>3 DEF Touched
<1>5. 0 \in Reserved
  <2>1. 0 \in Pages
    BY PagesFinite
  <2> DEFINE A == UNION {Usable(MemMap[i]) : i \in Avail}
             U == UNION {Touched(h.base, h.size) : h \in Held}
  <2>3. Reserved = (Pages \ A) \cup (Pages \cap (Touched(0, LowUsed) \cup U))
    BY Zenon DEF Reserved
  <2> HIDE DEF A, U
  <2> QED BY <1>4, <2>1, <2>3, Zenon
<1> QED BY <1>1, <1>2, <1>5 DEF PmmOK
-----------------------------------------------------------------------------
(* Address spaces *)

Names == {Table(k, va) : k \in 1 .. Levels - 1, va \in Nat}
Tables == UNION {[D -> Pages] : D \in SUBSET Names}
Leaf == [frame : Nat, mmio : BOOLEAN]
Leaves == UNION {[D -> Leaf] : D \in SUBSET Nat}
Bitmaps == [bits : SUBSET Pages, used : Nat]
SpaceSet == [cr3 : Pages, tables : Tables, leaf : Leaves]
WorkSet == [pmm : Bitmaps, cr3 : Pages, tables : Tables, leaf : Leaves,
            ok : BOOLEAN, ignored : BOOLEAN, err : Int, done : Nat]

Plain(s) == {v \in DOMAIN s.leaf : ~s.leaf[v].mmio}

\* PML4, tables and pages of s are all different
OwnOnce(s) ==
  /\ \A t \in DOMAIN s.tables : s.tables[t] # s.cr3
  /\ \A v \in Plain(s) : s.leaf[v].frame # s.cr3
  /\ \A t, u \in DOMAIN s.tables : s.tables[t] = s.tables[u] => t = u
  /\ \A v, u \in Plain(s) : s.leaf[v].frame = s.leaf[u].frame => v = u
  /\ \A t \in DOMAIN s.tables : \A v \in Plain(s) : s.tables[t] # s.leaf[v].frame

\* g is f but for t, which it takes to v
IsWith(f, t, v, g) ==
  DOMAIN g = DOMAIN f \cup {t} /\ g[t] = v /\ \A u \in DOMAIN f : u # t => g[u] = f[u]

LEMMA TablesWith ==
  ASSUME NEW f \in Tables, NEW t \in Names, NEW v \in Pages
  PROVE  With(f, t, v) \in Tables /\ IsWith(f, t, v, With(f, t, v))
<1>1. PICK D \in SUBSET Names : f \in [D -> Pages]
  BY DEF Tables
<1>2. PICK g : g = With(f, t, v)
  OBVIOUS
<1>3. g = [y \in D \cup {t} |-> IF y = t THEN v ELSE f[y]]
  BY <1>1, <1>2 DEF With
<1>4. g \in [D \cup {t} -> Pages] /\ D \cup {t} \in SUBSET Names
  BY <1>1, <1>3
<1>5. g \in Tables
  BY <1>4 DEF Tables
<1> QED BY <1>1, <1>2, <1>3, <1>5 DEF IsWith

LEMMA LeavesWith ==
  ASSUME NEW f \in Leaves, NEW t \in Nat, NEW v \in Leaf
  PROVE  With(f, t, v) \in Leaves /\ IsWith(f, t, v, With(f, t, v))
<1>1. PICK D \in SUBSET Nat : f \in [D -> Leaf]
  BY DEF Leaves
<1>2. PICK g : g = With(f, t, v)
  OBVIOUS
<1>3. g = [y \in D \cup {t} |-> IF y = t THEN v ELSE f[y]]
  BY <1>1, <1>2 DEF With
<1>4. g \in [D \cup {t} -> Leaf] /\ D \cup {t} \in SUBSET Nat
  BY <1>1, <1>3
<1>5. g \in Leaves
  BY <1>4 DEF Leaves
<1> QED BY <1>1, <1>2, <1>3, <1>5 DEF IsWith

LEMMA LeavesWithout ==
  ASSUME NEW f \in Leaves, NEW t
  PROVE  /\ Without(f, t) \in Leaves /\ DOMAIN Without(f, t) = DOMAIN f \ {t}
         /\ \A u \in DOMAIN f : u # t => Without(f, t)[u] = f[u]
<1>1. PICK D \in SUBSET Nat : f \in [D -> Leaf]
  BY DEF Leaves
<1>2. PICK g : g = Without(f, t)
  OBVIOUS
<1>3. g = [y \in D \ {t} |-> f[y]]
  BY <1>1, <1>2 DEF Without
<1>4. g \in [D \ {t} -> Leaf] /\ D \ {t} \in SUBSET Nat
  BY <1>1, <1>3
<1>5. g \in Leaves
  BY <1>4 DEF Leaves
<1> QED BY <1>1, <1>2, <1>3, <1>5

LEMMA LeafType ==
  ASSUME NEW f \in Leaves
  PROVE  DOMAIN f \subseteq Nat /\ \A v \in DOMAIN f : f[v] \in Leaf
<1>1. PICK D \in SUBSET Nat : f \in [D -> Leaf]
  BY DEF Leaves
<1> QED BY <1>1

LEMMA TableType ==
  ASSUME NEW f \in Tables
  PROVE  DOMAIN f \subseteq Names /\ \A t \in DOMAIN f : f[t] \in Pages
<1>1. PICK D \in SUBSET Names : f \in [D -> Pages]
  BY DEF Tables
<1> QED BY <1>1

\* A page is in SpaceFrames(s) if the PML4, a table or a leaf has it
LEMMA FrameOf ==
  ASSUME NEW s, NEW f
  PROVE  f \in SpaceFrames(s) <=>
           \/ f = s.cr3
           \/ \E t \in DOMAIN s.tables : f = s.tables[t]
           \/ \E v \in Plain(s) : f = s.leaf[v].frame
BY Zenon DEF SpaceFrames, Plain

\* One table more
GotTable(s, t, f, r) ==
  /\ r.cr3 = s.cr3 /\ r.leaf = s.leaf /\ t \notin DOMAIN s.tables
  /\ DOMAIN r.tables = DOMAIN s.tables \cup {t} /\ r.tables[t] = f
  /\ \A u \in DOMAIN s.tables : u # t => r.tables[u] = s.tables[u]

LEMMA TableFrames ==
  ASSUME NEW s, NEW t, NEW f, NEW r, GotTable(s, t, f, r)
  PROVE  /\ SpaceFrames(r) = SpaceFrames(s) \cup {f}
         /\ OwnOnce(s) /\ f \notin SpaceFrames(s) => OwnOnce(r)
<1>1. Plain(r) = Plain(s)
  BY DEF GotTable, Plain
<1>2. ASSUME NEW x PROVE x \in SpaceFrames(r) <=> x \in SpaceFrames(s) \cup {f}
  BY <1>1, FrameOf DEF GotTable
<1>3. ASSUME OwnOnce(s), f \notin SpaceFrames(s) PROVE OwnOnce(r)
  <2>1. /\ f # s.cr3 /\ \A u \in DOMAIN s.tables : f # s.tables[u]
        /\ \A v \in Plain(s) : f # s.leaf[v].frame
    BY <1>3, FrameOf
  <2> QED BY <1>1, <1>3, <2>1 DEF GotTable, OwnOnce
<1> QED BY <1>2, <1>3

\* One leaf more, or a leaf changed
GotLeaf(s, va, l, r) ==
  /\ r.cr3 = s.cr3 /\ r.tables = s.tables
  /\ DOMAIN r.leaf = DOMAIN s.leaf \cup {va} /\ r.leaf[va] = l
  /\ \A u \in DOMAIN s.leaf : u # va => r.leaf[u] = s.leaf[u]

LEMMA LeafFrames ==
  ASSUME NEW s, NEW va, NEW l, NEW r, GotLeaf(s, va, l, r), ~l.mmio, l.frame \notin SpaceFrames(s), OwnOnce(s)
  PROVE  /\ SpaceFrames(r) \subseteq SpaceFrames(s) \cup {l.frame} /\ l.frame \in SpaceFrames(r)
         /\ va \notin Plain(s) => SpaceFrames(r) = SpaceFrames(s) \cup {l.frame}
         /\ OwnOnce(r)
<1>1. Plain(r) = Plain(s) \cup {va} /\ \A u \in Plain(s) : u # va => r.leaf[u] = s.leaf[u]
  BY DEF GotLeaf, Plain
<1>2. r.cr3 = s.cr3 /\ r.tables = s.tables /\ r.leaf[va] = l
  BY DEF GotLeaf
<1>3. ASSUME NEW x \in SpaceFrames(r) PROVE x \in SpaceFrames(s) \cup {l.frame}
  BY <1>1, <1>2, FrameOf
<1>4. l.frame \in SpaceFrames(r)
  BY <1>1, <1>2, FrameOf
<1>5. ASSUME va \notin Plain(s), NEW x \in SpaceFrames(s) PROVE x \in SpaceFrames(r)
  <2>1. \A u \in Plain(s) : r.leaf[u] = s.leaf[u]
    BY <1>1, <1>5
  <2> QED BY <1>1, <1>2, <2>1, FrameOf
<1>6. OwnOnce(r)
  <2>1. /\ l.frame # s.cr3 /\ \A u \in DOMAIN s.tables : l.frame # s.tables[u]
        /\ \A v \in Plain(s) : l.frame # s.leaf[v].frame
    BY FrameOf
  <2> QED BY <1>1, <1>2, <2>1 DEF OwnOnce
<1> QED BY <1>3, <1>4, <1>5, <1>6

LEMMA DeviceFrames ==
  ASSUME NEW s, NEW va, NEW l, NEW r, GotLeaf(s, va, l, r), l.mmio, OwnOnce(s)
  PROVE  /\ SpaceFrames(r) \subseteq SpaceFrames(s)
         /\ va \notin Plain(s) => SpaceFrames(r) = SpaceFrames(s)
         /\ OwnOnce(r)
<1>1. Plain(r) = Plain(s) \ {va} /\ \A u \in Plain(r) : r.leaf[u] = s.leaf[u]
  BY DEF GotLeaf, Plain
<1>2. r.cr3 = s.cr3 /\ r.tables = s.tables
  BY DEF GotLeaf
<1>3. ASSUME NEW x \in SpaceFrames(r) PROVE x \in SpaceFrames(s)
  BY <1>1, <1>2, FrameOf
<1>4. ASSUME va \notin Plain(s), NEW x \in SpaceFrames(s) PROVE x \in SpaceFrames(r)
  <2>1. Plain(r) = Plain(s)
    BY <1>1, <1>4
  <2> QED BY <1>1, <1>2, <2>1, FrameOf
<1>5. OwnOnce(r)
  BY <1>1, <1>2 DEF OwnOnce
<1> QED BY <1>3, <1>4, <1>5

\* One leaf less
LostLeaf(s, va, r) ==
  /\ r.cr3 = s.cr3 /\ r.tables = s.tables /\ va \in Plain(s)
  /\ DOMAIN r.leaf = DOMAIN s.leaf \ {va}
  /\ \A u \in DOMAIN s.leaf : u # va => r.leaf[u] = s.leaf[u]

LEMMA LostFrames ==
  ASSUME NEW s, NEW va, NEW r, LostLeaf(s, va, r), OwnOnce(s)
  PROVE  /\ SpaceFrames(r) = SpaceFrames(s) \ {s.leaf[va].frame} /\ s.leaf[va].frame \in SpaceFrames(s)
         /\ OwnOnce(r)
<1>1. Plain(r) = Plain(s) \ {va} /\ \A u \in Plain(r) : r.leaf[u] = s.leaf[u]
  BY DEF LostLeaf, Plain
<1>2. r.cr3 = s.cr3 /\ r.tables = s.tables /\ va \in Plain(s)
  BY DEF LostLeaf
<1>3. ASSUME NEW x \in SpaceFrames(r) PROVE x \in SpaceFrames(s) /\ x # s.leaf[va].frame
  BY <1>1, <1>2, <1>3, FrameOf DEF OwnOnce
<1>4. ASSUME NEW x \in SpaceFrames(s), x # s.leaf[va].frame PROVE x \in SpaceFrames(r)
  <2>1. \A u \in Plain(s) : u # va => u \in Plain(r)
    BY <1>1
  <2> QED BY <1>1, <1>2, <1>4, <2>1, FrameOf
<1>5. OwnOnce(r)
  BY <1>1, <1>2 DEF OwnOnce
<1>6. s.leaf[va].frame \in SpaceFrames(s)
  BY <1>2, FrameOf
<1> QED BY <1>3, <1>4, <1>5, <1>6
-----------------------------------------------------------------------------
(* Work on an address space *)

\* w's pages are marked and used once
Sound(w) ==
  /\ w \in WorkSet /\ PmmOK(w.pmm) /\ OwnOnce(w)
  /\ SpaceFrames(w) \subseteq w.pmm.bits \ {0}

\* The marked pages of everybody else
Rest(w) == w.pmm.bits \ SpaceFrames(w)

\* What no step of a walk changes
SameSpace(w, r) == r.cr3 = w.cr3 /\ DOMAIN w.tables \subseteq DOMAIN r.tables
SameTask(w, r) == r.ignored = w.ignored /\ r.err = w.err /\ r.done = w.done

Ensured(w, t, r) ==
  /\ Sound(r) /\ Rest(r) = Rest(w) /\ SameSpace(w, r) /\ SameTask(w, r)
  /\ r.leaf = w.leaf
  /\ r.ok => w.ok /\ t \in DOMAIN r.tables

\* SpaceFrames only reads cr3, tables and leaf
LEMMA SameFrames ==
  ASSUME NEW s, NEW r, r.cr3 = s.cr3, r.tables = s.tables, r.leaf = s.leaf
  PROVE  SpaceFrames(r) = SpaceFrames(s) /\ (OwnOnce(s) => OwnOnce(r)) /\ Plain(r) = Plain(s)
BY Zenon DEF SpaceFrames, OwnOnce, Plain

LEMMA EnsureTableOK ==
  ASSUME NEW w, Sound(w), NEW t \in Names
  PROVE  Ensured(w, t, EnsureTable(w, t))
<1>1. w \in WorkSet /\ PmmOK(w.pmm) /\ OwnOnce(w) /\ SpaceFrames(w) \subseteq w.pmm.bits \ {0}
  BY DEF Sound
<1>2. PICK a : a = PmmAlloc(w.pmm, 1)
  OBVIOUS
<1>3. Alloced(w.pmm, 1, a)
  BY <1>1, <1>2, PmmAllocOK
<1>4. PICK r : r = EnsureTable(w, t)
  OBVIOUS
<1>5. CASE ~w.ok \/ t \in DOMAIN w.tables
  <2>1. r = w
    BY <1>2, <1>4, <1>5 DEF EnsureTable
  <2> QED BY <1>4, <1>5, <2>1 DEF Ensured, SameSpace, SameTask
<1>6. CASE ~(~w.ok \/ t \in DOMAIN w.tables) /\ a.frame = 0
  <2>1. r = [w EXCEPT !.ok = FALSE]
    BY <1>2, <1>4, <1>6 DEF EnsureTable
  <2>2. /\ r \in WorkSet /\ r.pmm = w.pmm /\ r.cr3 = w.cr3 /\ r.tables = w.tables /\ r.leaf = w.leaf
        /\ ~r.ok /\ SameTask(w, r)
    BY <1>1, <2>1 DEF WorkSet, SameTask
  <2>3. SpaceFrames(r) = SpaceFrames(w) /\ OwnOnce(r)
    BY <1>1, <2>2, SameFrames
  <2> QED BY <1>1, <1>4, <2>2, <2>3 DEF Ensured, Sound, Rest, SameSpace
<1>7. CASE ~(~w.ok \/ t \in DOMAIN w.tables) /\ a.frame # 0
  <2>1. r = [w EXCEPT !.pmm = a.pmm, !.tables = With(w.tables, t, a.frame)]
    BY <1>2, <1>4, <1>7 DEF EnsureTable
  <2>2. /\ PmmOK(a.pmm) /\ a.frame \in Pages \ {0} /\ a.frame \notin w.pmm.bits
        /\ a.pmm.bits = w.pmm.bits \cup {a.frame} /\ a.pmm \in Bitmaps
    <3>1. /\ PmmOK(a.pmm) /\ a.frame \in Pages \ {0}
          /\ Run(a.frame, 1) \subseteq Pages \ w.pmm.bits
          /\ a.pmm.bits = w.pmm.bits \cup Run(a.frame, 1)
      BY <1>3, <1>7 DEF Alloced
    <3>2. Run(a.frame, 1) = {a.frame}
      BY <3>1, PagesFinite, RunOne
    <3> QED BY <3>1, <3>2 DEF PmmOK, Bitmaps
  <2>3. PICK T : T = With(w.tables, t, a.frame)
    OBVIOUS
  <2>4. T \in Tables /\ IsWith(w.tables, t, a.frame, T)
    <3>1. w.tables \in Tables /\ a.frame \in Pages
      BY <1>1, <2>2 DEF WorkSet
    <3> QED BY <2>2, <2>3, <3>1, TablesWith
  <2>5. /\ r \in WorkSet /\ r.pmm = a.pmm /\ r.cr3 = w.cr3 /\ r.tables = T /\ r.leaf = w.leaf
        /\ r.ok = w.ok /\ SameTask(w, r)
    BY <1>1, <2>1, <2>2, <2>3, <2>4 DEF WorkSet, SameTask
  <2>6. GotTable(w, t, a.frame, r)
    BY <1>7, <2>4, <2>5 DEF GotTable, IsWith
  <2>7. SpaceFrames(r) = SpaceFrames(w) \cup {a.frame} /\ OwnOnce(r)
    <3>1. a.frame \notin SpaceFrames(w)
      BY <1>1, <2>2
    <3> QED BY <1>1, <2>6, <3>1, TableFrames
  <2>8. Sound(r)
    BY <1>1, <2>2, <2>5, <2>7 DEF Sound
  <2>9. Rest(r) = Rest(w)
    BY <1>1, <2>2, <2>5, <2>7 DEF Rest
  <2> QED BY <1>4, <1>7, <2>4, <2>5, <2>8, <2>9 DEF Ensured, SameSpace, IsWith
<1> QED BY <1>5, <1>6, <1>7

\* The walk from the PML4 down
Walked(w, va, i, r) ==
  /\ Sound(r) /\ Rest(r) = Rest(w) /\ SameSpace(w, r) /\ SameTask(w, r)
  /\ r.leaf = w.leaf
  /\ r.ok => \A k \in 1 .. i : Table(Levels - k, va) \in DOMAIN r.tables

LEMMA WalkOK ==
  ASSUME NEW w, Sound(w), NEW va \in Nat
  PROVE  Walked(w, va, Levels - 1, Walk(w, va))
<1>1. PICK n \in Nat : n = Levels - 1
  BY SizesAssumption
<1>2. PICK X : X = [i \in 0 .. n |-> {x \in WorkSet : Walked(w, va, i, x)}]
  OBVIOUS
<1>3. w \in X[0]
  <2>1. Walked(w, va, 0, w)
    BY DEF Walked, SameSpace, SameTask
  <2> QED BY <1>1, <1>2, <2>1 DEF Sound
<1>4. ASSUME NEW i \in 1 .. n, NEW x \in X[i - 1]
      PROVE  EnsureTable(x, Table(Levels - i, va)) \in X[i]
  <2>1. i - 1 \in 0 .. n /\ i \in 0 .. n /\ Levels - i \in 1 .. Levels - 1
    BY <1>1, SizesAssumption
  <2>2. Walked(w, va, i - 1, x)
    BY <1>2, <2>1
  <2>3. PICK t : t = Table(Levels - i, va)
    OBVIOUS
  <2>4. t \in Names
    BY <2>1, <2>3 DEF Names
  <2>5. PICK r : r = EnsureTable(x, t)
    OBVIOUS
  <2>6. Ensured(x, t, r)
    BY <2>2, <2>4, <2>5, EnsureTableOK DEF Walked
  <2>7. r.ok => \A k \in 1 .. i : Table(Levels - k, va) \in DOMAIN r.tables
    <3>1. ASSUME r.ok, NEW k \in 1 .. i PROVE Table(Levels - k, va) \in DOMAIN r.tables
      <4>1. k \in 1 .. i - 1 \/ k = i
        OBVIOUS
      <4> QED BY <2>2, <2>3, <2>6, <3>1, <4>1 DEF Walked, Ensured, SameSpace
    <3> QED BY <3>1
  <2>8. Walked(w, va, i, r)
    BY <2>2, <2>6, <2>7 DEF Walked, Ensured, SameSpace, SameTask
  <2>9. r \in WorkSet
    BY <2>8 DEF Walked, Sound
  <2> QED BY <1>2, <2>1, <2>3, <2>5, <2>8, <2>9
<1>5. WalkRounds(w, va, n, X)
  BY <1>3, <1>4 DEF WalkRounds
<1>6. Walk(w, va) \in X[n]
  BY <1>1, <1>5, WalkLoop
<1> QED BY <1>1, <1>2, <1>6

\* A page of an address space: mapped, or not for want of a table
MapDone(w, va, l, r) ==
  /\ Sound(r) /\ SameSpace(w, r) /\ SameTask(w, r)
  /\ ~r.ok => r.leaf = w.leaf /\ Rest(r) = Rest(w)
  /\ r.ok => /\ IsWith(w.leaf, va, l, r.leaf) /\ Mapped(r, va)
             /\ Rest(w) \ (IF l.mmio THEN {} ELSE {l.frame}) \subseteq Rest(r)
             /\ ~l.mmio => l.frame \notin Rest(r)
             /\ va \notin Plain(w) => Rest(r) = Rest(w) \ (IF l.mmio THEN {} ELSE {l.frame})

LEMMA MapUserOK ==
  ASSUME NEW w, Sound(w), NEW va \in Nat, NEW f \in Nat, NEW mmio \in BOOLEAN, mmio \/ f \in Rest(w) \ {0}
  PROVE  MapDone(w, va, [frame |-> f, mmio |-> mmio], MapUser(w, va, f, mmio))
<1>1. PICK t : t = Walk(w, va)
  OBVIOUS
<1>2. Walked(w, va, Levels - 1, t)
  BY <1>1, WalkOK
<1>3. PICK r : r = MapUser(w, va, f, mmio)
  OBVIOUS
<1>4. PICK l : l = [frame |-> f, mmio |-> mmio]
  OBVIOUS
<1>5. l \in Leaf /\ l.frame = f /\ l.mmio = mmio
  BY <1>4 DEF Leaf
<1>6. CASE ~t.ok
  <2>1. r = t
    BY <1>1, <1>3, <1>6 DEF MapUser
  <2> QED BY <1>2, <1>3, <1>6, <2>1 DEF MapDone, Walked
<1>7. CASE t.ok
  <2>1. r = [t EXCEPT !.leaf = With(t.leaf, va, l)]
    BY <1>1, <1>3, <1>4, <1>7 DEF MapUser
  <2>2. /\ t \in WorkSet /\ PmmOK(t.pmm) /\ OwnOnce(t) /\ SpaceFrames(t) \subseteq t.pmm.bits \ {0}
        /\ Rest(t) = Rest(w) /\ t.leaf = w.leaf /\ SameSpace(w, t) /\ SameTask(w, t)
    BY <1>2 DEF Walked, Sound
  <2>3. PICK L : L = With(t.leaf, va, l)
    OBVIOUS
  <2>4. L \in Leaves /\ IsWith(t.leaf, va, l, L)
    <3>1. t.leaf \in Leaves
      BY <2>2 DEF WorkSet
    <3> QED BY <1>5, <2>3, <3>1, LeavesWith
  <2>5. /\ r \in WorkSet /\ r.pmm = t.pmm /\ r.cr3 = t.cr3 /\ r.tables = t.tables /\ r.leaf = L
        /\ r.ok = t.ok /\ SameTask(t, r)
    BY <2>1, <2>2, <2>3, <2>4 DEF WorkSet, SameTask
  <2>6. GotLeaf(t, va, l, r)
    BY <2>4, <2>5 DEF GotLeaf, IsWith
  <2>7. Mapped(r, va)
    <3>1. ASSUME NEW k \in 1 .. Levels - 1 PROVE Table(k, va) \in DOMAIN r.tables
      <4>1. PICK j : j \in 1 .. Levels - 1 /\ k = Levels - j
        <5>1. Levels - k \in 1 .. Levels - 1 /\ k = Levels - (Levels - k)
          BY SizesAssumption
        <5> QED BY <5>1
      <4> QED BY <1>2, <1>7, <2>5, <4>1 DEF Walked
    <3> QED BY <2>4, <2>5, <3>1 DEF Mapped, IsWith
  <2>8. CASE mmio
    <3>1. /\ SpaceFrames(r) \subseteq SpaceFrames(t) /\ OwnOnce(r)
          /\ va \notin Plain(t) => SpaceFrames(r) = SpaceFrames(t)
      BY <1>5, <2>2, <2>6, <2>8, DeviceFrames
    <3>2. Sound(r)
      BY <2>2, <2>5, <3>1 DEF Sound
    <3>3. Rest(t) \subseteq Rest(r) /\ (va \notin Plain(w) => Rest(r) = Rest(t))
      BY <2>2, <2>5, <3>1 DEF Rest, Plain
    <3>4. SameSpace(w, r) /\ SameTask(w, r)
      BY <2>2, <2>5 DEF SameSpace, SameTask
    <3> QED BY <1>3, <1>4, <1>5, <1>7, <2>2, <2>4, <2>5, <2>7, <2>8, <3>2, <3>3, <3>4 DEF MapDone
  <2>9. CASE ~mmio
    <3>0. f \in t.pmm.bits /\ f \notin SpaceFrames(t) /\ f # 0
      BY <2>2, <2>9 DEF Rest
    <3>1. /\ SpaceFrames(r) \subseteq SpaceFrames(t) \cup {f} /\ f \in SpaceFrames(r)
          /\ va \notin Plain(t) => SpaceFrames(r) = SpaceFrames(t) \cup {f}
          /\ OwnOnce(r)
      BY <1>5, <2>2, <2>6, <2>9, <3>0, LeafFrames
    <3>2. Sound(r)
      BY <2>2, <2>5, <3>0, <3>1 DEF Sound
    <3>3. /\ Rest(t) \ {f} \subseteq Rest(r) /\ f \notin Rest(r)
          /\ va \notin Plain(w) => Rest(r) = Rest(t) \ {f}
      BY <2>2, <2>5, <3>1 DEF Rest, Plain
    <3>4. SameSpace(w, r) /\ SameTask(w, r)
      BY <2>2, <2>5 DEF SameSpace, SameTask
    <3> QED BY <1>3, <1>4, <1>5, <1>7, <2>2, <2>4, <2>5, <2>7, <2>9, <3>2, <3>3, <3>4 DEF MapDone
  <2> QED BY <2>8, <2>9
<1> QED BY <1>6, <1>7
-----------------------------------------------------------------------------
(* The loops that map and unmap *)

LEMMA RunNone == ASSUME NEW f \in Nat PROVE Run(f, 0) = {}
BY DEF Run

LEMMA RunGrows ==
  ASSUME NEW f \in Nat, NEW n \in Nat, NEW i \in 1 .. n
  PROVE  /\ Run(f, i) = Run(f, i - 1) \cup {f + (i - 1)} /\ f + (i - 1) \notin Run(f, i - 1)
         /\ f + (i - 1) \in Run(f, n) /\ f + (i - 1) \in Nat
BY DEF Run

LEMMA MappedStays ==
  ASSUME NEW s, NEW r, NEW va, Mapped(s, va), va \in DOMAIN r.leaf, DOMAIN s.tables \subseteq DOMAIN r.tables
  PROVE  Mapped(r, va)
BY DEF Mapped

\* A page of a creation: mapped, or left out
PageTried(w, va, f, r) ==
  /\ Sound(r) /\ SameSpace(w, r) /\ r.err = w.err /\ r.done = w.done /\ r.ignored \in BOOLEAN
  /\ \/ r.ignored /\ r.leaf = w.leaf /\ Rest(r) = Rest(w)
     \/ /\ r.ignored = w.ignored /\ Mapped(r, va)
        /\ IsWith(w.leaf, va, [frame |-> f, mmio |-> FALSE], r.leaf)
        /\ Rest(w) \ {f} \subseteq Rest(r) /\ f \notin Rest(r)
        /\ va \notin Plain(w) => Rest(r) = Rest(w) \ {f}

LEMMA MapIgnoringOK ==
  ASSUME NEW w, Sound(w), NEW va \in Nat, NEW f \in Nat, f \in Rest(w) \ {0}
  PROVE  PageTried(w, va, f, MapIgnoring(w, va, f))
<1>1. PICK m : m = MapUser(w, va, f, FALSE)
  OBVIOUS
<1>2. PICK l : l = [frame |-> f, mmio |-> FALSE]
  OBVIOUS
<1>3. MapDone(w, va, l, m)
  BY <1>1, <1>2, MapUserOK
<1>4. PICK r : r = MapIgnoring(w, va, f)
  OBVIOUS
<1>5. r = [m EXCEPT !.ok = TRUE, !.ignored = m.ignored \/ ~m.ok]
  BY <1>1, <1>4 DEF MapIgnoring
<1>6. m \in WorkSet /\ Sound(m)
  BY <1>3 DEF MapDone, Sound
<1>7. /\ r \in WorkSet /\ r.pmm = m.pmm /\ r.cr3 = m.cr3 /\ r.tables = m.tables /\ r.leaf = m.leaf
      /\ r.ok /\ r.err = m.err /\ r.done = m.done
      /\ r.ignored = (m.ignored \/ ~m.ok) /\ m.ignored \in BOOLEAN /\ m.ok \in BOOLEAN
  BY <1>5, <1>6 DEF WorkSet
<1>8. SpaceFrames(r) = SpaceFrames(m) /\ OwnOnce(r)
  BY <1>6, <1>7, SameFrames DEF Sound
<1>9. Sound(r) /\ Rest(r) = Rest(m)
  BY <1>6, <1>7, <1>8 DEF Sound, Rest
<1>10. SameSpace(w, r) /\ r.err = w.err /\ r.done = w.done /\ r.ignored \in BOOLEAN
  BY <1>3, <1>7 DEF MapDone, SameSpace, SameTask
<1>11. CASE ~m.ok
  BY <1>3, <1>4, <1>7, <1>9, <1>10, <1>11 DEF MapDone, PageTried
<1>12. CASE m.ok
  <2>1. ~l.mmio /\ l.frame = f
    BY <1>2
  <2>2. r.ignored = w.ignored
    <3>1. r.ignored = m.ignored
      BY <1>7, <1>12, Zenon
    <3> QED BY <1>3, <3>1 DEF MapDone, SameTask
  <2>3. /\ IsWith(w.leaf, va, l, r.leaf)
        /\ Rest(w) \ {f} \subseteq Rest(r) /\ f \notin Rest(r)
        /\ va \notin Plain(w) => Rest(r) = Rest(w) \ {f}
    BY <1>3, <1>7, <1>9, <1>12, <2>1 DEF MapDone
  <2>4. Mapped(r, va)
    BY <1>3, <1>7, <1>12 DEF MapDone, Mapped
  <2> QED BY <1>2, <1>4, <1>9, <1>10, <2>2, <2>3, <2>4 DEF PageTried
<1> QED BY <1>7, <1>11, <1>12

\* After i pages of n
PagesTried(w, base, n, frame, i, x) ==
  /\ Sound(x) /\ SameSpace(w, x) /\ x.err = w.err
  /\ w.ignored => x.ignored
  /\ Rest(w) \ Run(frame, i) \subseteq Rest(x)
  /\ DOMAIN w.leaf \subseteq DOMAIN x.leaf /\ DOMAIN x.leaf \subseteq DOMAIN w.leaf \cup Run(base, i)
  /\ DOMAIN w.leaf \subseteq Plain(w) => DOMAIN x.leaf \subseteq Plain(x)
  /\ ~x.ignored => \A v \in Run(base, i) : Mapped(x, v)
  /\ ~x.ignored /\ Run(base, n) \cap DOMAIN w.leaf = {} => Rest(x) = Rest(w) \ Run(frame, i)

LEMMA MapPagesOK ==
  ASSUME NEW w, Sound(w), NEW base \in Nat, NEW n \in Nat, NEW frame \in Nat,
         Run(frame, n) \subseteq Rest(w) \ {0}
  PROVE  PagesTried(w, base, n, frame, n, MapPages(w, base, n, frame))
<1>2. PICK X : X = [i \in 0 .. n |-> {x \in WorkSet : PagesTried(w, base, n, frame, i, x)}]
  OBVIOUS
<1>3. w \in X[0]
  <2>1. Run(base, 0) = {} /\ Run(frame, 0) = {}
    BY RunNone
  <2>2. PagesTried(w, base, n, frame, 0, w)
    BY <2>1 DEF PagesTried, SameSpace
  <2> QED BY <1>2, <2>2 DEF Sound
<1>4. ASSUME NEW i \in 1 .. n, NEW x \in X[i - 1]
      PROVE  MapIgnoring(x, base + (i - 1), frame + (i - 1)) \in X[i]
  <2>1. i - 1 \in 0 .. n /\ i \in 0 .. n
    OBVIOUS
  <2>2. PagesTried(w, base, n, frame, i - 1, x)
    BY <1>2, <2>1
  <2>3. PICK j : j = i - 1
    OBVIOUS
  <2>4. PICK va, f : va = base + j /\ f = frame + j
    OBVIOUS
  <2>5. /\ va \in Nat /\ Run(base, i) = Run(base, j) \cup {va} /\ va \notin Run(base, j) /\ va \in Run(base, n)
        /\ f \in Nat /\ Run(frame, i) = Run(frame, j) \cup {f} /\ f \notin Run(frame, j) /\ f \in Run(frame, n)
    BY <2>3, <2>4, RunGrows
  <2>6. PICK r : r = MapIgnoring(x, va, f)
    OBVIOUS
  <2>7. f \in Rest(x) \ {0} /\ Sound(x) /\ x \in WorkSet
    BY <2>2, <2>3, <2>5 DEF PagesTried, Sound
  <2>8. PageTried(x, va, f, r)
    BY <2>5, <2>6, <2>7, MapIgnoringOK
  <2>9. x.leaf \in Leaves /\ r.leaf \in Leaves /\ r \in WorkSet /\ x.ignored \in BOOLEAN
    BY <2>7, <2>8 DEF PageTried, Sound, WorkSet
  <2>10. DOMAIN x.leaf \subseteq DOMAIN r.leaf /\ DOMAIN r.leaf \subseteq DOMAIN x.leaf \cup {va}
    BY <2>8 DEF PageTried, IsWith
  <2>11. DOMAIN x.leaf \subseteq Plain(x) => DOMAIN r.leaf \subseteq Plain(r)
    BY <2>8 DEF PageTried, IsWith, Plain
  <2>12. ~r.ignored => ~x.ignored /\ Mapped(r, va) /\ \A v \in Run(base, j) : Mapped(r, v)
    <3>1. ASSUME ~r.ignored PROVE ~x.ignored /\ Mapped(r, va)
      BY <2>8, <2>9, <3>1 DEF PageTried
    <3>2. ASSUME ~r.ignored, NEW v \in Run(base, j) PROVE Mapped(r, v)
      <4>1. Mapped(x, v)
        BY <2>2, <2>3, <3>1, <3>2 DEF PagesTried
      <4>2. v \in DOMAIN r.leaf
        BY <2>10, <4>1 DEF Mapped
      <4> QED BY <2>8, <4>1, <4>2, MappedStays DEF PageTried, SameSpace
    <3> QED BY <3>1, <3>2
  <2>13. ~r.ignored /\ Run(base, n) \cap DOMAIN w.leaf = {} => Rest(r) = Rest(w) \ Run(frame, i)
    <3>1. ASSUME ~r.ignored, Run(base, n) \cap DOMAIN w.leaf = {} PROVE Rest(r) = Rest(w) \ Run(frame, i)
      <4>1. Rest(x) = Rest(w) \ Run(frame, j)
        BY <2>2, <2>3, <2>12, <3>1 DEF PagesTried
      <4>2. va \notin DOMAIN x.leaf
        BY <2>2, <2>3, <2>5, <3>1 DEF PagesTried
      <4>3. Rest(r) = Rest(x) \ {f}
        BY <2>8, <3>1, <4>2 DEF PageTried, Plain
      <4> QED BY <2>5, <4>1, <4>3
    <3> QED BY <3>1
  <2>14. Rest(w) \ Run(frame, i) \subseteq Rest(r)
    BY <2>2, <2>3, <2>5, <2>8 DEF PagesTried, PageTried
  <2>15. PagesTried(w, base, n, frame, i, r)
    <3>1. /\ Sound(r) /\ SameSpace(w, r) /\ r.err = w.err
          /\ w.ignored => r.ignored
      BY <2>2, <2>8 DEF PagesTried, PageTried, SameSpace
    <3>2. DOMAIN w.leaf \subseteq DOMAIN r.leaf /\ DOMAIN r.leaf \subseteq DOMAIN w.leaf \cup Run(base, i)
      BY <2>2, <2>3, <2>5, <2>10 DEF PagesTried
    <3>3. DOMAIN w.leaf \subseteq Plain(w) => DOMAIN r.leaf \subseteq Plain(r)
      BY <2>2, <2>11 DEF PagesTried
    <3>4. ~r.ignored => \A v \in Run(base, i) : Mapped(r, v)
      BY <2>5, <2>12
    <3> QED BY <2>13, <2>14, <3>1, <3>2, <3>3, <3>4 DEF PagesTried
  <2> QED BY <1>2, <2>1, <2>3, <2>4, <2>6, <2>9, <2>15
<1>5. MapRounds(w, base, frame, n, X)
  BY <1>3, <1>4 DEF MapRounds
<1>6. MapPages(w, base, n, frame) \in X[n]
  BY <1>5, MapLoop
<1> QED BY <1>2, <1>6

\* A page of SYS_MMAP
PageGot(w, va, r) ==
  /\ Sound(r) /\ SameSpace(w, r)
  /\ \/ ~r.ok /\ r.leaf = w.leaf /\ Rest(r) = Rest(w) /\ r.done = w.done
     \/ /\ r.ok /\ w.ok /\ r.done = w.done + 1 /\ Mapped(r, va)
        /\ IsWith(w.leaf, va, r.leaf[va], r.leaf) /\ ~r.leaf[va].mmio
        /\ Rest(w) \subseteq Rest(r)
        /\ va \notin Plain(w) => Rest(r) = Rest(w)

LEMMA MmapPageOK ==
  ASSUME NEW w, Sound(w), NEW va \in Nat
  PROVE  PageGot(w, va, MmapPage(w, va))
<1>1. w \in WorkSet /\ PmmOK(w.pmm) /\ OwnOnce(w) /\ SpaceFrames(w) \subseteq w.pmm.bits \ {0}
  BY DEF Sound
<1>2. PICK a : a = PmmAlloc(w.pmm, 1)
  OBVIOUS
<1>3. Alloced(w.pmm, 1, a)
  BY <1>1, <1>2, PmmAllocOK
<1>4. PICK r : r = MmapPage(w, va)
  OBVIOUS
<1>5. CASE ~w.ok
  <2>1. r = w
    BY <1>4, <1>5 DEF MmapPage
  <2> QED BY <1>4, <1>5, <2>1 DEF PageGot, SameSpace
<1>6. CASE w.ok /\ a.frame = 0
  <2>1. r = [w EXCEPT !.ok = FALSE]
    BY <1>2, <1>4, <1>6 DEF MmapPage
  <2>2. /\ r \in WorkSet /\ r.pmm = w.pmm /\ r.cr3 = w.cr3 /\ r.tables = w.tables /\ r.leaf = w.leaf
        /\ ~r.ok /\ r.done = w.done
    BY <1>1, <2>1 DEF WorkSet
  <2>3. SpaceFrames(r) = SpaceFrames(w) /\ OwnOnce(r)
    BY <1>1, <2>2, SameFrames
  <2> QED BY <1>1, <1>4, <2>2, <2>3 DEF PageGot, Sound, Rest, SameSpace
<1>7. CASE w.ok /\ a.frame # 0
  <2>1. PICK f : f = a.frame
    OBVIOUS
  <2>2. /\ PmmOK(a.pmm) /\ f \in Nat /\ f # 0 /\ f \notin w.pmm.bits
        /\ a.pmm.bits = w.pmm.bits \cup {f} /\ a.pmm \in Bitmaps
    <3>1. /\ PmmOK(a.pmm) /\ f \in Nat \ {0}
          /\ Run(f, 1) \subseteq Pages \ w.pmm.bits
          /\ a.pmm.bits = w.pmm.bits \cup Run(f, 1)
      BY <1>3, <1>7, <2>1, PagesFinite DEF Alloced
    <3>2. Run(f, 1) = {f}
      BY <3>1, RunOne
    <3> QED BY <3>1, <3>2 DEF PmmOK, Bitmaps
  <2>3. PICK u : u = [w EXCEPT !.pmm = a.pmm]
    OBVIOUS
  <2>4. /\ u \in WorkSet /\ u.pmm = a.pmm /\ u.cr3 = w.cr3 /\ u.tables = w.tables /\ u.leaf = w.leaf
        /\ u.ok = w.ok /\ SameTask(w, u)
    BY <1>1, <2>2, <2>3 DEF WorkSet, SameTask
  <2>5. SpaceFrames(u) = SpaceFrames(w) /\ OwnOnce(u) /\ Plain(u) = Plain(w)
    BY <1>1, <2>4, SameFrames
  <2>6. Sound(u) /\ Rest(u) = Rest(w) \cup {f} /\ f \notin Rest(w)
    BY <1>1, <2>2, <2>4, <2>5 DEF Sound, Rest
  <2>7. PICK m : m = MapUser(u, va, f, FALSE)
    OBVIOUS
  <2>8. PICK l : l = [frame |-> f, mmio |-> FALSE]
    OBVIOUS
  <2>9. MapDone(u, va, l, m) /\ ~l.mmio /\ l.frame = f
    <3>1. f \in Rest(u) \ {0}
      BY <2>2, <2>6
    <3> QED BY <2>2, <2>6, <2>7, <2>8, <3>1, MapUserOK
  <2>10. /\ m \in WorkSet /\ PmmOK(m.pmm) /\ OwnOnce(m) /\ SpaceFrames(m) \subseteq m.pmm.bits \ {0}
         /\ SameSpace(w, m) /\ SameTask(w, m)
    BY <2>4, <2>9 DEF MapDone, Sound, SameSpace, SameTask
  <2>11. CASE m.ok
    <3>1. r = [m EXCEPT !.done = m.done + 1]
      BY <1>2, <1>4, <1>7, <2>1, <2>3, <2>7, <2>11 DEF MmapPage
    <3>2. /\ r \in WorkSet /\ r.pmm = m.pmm /\ r.cr3 = m.cr3 /\ r.tables = m.tables /\ r.leaf = m.leaf
          /\ r.ok = m.ok /\ r.done = w.done + 1
      BY <2>10, <3>1 DEF WorkSet, SameTask
    <3>3. SpaceFrames(r) = SpaceFrames(m) /\ OwnOnce(r)
      BY <2>10, <3>2, SameFrames
    <3>4. Sound(r) /\ Rest(r) = Rest(m) /\ SameSpace(w, r)
      BY <2>10, <3>2, <3>3 DEF Sound, Rest, SameSpace
    <3>5. Mapped(r, va) /\ IsWith(w.leaf, va, l, r.leaf) /\ r.leaf[va] = l
      BY <2>4, <2>9, <2>11, <3>2 DEF MapDone, Mapped, IsWith
    <3>6. Rest(w) \subseteq Rest(r) /\ (va \notin Plain(w) => Rest(r) = Rest(w))
      BY <2>5, <2>6, <2>9, <2>11, <3>4 DEF MapDone
    <3> QED BY <1>4, <1>7, <2>9, <2>11, <3>2, <3>4, <3>5, <3>6 DEF PageGot
  <2>12. CASE ~m.ok
    <3>1. r = [m EXCEPT !.pmm = PmmFree(m.pmm, {f})]
      BY <1>2, <1>4, <1>7, <2>1, <2>3, <2>7, <2>12 DEF MmapPage
    <3>2. PICK q : q = PmmFree(m.pmm, {f})
      OBVIOUS
    <3>3. PmmOK(q) /\ q.bits = m.pmm.bits \ {f} /\ q \in Bitmaps
      <4>1. PmmOK(q) /\ q.bits = m.pmm.bits \ ({f} \ {0})
        BY <2>10, <3>2, PmmFreeOK
      <4> QED BY <2>2, <4>1 DEF PmmOK, Bitmaps
    <3>4. /\ r \in WorkSet /\ r.pmm = q /\ r.cr3 = m.cr3 /\ r.tables = m.tables /\ r.leaf = m.leaf
          /\ r.ok = m.ok /\ r.done = w.done
      BY <2>10, <3>1, <3>2, <3>3 DEF WorkSet, SameTask
    <3>5. SpaceFrames(r) = SpaceFrames(m) /\ OwnOnce(r)
      BY <2>10, <3>4, SameFrames
    <3>6. Rest(m) = Rest(w) \cup {f} /\ r.leaf = w.leaf
      BY <2>4, <2>6, <2>9, <2>12, <3>4 DEF MapDone
    <3>7. Rest(r) = Rest(w) /\ SpaceFrames(r) \subseteq r.pmm.bits \ {0}
      BY <2>6, <2>10, <3>3, <3>4, <3>5, <3>6 DEF Rest
    <3>8. Sound(r) /\ SameSpace(w, r)
      BY <2>10, <3>3, <3>4, <3>5, <3>7 DEF Sound, SameSpace
    <3> QED BY <1>4, <2>12, <3>4, <3>6, <3>7, <3>8 DEF PageGot
  <2> QED BY <2>11, <2>12
<1> QED BY <1>5, <1>6, <1>7

\* After i pages of n
MmapGot(w, base, n, i, x) ==
  /\ Sound(x) /\ SameSpace(w, x) /\ Rest(w) \subseteq Rest(x)
  /\ x.done \in 0 .. i /\ (x.ok => x.done = i)
  /\ DOMAIN x.leaf = DOMAIN w.leaf \cup Run(base, x.done)
  /\ \A v \in DOMAIN w.leaf : v \notin Run(base, x.done) => x.leaf[v] = w.leaf[v]
  /\ \A v \in Run(base, x.done) : Mapped(x, v) /\ ~x.leaf[v].mmio
  /\ Run(base, n) \cap DOMAIN w.leaf = {} => Rest(x) = Rest(w)

LEMMA MmapPagesOK ==
  ASSUME NEW w, Sound(w), w.done = 0, NEW base \in Nat, NEW n \in Nat
  PROVE  MmapGot(w, base, n, n, MmapPages(w, base, n))
<1>2. PICK X : X = [i \in 0 .. n |-> {x \in WorkSet : MmapGot(w, base, n, i, x)}]
  OBVIOUS
<1>3. w \in X[0]
  <2>1. Run(base, 0) = {}
    BY RunNone
  <2>2. MmapGot(w, base, n, 0, w)
    BY <2>1 DEF MmapGot, SameSpace
  <2> QED BY <1>2, <2>2 DEF Sound
<1>4. ASSUME NEW i \in 1 .. n, NEW x \in X[i - 1]
      PROVE  MmapPage(x, base + (i - 1)) \in X[i]
  <2>1. i - 1 \in 0 .. n /\ i \in 0 .. n
    OBVIOUS
  <2>2. MmapGot(w, base, n, i - 1, x)
    BY <1>2, <2>1
  <2>3. PICK j : j = i - 1 /\ j \in Nat
    OBVIOUS
  <2>4. PICK va : va = base + j
    OBVIOUS
  <2>5. va \in Nat /\ Run(base, i) = Run(base, j) \cup {va} /\ va \notin Run(base, j) /\ va \in Run(base, n)
    BY <2>3, <2>4, RunGrows
  <2>6. PICK r : r = MmapPage(x, va)
    OBVIOUS
  <2>7. PageGot(x, va, r)
    BY <2>2, <2>5, <2>6, MmapPageOK DEF MmapGot
  <2>8. r \in WorkSet /\ SameSpace(w, r) /\ Rest(w) \subseteq Rest(r)
    BY <2>2, <2>7 DEF MmapGot, PageGot, Sound, SameSpace
  <2>9. CASE ~r.ok /\ r.leaf = x.leaf /\ Rest(r) = Rest(x) /\ r.done = x.done
    <3>1. r.done \in 0 .. i
      BY <2>2, <2>3, <2>9 DEF MmapGot
    <3>2. ASSUME NEW v \in Run(base, r.done) PROVE Mapped(r, v) /\ ~r.leaf[v].mmio
      <4>1. Mapped(x, v) /\ ~x.leaf[v].mmio
        BY <2>2, <2>9, <3>2 DEF MmapGot
      <4>2. v \in DOMAIN r.leaf /\ DOMAIN x.tables \subseteq DOMAIN r.tables
        BY <2>7, <2>9, <4>1 DEF Mapped, PageGot, SameSpace
      <4> QED BY <2>9, <4>1, <4>2, MappedStays
    <3>3. /\ DOMAIN r.leaf = DOMAIN w.leaf \cup Run(base, r.done)
          /\ \A v \in DOMAIN w.leaf : v \notin Run(base, r.done) => r.leaf[v] = w.leaf[v]
          /\ Run(base, n) \cap DOMAIN w.leaf = {} => Rest(r) = Rest(w)
      BY <2>2, <2>9 DEF MmapGot
    <3>4. MmapGot(w, base, n, i, r)
      BY <2>7, <2>8, <2>9, <3>1, <3>2, <3>3 DEF MmapGot, PageGot
    <3> QED BY <1>2, <2>1, <2>3, <2>4, <2>6, <2>8, <3>4
  <2>10. CASE /\ r.ok /\ x.ok /\ r.done = x.done + 1 /\ Mapped(r, va)
              /\ IsWith(x.leaf, va, r.leaf[va], r.leaf) /\ ~r.leaf[va].mmio
              /\ Rest(x) \subseteq Rest(r)
              /\ va \notin Plain(x) => Rest(r) = Rest(x)
    <3>1. x.done = j /\ r.done = i /\ r.done \in 0 .. i
      BY <2>2, <2>3, <2>10 DEF MmapGot
    <3>2. ASSUME NEW v \in Run(base, r.done) PROVE Mapped(r, v) /\ ~r.leaf[v].mmio
      <4>1. CASE v = va
        BY <2>10, <4>1
      <4>2. CASE v # va
        <5>1. v \in Run(base, x.done)
          BY <2>5, <3>1, <3>2, <4>2
        <5>2. Mapped(x, v) /\ ~x.leaf[v].mmio
          BY <2>2, <5>1 DEF MmapGot
        <5>3. v \in DOMAIN r.leaf /\ r.leaf[v] = x.leaf[v] /\ DOMAIN x.tables \subseteq DOMAIN r.tables
          BY <2>7, <2>10, <4>2, <5>2 DEF Mapped, PageGot, SameSpace, IsWith
        <5> QED BY <5>2, <5>3, MappedStays
      <4> QED BY <4>1, <4>2
    <3>3. DOMAIN r.leaf = DOMAIN w.leaf \cup Run(base, r.done)
      BY <2>2, <2>5, <2>10, <3>1 DEF MmapGot, IsWith
    <3>4. \A v \in DOMAIN w.leaf : v \notin Run(base, r.done) => r.leaf[v] = w.leaf[v]
      BY <2>2, <2>5, <2>10, <3>1 DEF MmapGot, IsWith
    <3>5. Run(base, n) \cap DOMAIN w.leaf = {} => Rest(r) = Rest(w)
      <4>1. ASSUME Run(base, n) \cap DOMAIN w.leaf = {} PROVE va \notin Plain(x)
        BY <2>2, <2>5, <3>1, <4>1 DEF MmapGot, Plain
      <4> QED BY <2>2, <2>10, <4>1 DEF MmapGot
    <3>6. MmapGot(w, base, n, i, r)
      BY <2>7, <2>8, <3>1, <3>2, <3>3, <3>4, <3>5 DEF MmapGot, PageGot
    <3> QED BY <1>2, <2>1, <2>3, <2>4, <2>6, <2>8, <3>6
  <2> QED BY <2>7, <2>9, <2>10 DEF PageGot
<1>5. MmapRounds(w, base, n, X)
  BY <1>3, <1>4 DEF MmapRounds
<1>6. MmapPages(w, base, n) \in X[n]
  BY <1>5, MmapLoop
<1> QED BY <1>2, <1>6

\* The rollback: after i pages
RolledBack(w, base, i, x) ==
  /\ Sound(x) /\ x.cr3 = w.cr3 /\ x.tables = w.tables /\ Rest(x) = Rest(w)
  /\ DOMAIN x.leaf = DOMAIN w.leaf \ Run(base, i)
  /\ \A v \in DOMAIN x.leaf : x.leaf[v] = w.leaf[v]

LEMMA UnmapOK ==
  ASSUME NEW w, Sound(w), NEW va, Mapped(w, va), ~w.leaf[va].mmio
  PROVE  /\ Sound(Unmap(w, va)) /\ Rest(Unmap(w, va)) = Rest(w) /\ LostLeaf(w, va, Unmap(w, va))
<1>1. w \in WorkSet /\ PmmOK(w.pmm) /\ OwnOnce(w) /\ SpaceFrames(w) \subseteq w.pmm.bits \ {0}
  BY DEF Sound
<1>2. va \in Plain(w) /\ w.leaf \in Leaves
  BY <1>1 DEF Mapped, Plain, WorkSet
<1>3. PICK f : f = w.leaf[va].frame
  OBVIOUS
<1>4. PICK q : q = PmmFree(w.pmm, {f})
  OBVIOUS
<1>5. PICK L : L = Without(w.leaf, va)
  OBVIOUS
<1>6. L \in Leaves /\ DOMAIN L = DOMAIN w.leaf \ {va} /\ \A u \in DOMAIN w.leaf : u # va => L[u] = w.leaf[u]
  BY <1>2, <1>5, LeavesWithout
<1>7. PICK r : r = Unmap(w, va)
  OBVIOUS
<1>8. r = [w EXCEPT !.pmm = q, !.leaf = L]
  BY <1>3, <1>4, <1>5, <1>7 DEF Unmap
<1>9. f # 0 /\ f \in SpaceFrames(w)
  BY <1>1, <1>2, <1>3, FrameOf
<1>10. PmmOK(q) /\ q.bits = w.pmm.bits \ {f} /\ q \in Bitmaps
  <2>1. PmmOK(q) /\ q.bits = w.pmm.bits \ ({f} \ {0})
    BY <1>1, <1>4, PmmFreeOK
  <2> QED BY <1>9, <2>1 DEF PmmOK, Bitmaps
<1>11. r \in WorkSet /\ r.pmm = q /\ r.cr3 = w.cr3 /\ r.tables = w.tables /\ r.leaf = L
  BY <1>1, <1>6, <1>8, <1>10 DEF WorkSet
<1>12. LostLeaf(w, va, r)
  BY <1>2, <1>6, <1>11 DEF LostLeaf
<1>13. SpaceFrames(r) = SpaceFrames(w) \ {f} /\ OwnOnce(r)
  BY <1>1, <1>3, <1>12, LostFrames
<1>14. Sound(r) /\ Rest(r) = Rest(w)
  BY <1>1, <1>9, <1>10, <1>11, <1>13 DEF Sound, Rest
<1> QED BY <1>7, <1>12, <1>14

LEMMA RollbackOK ==
  ASSUME NEW w, Sound(w), NEW base \in Nat, \A v \in Run(base, w.done) : Mapped(w, v) /\ ~w.leaf[v].mmio
  PROVE  RolledBack(w, base, w.done, Rollback(w, base))
<1>1. PICK n \in Nat : n = w.done
  BY DEF Sound, WorkSet
<1>2. PICK X : X = [i \in 0 .. n |-> {x \in WorkSet : RolledBack(w, base, i, x)}]
  OBVIOUS
<1>3. w \in X[0]
  <2>1. Run(base, 0) = {}
    BY RunNone
  <2>2. RolledBack(w, base, 0, w)
    BY <2>1 DEF RolledBack
  <2> QED BY <1>2, <2>2 DEF Sound
<1>4. ASSUME NEW i \in 1 .. n, NEW x \in X[i - 1]
      PROVE  Unmap(x, base + (i - 1)) \in X[i]
  <2>1. i - 1 \in 0 .. n /\ i \in 0 .. n
    OBVIOUS
  <2>2. RolledBack(w, base, i - 1, x)
    BY <1>2, <2>1
  <2>3. PICK j : j = i - 1
    OBVIOUS
  <2>4. PICK va : va = base + j
    OBVIOUS
  <2>5. va \in Nat /\ Run(base, i) = Run(base, j) \cup {va} /\ va \notin Run(base, j) /\ va \in Run(base, n)
    BY <2>3, <2>4, RunGrows
  <2>6. PICK r : r = Unmap(x, va)
    OBVIOUS
  <2>7. Mapped(w, va) /\ ~w.leaf[va].mmio
    BY <1>1, <2>5
  <2>8. Mapped(x, va) /\ ~x.leaf[va].mmio /\ Sound(x)
    BY <2>2, <2>3, <2>5, <2>7 DEF RolledBack, Mapped
  <2>9. Sound(r) /\ Rest(r) = Rest(x) /\ LostLeaf(x, va, r)
    BY <2>6, <2>8, UnmapOK
  <2>10. RolledBack(w, base, i, r)
    BY <2>2, <2>3, <2>5, <2>9 DEF RolledBack, LostLeaf
  <2>11. r \in WorkSet
    BY <2>9 DEF Sound
  <2> QED BY <1>2, <2>1, <2>3, <2>4, <2>6, <2>10, <2>11
<1>5. UnmapRounds(w, base, n, X)
  BY <1>3, <1>4 DEF UnmapRounds
<1>6. Rollback(w, base) \in X[n]
  BY <1>1, <1>5, UnmapLoop
<1> QED BY <1>1, <1>2, <1>6

\* After i device pages of n
DevGot(w, va, n, i, x) ==
  /\ Sound(x) /\ SameSpace(w, x) /\ Rest(w) \subseteq Rest(x)
  /\ DOMAIN w.leaf \subseteq DOMAIN x.leaf
  /\ \A v \in DOMAIN x.leaf : \/ v \in Run(va, i) /\ x.leaf[v].mmio
                              \/ v \in DOMAIN w.leaf /\ x.leaf[v] = w.leaf[v]
  /\ Run(va, n) \cap Plain(w) = {} => Rest(x) = Rest(w)

LEMMA DevPagesOK ==
  ASSUME NEW w, Sound(w), NEW va \in Nat, NEW frame \in Nat, NEW n \in Nat
  PROVE  DevGot(w, va, n, n, DevPages(w, va, frame, n))
<1>2. PICK X : X = [i \in 0 .. n |-> {x \in WorkSet : DevGot(w, va, n, i, x)}]
  OBVIOUS
<1>3. w \in X[0]
  <2>1. DevGot(w, va, n, 0, w)
    BY DEF DevGot, SameSpace
  <2> QED BY <1>2, <2>1 DEF Sound
<1>4. ASSUME NEW i \in 1 .. n, NEW x \in X[i - 1]
      PROVE  DevPage(x, va + (i - 1), frame + (i - 1)) \in X[i]
  <2>1. i - 1 \in 0 .. n /\ i \in 0 .. n
    OBVIOUS
  <2>2. DevGot(w, va, n, i - 1, x)
    BY <1>2, <2>1
  <2>3. PICK j : j = i - 1
    OBVIOUS
  <2>4. PICK u, f : u = va + j /\ f = frame + j
    OBVIOUS
  <2>5. /\ u \in Nat /\ Run(va, i) = Run(va, j) \cup {u} /\ u \notin Run(va, j) /\ u \in Run(va, n)
        /\ f \in Nat
    BY <2>3, <2>4, RunGrows
  <2>6. PICK r : r = DevPage(x, u, f)
    OBVIOUS
  <2>7. CASE ~x.ok
    <3>1. r = x
      BY <2>6, <2>7 DEF DevPage
    <3>2. DevGot(w, va, n, i, r)
      BY <2>2, <2>3, <2>5, <3>1 DEF DevGot
    <3> QED BY <1>2, <2>1, <2>3, <2>4, <2>6, <3>2 DEF DevGot, Sound
  <2>8. CASE x.ok
    <3>1. PICK l : l = [frame |-> f, mmio |-> TRUE]
      OBVIOUS
    <3>2. MapDone(x, u, l, r) /\ l.mmio
      <4>1. r = MapUser(x, u, f, TRUE)
        BY <2>6, <2>8 DEF DevPage
      <4> QED BY <2>2, <2>5, <3>1, <4>1, MapUserOK DEF DevGot
    <3>3. Sound(r) /\ SameSpace(w, r) /\ Rest(w) \subseteq Rest(r) /\ DOMAIN w.leaf \subseteq DOMAIN r.leaf
      BY <2>2, <3>2 DEF DevGot, MapDone, SameSpace, IsWith
    <3>4. ASSUME NEW v \in DOMAIN r.leaf
          PROVE  \/ v \in Run(va, i) /\ r.leaf[v].mmio
                 \/ v \in DOMAIN w.leaf /\ r.leaf[v] = w.leaf[v]
      <4>1. CASE r.ok /\ v = u
        BY <2>5, <3>2, <4>1 DEF MapDone, IsWith
      <4>2. CASE ~(r.ok /\ v = u)
        <5>1. v \in DOMAIN x.leaf /\ r.leaf[v] = x.leaf[v]
          BY <3>2, <3>4, <4>2 DEF MapDone, IsWith
        <5> QED BY <2>2, <2>3, <2>5, <5>1 DEF DevGot
      <4> QED BY <4>1, <4>2
    <3>5. Run(va, n) \cap Plain(w) = {} => Rest(r) = Rest(w)
      <4>1. ASSUME Run(va, n) \cap Plain(w) = {} PROVE u \notin Plain(x) /\ Rest(x) = Rest(w)
        BY <2>2, <2>5, <4>1 DEF DevGot, Plain
      <4> QED BY <3>2, <4>1 DEF MapDone
    <3>6. DevGot(w, va, n, i, r)
      BY <3>3, <3>4, <3>5 DEF DevGot
    <3> QED BY <1>2, <2>1, <2>3, <2>4, <2>6, <3>6 DEF DevGot, Sound
  <2> QED BY <2>7, <2>8
<1>5. DevRounds(w, va, frame, n, X)
  BY <1>3, <1>4 DEF DevRounds
<1>6. DevPages(w, va, frame, n) \in X[n]
  BY <1>5, DevLoop
<1> QED BY <1>2, <1>6
-----------------------------------------------------------------------------
(* Process creation *)

Region == [base : Nat, pages : Nat]
Area(r) == Run(r.base, r.pages)
Apart(regions) == \A i, j \in 1 .. Len(regions) : i < j => Area(regions[i]) \cap Area(regions[j]) = {}

\* The top of a list of regions, and how far a page of one of them can go
LEMMA TopOK ==
  ASSUME NEW regions \in Seq(Region), Len(regions) > 0
  PROVE  /\ Top(regions) \in Nat
         /\ \A i \in 1 .. Len(regions) : regions[i].base + regions[i].pages <= Top(regions)
         /\ \E i \in 1 .. Len(regions) : Top(regions) = regions[i].base + regions[i].pages
<1>1. PICK n \in Nat : n = Len(regions) /\ n > 0
  OBVIOUS
<1>2. \A i \in 1 .. n : regions[i] \in Region
  BY <1>1, ElementOfSeq
<1>3. \A i \in 1 .. n : regions[i].base + regions[i].pages \in Nat
  BY <1>2 DEF Region
<1>4. PICK f : f = [i \in 1 .. n |-> regions[i].base + regions[i].pages]
  OBVIOUS
<1>5. PICK b \in Nat : \A i \in 1 .. n : f[i] <= b
  BY <1>3, <1>4, Bounded
<1>6. PICK S : S = {regions[i].base + regions[i].pages : i \in 1 .. n}
  OBVIOUS
<1>7. S \in SUBSET Nat /\ S # {} /\ \A y \in S : y <= b
  <2>1. 1 \in 1 .. n
    BY <1>1
  <2> QED BY <1>3, <1>4, <1>5, <1>6, <2>1
<1>8. Max(S) \in S /\ \A y \in S : y <= Max(S)
  BY <1>7, GreatestOne
<1>9. Top(regions) = Max(S)
  BY <1>1, <1>6 DEF Top
<1> QED BY <1>1, <1>6, <1>7, <1>8, <1>9

LEMMA AreaBelow ==
  ASSUME NEW r \in Region, NEW t \in Nat, r.base + r.pages <= t, NEW v \in Area(r)
  PROVE  v \in Nat /\ r.base <= v /\ v < t
BY DEF Area, Run, Region

\* A run of pages taken and mapped
Placed(w, base, n, r) ==
  /\ Sound(r) /\ SameSpace(w, r) /\ r.err = w.err
  /\ w.ignored => r.ignored
  /\ Rest(w) \subseteq Rest(r)
  /\ DOMAIN w.leaf \subseteq DOMAIN r.leaf /\ DOMAIN r.leaf \subseteq DOMAIN w.leaf \cup Run(base, n)
  /\ DOMAIN w.leaf \subseteq Plain(w) => DOMAIN r.leaf \subseteq Plain(r)
  /\ ~r.ignored => \A v \in Run(base, n) : Mapped(r, v)
  /\ ~r.ignored /\ Run(base, n) \cap DOMAIN w.leaf = {} => Rest(r) = Rest(w)

LEMMA PlaceOK ==
  ASSUME NEW w, Sound(w), NEW base \in Nat, NEW n \in Nat, PmmAlloc(w.pmm, n).frame # 0
  PROVE  Placed(w, base, n, MapPages([w EXCEPT !.pmm = PmmAlloc(w.pmm, n).pmm], base, n, PmmAlloc(w.pmm, n).frame))
<1>1. w \in WorkSet /\ PmmOK(w.pmm) /\ OwnOnce(w) /\ SpaceFrames(w) \subseteq w.pmm.bits \ {0}
  BY DEF Sound
<1>2. PICK a : a = PmmAlloc(w.pmm, n)
  OBVIOUS
<1>3. PICK f : f = a.frame
  OBVIOUS
<1>4. /\ PmmOK(a.pmm) /\ f \in Nat \ {0}
      /\ Run(f, n) \subseteq Pages \ w.pmm.bits
      /\ a.pmm.bits = w.pmm.bits \cup Run(f, n) /\ a.pmm \in Bitmaps
  <2>1. Alloced(w.pmm, n, a)
    BY <1>1, <1>2, PmmAllocOK
  <2> QED BY <1>2, <1>3, <2>1, PagesFinite DEF Alloced, PmmOK, Bitmaps
<1>5. 0 \notin Run(f, n)
  BY <1>1, <1>4 DEF PmmOK
<1>6. PICK u : u = [w EXCEPT !.pmm = a.pmm]
  OBVIOUS
<1>7. /\ u \in WorkSet /\ u.pmm = a.pmm /\ u.cr3 = w.cr3 /\ u.tables = w.tables /\ u.leaf = w.leaf
      /\ u.err = w.err /\ u.ignored = w.ignored
  BY <1>1, <1>4, <1>6 DEF WorkSet
<1>8. SpaceFrames(u) = SpaceFrames(w) /\ OwnOnce(u) /\ Plain(u) = Plain(w)
  BY <1>1, <1>7, SameFrames
<1>9. Sound(u) /\ Rest(u) = Rest(w) \cup Run(f, n) /\ Run(f, n) \cap Rest(w) = {}
  BY <1>1, <1>4, <1>7, <1>8 DEF Sound, Rest
<1>10. PICK r : r = MapPages(u, base, n, f)
  OBVIOUS
<1>11. PagesTried(u, base, n, f, n, r)
  <2>1. Run(f, n) \subseteq Rest(u) \ {0}
    BY <1>5, <1>9
  <2> QED BY <1>4, <1>9, <1>10, <2>1, MapPagesOK
<1>12. /\ Sound(r) /\ SameSpace(w, r) /\ r.err = w.err
       /\ w.ignored => r.ignored
       /\ DOMAIN w.leaf \subseteq DOMAIN r.leaf /\ DOMAIN r.leaf \subseteq DOMAIN w.leaf \cup Run(base, n)
       /\ DOMAIN w.leaf \subseteq Plain(w) => DOMAIN r.leaf \subseteq Plain(r)
       /\ ~r.ignored => \A v \in Run(base, n) : Mapped(r, v)
  BY <1>7, <1>8, <1>11 DEF PagesTried, SameSpace
<1>13. /\ Rest(w) \subseteq Rest(r)
       /\ ~r.ignored /\ Run(base, n) \cap DOMAIN w.leaf = {} => Rest(r) = Rest(w)
  BY <1>7, <1>9, <1>11 DEF PagesTried
<1>14. Placed(w, base, n, r)
  BY <1>12, <1>13 DEF Placed
<1> QED BY <1>2, <1>3, <1>6, <1>10, <1>14

\* The first i regions of a program are loaded, R being the pages marked before
Loaded(R, regions, i, x) ==
  /\ Sound(x) /\ R \subseteq Rest(x)
  /\ x.err \in {0, -4, -10, -11}
  /\ DOMAIN x.leaf \subseteq Plain(x)
  /\ \A v \in DOMAIN x.leaf : v >= UserBase /\ \E k \in 1 .. i : v \in Area(regions[k])
  /\ x.err = 0 => \A k \in 1 .. i : regions[k].base >= UserBase
  /\ x.err = 0 /\ ~x.ignored => \A k \in 1 .. i : \A v \in Area(regions[k]) : Mapped(x, v)
  /\ ~x.ignored /\ Apart(regions) => Rest(x) = R

\* An address space with nothing in it
Fresh(R, w) == Sound(w) /\ Rest(w) = R /\ w.err = 0 /\ ~w.ignored /\ DOMAIN w.leaf = {}

LEMMA NewSpaceOK ==
  ASSUME NEW m, PmmOK(m)
  PROVE  \/ NewSpace(m).err = -3 /\ NewSpace(m).pmm = m /\ ~NewSpace(m).ignored
         \/ Fresh(m.bits, NewSpace(m))
<1>1. PICK a : a = PmmAlloc(m, 1)
  OBVIOUS
<1>2. Alloced(m, 1, a)
  BY <1>1, PmmAllocOK
<1>3. PICK w : w = NewSpace(m)
  OBVIOUS
<1>4. PICK e : e = IF a.frame = 0 THEN -3 ELSE 0
  OBVIOUS
<1>5. w = [pmm |-> a.pmm, cr3 |-> a.frame, tables |-> << >>, leaf |-> << >>,
           ok |-> TRUE, ignored |-> FALSE, err |-> e, done |-> 0]
  BY <1>1, <1>3, <1>4 DEF NewSpace, Work, NoSpace
<1>6. CASE a.frame = 0
  BY <1>2, <1>3, <1>4, <1>5, <1>6 DEF Alloced
<1>7. CASE a.frame # 0
  <2>1. PICK f : f = a.frame
    OBVIOUS
  <2>2. /\ PmmOK(a.pmm) /\ f \in Pages \ {0} /\ f \in Nat
        /\ Run(f, 1) \subseteq Pages \ m.bits
        /\ a.pmm.bits = m.bits \cup Run(f, 1)
    BY <1>2, <1>7, <2>1, PagesFinite DEF Alloced
  <2>3. Run(f, 1) = {f}
    BY <2>2, RunOne
  <2>4. << >> \in Tables /\ << >> \in Leaves /\ DOMAIN << >> = {}
    <3>1. << >> \in [{} -> Pages] /\ << >> \in [{} -> Leaf] /\ DOMAIN << >> = {}
      OBVIOUS
    <3>2. {} \in SUBSET Names /\ {} \in SUBSET Nat
      OBVIOUS
    <3>3. << >> \in Tables
      BY <3>1, <3>2, Zenon DEF Tables
    <3>4. << >> \in Leaves
      BY <3>1, <3>2, Zenon DEF Leaves
    <3> QED BY <3>1, <3>3, <3>4
  <2>5. a.pmm \in Bitmaps
    BY <2>2 DEF PmmOK, Bitmaps
  <2>6. /\ w \in WorkSet /\ w.pmm = a.pmm /\ w.cr3 = f /\ w.err = 0 /\ ~w.ignored
        /\ w.tables = << >> /\ w.leaf = << >>
    BY <1>4, <1>5, <1>7, <2>1, <2>2, <2>4, <2>5 DEF WorkSet
  <2>7. DOMAIN w.tables = {} /\ DOMAIN w.leaf = {} /\ Plain(w) = {}
    BY <2>4, <2>6 DEF Plain
  <2>8. \A x : x \in SpaceFrames(w) <=> x = f
    BY <2>6, <2>7, FrameOf
  <2>9. OwnOnce(w)
    BY <2>7 DEF OwnOnce
  <2>10. Sound(w)
    BY <2>2, <2>3, <2>6, <2>8, <2>9 DEF Sound
  <2>11. Rest(w) = m.bits
    BY <2>2, <2>3, <2>6, <2>8 DEF Rest
  <2> QED BY <1>3, <2>6, <2>7, <2>10, <2>11 DEF Fresh
<1> QED BY <1>6, <1>7

\* One region more
LEMMA LoadOneOK ==
  ASSUME NEW R, NEW regions \in Seq(Region), NEW i \in 1 .. Len(regions), NEW x, NEW r,
         Loaded(R, regions, i - 1, x), x.err = 0, regions[i].base >= UserBase,
         Placed(x, regions[i].base, regions[i].pages, r)
  PROVE  Loaded(R, regions, i, r)
<1>1. PICK j : j = i - 1 /\ i \in Nat
  OBVIOUS
<1>2. 1 .. i = (1 .. j) \cup {i} /\ i \notin 1 .. j /\ 1 .. j \subseteq 1 .. Len(regions)
  BY <1>1
<1>3. PICK A : A = Area(regions[i]) /\ A = Run(regions[i].base, regions[i].pages)
  BY DEF Area
<1>4. Placed(x, regions[i].base, regions[i].pages, r) /\ Loaded(R, regions, j, x)
  BY <1>1
<1>5. Sound(r) /\ R \subseteq Rest(r) /\ r.err = 0 /\ DOMAIN r.leaf \subseteq Plain(r)
  BY <1>4 DEF Placed, Loaded
<1>6. ASSUME NEW v \in DOMAIN r.leaf PROVE v >= UserBase /\ \E k \in 1 .. i : v \in Area(regions[k])
  <2>1. CASE v \in DOMAIN x.leaf
    BY <1>2, <1>4, <2>1 DEF Loaded
  <2>2. CASE v \in A
    <3>1. regions[i] \in Region
      BY ElementOfSeq
    <3>2. regions[i].base \in Nat /\ regions[i].pages \in Nat /\ v \in Run(regions[i].base, regions[i].pages)
      BY <1>3, <2>2, <3>1 DEF Region
    <3>3. v >= UserBase
      BY <3>2, VaAssumption DEF Run
    <3> QED BY <1>2, <1>3, <2>2, <3>3
  <2> QED BY <1>3, <1>4, <1>6, <2>1, <2>2 DEF Placed
<1>7. \A k \in 1 .. i : regions[k].base >= UserBase
  BY <1>2, <1>4 DEF Loaded
<1>8. ASSUME ~r.ignored PROVE \A k \in 1 .. i : \A v \in Area(regions[k]) : Mapped(r, v)
  <2>1. ~x.ignored
    BY <1>4, <1>8 DEF Placed
  <2>2. ASSUME NEW k \in 1 .. i, NEW v \in Area(regions[k]) PROVE Mapped(r, v)
    <3>1. CASE k = i
      BY <1>3, <1>4, <1>8, <2>2, <3>1 DEF Placed
    <3>2. CASE k # i
      <4>1. Mapped(x, v)
        BY <1>2, <1>4, <2>1, <2>2, <3>2 DEF Loaded
      <4>2. v \in DOMAIN r.leaf /\ DOMAIN x.tables \subseteq DOMAIN r.tables
        BY <1>4, <4>1 DEF Placed, Mapped, SameSpace
      <4> QED BY <4>1, <4>2, MappedStays
    <3> QED BY <3>1, <3>2
  <2> QED BY <2>2
<1>9. ASSUME ~r.ignored, Apart(regions) PROVE Rest(r) = R
  <2>1. ~x.ignored
    BY <1>4, <1>9 DEF Placed
  <2>2. Rest(x) = R
    BY <1>4, <1>9, <2>1 DEF Loaded
  <2>3. ASSUME NEW v \in DOMAIN x.leaf, v \in A PROVE FALSE
    <3>1. PICK k \in 1 .. j : v \in Area(regions[k])
      BY <1>4, <2>3 DEF Loaded
    <3>2. k < i /\ k \in 1 .. Len(regions)
      BY <1>1, <1>2
    <3> QED BY <1>3, <1>9, <2>3, <3>1, <3>2 DEF Apart
  <2>4. Run(regions[i].base, regions[i].pages) \cap DOMAIN x.leaf = {}
    BY <1>3, <2>3
  <2> QED BY <1>4, <1>9, <2>2, <2>4 DEF Placed
<1> QED BY <1>5, <1>6, <1>7, <1>8, <1>9 DEF Loaded

\* A load that fails leaves the space as it was
LEMMA LoadFails ==
  ASSUME NEW R, NEW regions, NEW i \in Nat, NEW j \in Nat, j <= i, NEW x, NEW e \in {-4, -10, -11}, Loaded(R, regions, j, x)
  PROVE  Loaded(R, regions, i, [x EXCEPT !.err = e])
<1>1. PICK r : r = [x EXCEPT !.err = e]
  OBVIOUS
<1>2. x \in WorkSet /\ PmmOK(x.pmm) /\ OwnOnce(x) /\ SpaceFrames(x) \subseteq x.pmm.bits \ {0}
  BY DEF Loaded, Sound
<1>3. e \in Int /\ e # 0
  OBVIOUS
<1>4. /\ r \in WorkSet /\ r.pmm = x.pmm /\ r.cr3 = x.cr3 /\ r.tables = x.tables /\ r.leaf = x.leaf
      /\ r.err = e /\ r.ignored = x.ignored
  BY <1>1, <1>2, <1>3 DEF WorkSet
<1>5. SpaceFrames(r) = SpaceFrames(x) /\ OwnOnce(r) /\ Plain(r) = Plain(x)
  BY <1>2, <1>4, SameFrames
<1>6. Sound(r) /\ Rest(r) = Rest(x)
  BY <1>2, <1>4, <1>5 DEF Sound, Rest
<1>7. \A v \in DOMAIN r.leaf : v >= UserBase /\ \E k \in 1 .. i : v \in Area(regions[k])
  <2>1. 1 .. j \subseteq 1 .. i
    OBVIOUS
  <2> QED BY <1>4, <2>1 DEF Loaded
<1>8. Loaded(R, regions, i, r)
  BY <1>3, <1>4, <1>5, <1>6, <1>7 DEF Loaded
<1> QED BY <1>1, <1>8

LEMMA LoadStays ==
  ASSUME NEW R, NEW regions, NEW i \in Nat, NEW j \in Nat, j <= i, NEW x, x.err # 0, Loaded(R, regions, j, x)
  PROVE  Loaded(R, regions, i, x)
<1>1. \A v \in DOMAIN x.leaf : v >= UserBase /\ \E k \in 1 .. i : v \in Area(regions[k])
  <2>1. 1 .. j \subseteq 1 .. i
    OBVIOUS
  <2> QED BY <2>1 DEF Loaded
<1> QED BY <1>1 DEF Loaded

LEMMA FreshLoaded ==
  ASSUME NEW R, NEW regions, NEW w, Fresh(R, w)
  PROVE  Loaded(R, regions, 0, w)
BY DEF Fresh, Loaded

LEMMA LoadSegmentsOK ==
  ASSUME NEW R, NEW segs \in Seq(Region), NEW w, Fresh(R, w)
  PROVE  Loaded(R, segs, Len(segs), LoadSegments(w, segs))
<1>1. PICK n \in Nat : n = Len(segs)
  OBVIOUS
<1>2. PICK X : X = [i \in 0 .. n |-> {x \in WorkSet : Loaded(R, segs, i, x)}]
  OBVIOUS
<1>3. w \in X[0]
  BY <1>2, FreshLoaded DEF Fresh, Sound
<1>4. ASSUME NEW i \in 1 .. n, NEW x \in X[i - 1]
      PROVE  LoadSegment(x, segs[i]) \in X[i]
  <2>1. i - 1 \in 0 .. n /\ i \in 0 .. n /\ i - 1 \in Nat /\ i \in Nat /\ i - 1 <= i
    OBVIOUS
  <2>2. Loaded(R, segs, i - 1, x)
    BY <1>2, <2>1
  <2>3. PICK s : s = segs[i] /\ s \in Region
    BY <1>1, ElementOfSeq
  <2>4. s.base \in Nat /\ s.pages \in Nat
    BY <2>3 DEF Region
  <2>5. PICK r : r = LoadSegment(x, s)
    OBVIOUS
  <2>6. Loaded(R, segs, i, r)
    <3>1. CASE x.err # 0
      <4>1. r = x
        BY <2>5, <3>1 DEF LoadSegment
      <4> QED BY <2>1, <2>2, <3>1, <4>1, LoadStays
    <3>2. CASE x.err = 0 /\ s.base < UserBase
      <4>1. r = [x EXCEPT !.err = -10]
        BY <2>5, <3>2 DEF LoadSegment
      <4> QED BY <2>1, <2>2, <4>1, LoadFails
    <3>3. CASE x.err = 0 /\ ~(s.base < UserBase) /\ PmmAlloc(x.pmm, s.pages).frame = 0
      <4>1. r = [x EXCEPT !.err = -11]
        BY <2>5, <3>3 DEF LoadSegment
      <4> QED BY <2>1, <2>2, <4>1, LoadFails
    <3>4. CASE x.err = 0 /\ ~(s.base < UserBase) /\ PmmAlloc(x.pmm, s.pages).frame # 0
      <4>1. r = MapPages([x EXCEPT !.pmm = PmmAlloc(x.pmm, s.pages).pmm], s.base, s.pages, PmmAlloc(x.pmm, s.pages).frame)
        BY <2>5, <3>4 DEF LoadSegment
      <4>2. Sound(x)
        BY <2>2 DEF Loaded
      <4>3. Placed(x, s.base, s.pages, r)
        BY <2>4, <3>4, <4>1, <4>2, PlaceOK
      <4>4. s.base >= UserBase
        BY <2>4, <3>4, VaAssumption
      <4> QED BY <1>1, <2>2, <2>3, <3>4, <4>3, <4>4, LoadOneOK
    <3> QED BY <3>1, <3>2, <3>3, <3>4
  <2>7. r \in WorkSet
    BY <2>6 DEF Loaded, Sound
  <2> QED BY <1>2, <2>1, <2>3, <2>5, <2>6, <2>7
<1>5. LoadRounds(w, segs, n, X)
  BY <1>3, <1>4 DEF LoadRounds
<1>6. LoadSegments(w, segs) \in X[n]
  BY <1>1, <1>5, LoadLoop
<1> QED BY <1>1, <1>2, <1>6

LEMMA LoadCodeOK ==
  ASSUME NEW R, NEW n \in Nat, NEW w, Fresh(R, w)
  PROVE  Loaded(R, <<[base |-> UserBase, pages |-> n]>>, 1, LoadCode(w, n))
<1>1. PICK code : code = <<[base |-> UserBase, pages |-> n]>>
  OBVIOUS
<1>2. code \in Seq(Region) /\ Len(code) = 1 /\ code[1].base = UserBase /\ code[1].pages = n /\ UserBase \in Nat
  BY <1>1, VaAssumption DEF Region
<1>3. Loaded(R, code, 0, w) /\ w.err = 0 /\ Sound(w)
  BY FreshLoaded DEF Fresh
<1>4. PICK r : r = LoadCode(w, n)
  OBVIOUS
<1>5. CASE PmmAlloc(w.pmm, n).frame = 0
  <2>1. r = [w EXCEPT !.err = -4]
    BY <1>3, <1>4, <1>5 DEF LoadCode
  <2>2. 0 \in Nat /\ 1 \in Nat /\ 0 <= 1 /\ -4 \in {-4, -10, -11}
    OBVIOUS
  <2>3. Loaded(R, code, 1, [w EXCEPT !.err = -4])
    BY ONLY <1>3, <2>2, LoadFails
  <2> QED BY <1>1, <1>4, <2>1, <2>3
<1>6. CASE PmmAlloc(w.pmm, n).frame # 0
  <2>1. r = MapPages([w EXCEPT !.pmm = PmmAlloc(w.pmm, n).pmm], UserBase, n, PmmAlloc(w.pmm, n).frame)
    BY <1>3, <1>4, <1>6 DEF LoadCode
  <2>2. Placed(w, UserBase, n, r)
    BY <1>2, <1>3, <1>6, <2>1, PlaceOK
  <2>3. 1 \in 1 .. Len(code) /\ 1 - 1 = 0 /\ UserBase >= UserBase
    BY <1>2
  <2>4. Loaded(R, code, 1, r)
    BY <1>2, <1>3, <2>2, <2>3, LoadOneOK
  <2> QED BY <1>1, <1>4, <2>4
<1> QED BY <1>5, <1>6

\* The stack is above the program; regions are those of the program
StackBase(regions) == Top(regions) + Guard
Created(R, regions, w) ==
  /\ Sound(w) /\ R \subseteq Rest(w)
  /\ w.err \in {0, -4, -5, -10, -11}
  /\ w.err # -5 /\ ~w.ignored /\ Apart(regions) => Rest(w) = R
  /\ w.err = 0 =>
       /\ DOMAIN w.leaf \subseteq Plain(w)
       /\ \A v \in DOMAIN w.leaf : v >= UserBase /\ v < StackBase(regions) + StackPages
       /\ \A k \in 1 .. Len(regions) : regions[k].base >= UserBase
  /\ w.err = 0 /\ ~w.ignored =>
       /\ \A k \in 1 .. Len(regions) : \A v \in Area(regions[k]) : Mapped(w, v)
       /\ \A v \in Run(StackBase(regions), StackPages) : Mapped(w, v)

LEMMA EnterUserOK ==
  ASSUME NEW R, NEW regions \in Seq(Region), Len(regions) > 0, NEW x, Loaded(R, regions, Len(regions), x)
  PROVE  Created(R, regions, EnterUser(x, regions))
<1>1. PICK n \in Nat : n = Len(regions) /\ n > 0
  OBVIOUS
<1>2. PICK r : r = EnterUser(x, regions)
  OBVIOUS
<1>3. Loaded(R, regions, n, x) /\ Sound(x)
  BY <1>1 DEF Loaded
<1>4. PICK t \in Nat : t = Top(regions) /\ \A k \in 1 .. n : regions[k].base + regions[k].pages <= t
  BY <1>1, TopOK
<1>5. PICK b \in Nat : b = t + Guard /\ b = StackBase(regions) /\ b >= t
  <2>1. Guard \in Nat
    BY SizesAssumption
  <2>2. t + Guard \in Nat /\ t + Guard >= t
    BY <2>1
  <2> QED BY <1>4, <2>2 DEF StackBase
<1>6. StackPages \in Nat
  BY SizesAssumption
<1>7. CASE x.err # 0
  <2>1. r = x
    BY <1>2, <1>7 DEF EnterUser
  <2> QED BY <1>2, <1>3, <1>7, <2>1 DEF Created, Loaded
<1>8. CASE x.err = 0 /\ PmmAlloc(x.pmm, StackPages).frame = 0
  <2>1. r = [x EXCEPT !.err = -5]
    BY <1>2, <1>8 DEF EnterUser
  <2>2. /\ r \in WorkSet /\ r.pmm = x.pmm /\ r.cr3 = x.cr3 /\ r.tables = x.tables /\ r.leaf = x.leaf
        /\ r.err = -5 /\ x \in WorkSet
    BY <1>3, <2>1 DEF Sound, WorkSet
  <2>3. SpaceFrames(r) = SpaceFrames(x) /\ OwnOnce(r)
    BY <1>3, <2>2, SameFrames DEF Sound
  <2>4. Sound(r) /\ Rest(r) = Rest(x)
    BY <1>3, <2>2, <2>3 DEF Sound, Rest
  <2> QED BY <1>2, <1>3, <2>2, <2>4 DEF Created, Loaded
<1>9. CASE x.err = 0 /\ PmmAlloc(x.pmm, StackPages).frame # 0
  <2>1. r = MapPages([x EXCEPT !.pmm = PmmAlloc(x.pmm, StackPages).pmm], b, StackPages, PmmAlloc(x.pmm, StackPages).frame)
    BY <1>2, <1>4, <1>5, <1>9 DEF EnterUser
  <2>2. Placed(x, b, StackPages, r)
    BY <1>3, <1>6, <1>9, <2>1, PlaceOK
  <2>3. /\ DOMAIN x.leaf \subseteq Plain(x)
        /\ \A v \in DOMAIN x.leaf : v >= UserBase /\ \E k \in 1 .. n : v \in Area(regions[k])
        /\ \A k \in 1 .. n : regions[k].base >= UserBase
    BY <1>3, <1>9 DEF Loaded
  <2>4. \A k \in 1 .. n : regions[k] \in Region
    BY <1>1, ElementOfSeq
  <2>5. ASSUME NEW v \in DOMAIN x.leaf PROVE v \in Nat /\ v < t
    BY <1>4, <2>3, <2>4, AreaBelow
  <2>6. Run(b, StackPages) \cap DOMAIN x.leaf = {}
    <3>1. \A v \in Run(b, StackPages) : v >= b
      BY <1>5, <1>6 DEF Run
    <3>2. ASSUME NEW v \in DOMAIN x.leaf, v \in Run(b, StackPages) PROVE FALSE
      BY <1>4, <1>5, <2>5, <3>1, <3>2
    <3> QED BY <3>2
  <2>7. t >= UserBase
    <3>1. 1 \in 1 .. n
      BY <1>1
    <3>2. regions[1].base >= UserBase /\ regions[1].base \in Nat /\ regions[1].pages \in Nat
      BY <2>3, <2>4, <3>1 DEF Region
    <3>3. regions[1].base + regions[1].pages <= t
      BY <1>4, <3>1
    <3> QED BY <1>4, <3>2, <3>3, VaAssumption
  <2>8. ASSUME NEW v \in DOMAIN r.leaf PROVE v >= UserBase /\ v < b + StackPages
    <3>1. CASE v \in DOMAIN x.leaf
      <4>1. v >= UserBase /\ v \in Nat /\ v < t
        BY <2>3, <2>5, <3>1
      <4> QED BY <1>4, <1>5, <1>6, <4>1
    <3>2. CASE v \in Run(b, StackPages)
      BY <1>4, <1>5, <1>6, <2>7, <3>2, VaAssumption DEF Run
    <3> QED BY <2>2, <2>8, <3>1, <3>2 DEF Placed
  <2>9. ASSUME ~r.ignored
        PROVE  /\ \A k \in 1 .. n : \A v \in Area(regions[k]) : Mapped(r, v)
               /\ \A v \in Run(b, StackPages) : Mapped(r, v)
    <3>1. ~x.ignored /\ \A v \in Run(b, StackPages) : Mapped(r, v)
      BY <2>2, <2>9 DEF Placed
    <3>2. ASSUME NEW k \in 1 .. n, NEW v \in Area(regions[k]) PROVE Mapped(r, v)
      <4>1. Mapped(x, v)
        BY <1>3, <1>9, <3>1, <3>2 DEF Loaded
      <4>2. v \in DOMAIN r.leaf /\ DOMAIN x.tables \subseteq DOMAIN r.tables
        BY <2>2, <4>1 DEF Placed, Mapped, SameSpace
      <4> QED BY <4>1, <4>2, MappedStays
    <3> QED BY <3>1, <3>2
  <2>10. ASSUME ~r.ignored, Apart(regions) PROVE Rest(r) = R
    <3>1. ~x.ignored
      BY <2>2, <2>10 DEF Placed
    <3>2. Rest(x) = R
      BY <1>3, <2>10, <3>1 DEF Loaded
    <3> QED BY <2>2, <2>6, <2>10, <3>2 DEF Placed
  <2>11. Sound(r) /\ R \subseteq Rest(r) /\ r.err = 0 /\ DOMAIN r.leaf \subseteq Plain(r)
    BY <1>3, <1>9, <2>2, <2>3 DEF Placed, Loaded
  <2> QED BY <1>1, <1>2, <1>5, <2>3, <2>8, <2>9, <2>10, <2>11 DEF Created
<1> QED BY <1>7, <1>8, <1>9
-----------------------------------------------------------------------------
(* The invariant *)

Shape ==
  /\ status \in [Procs -> {"none", "live", "dead"}] /\ space \in [Procs -> SpaceSet]
  /\ umap \in [Procs -> Seq(Region)] /\ heap \in [Procs -> Nat] /\ devUsed \in [Procs -> Nat]
  /\ booted \in BOOLEAN /\ kern \subseteq Pages

\* Every page has one owner
Owned ==
  /\ PmmOK(pmm) /\ 0 \in kern /\ kern \subseteq pmm.bits
  /\ \A p \in Alive : OwnOnce(space[p]) /\ SpaceFrames(space[p]) \subseteq pmm.bits \ kern
  /\ \A p, q \in Alive : p # q => SpaceFrames(space[p]) \cap SpaceFrames(space[q]) = {}

\* A free slot has nothing
Idle == \A p \in Procs : status[p] = "none" => space[p] = NoSpace /\ umap[p] = << >> /\ heap[p] = 0

\* The heap of a process is its last region and ends at the top, all of it mapped; what is mapped
\* above the top are device pages
RegionsOK(u, h, s) ==
  /\ Len(u) \in 1 .. UmapMax /\ h \in {0, Len(u)}
  /\ h # 0 => /\ Top(u) = u[h].base + u[h].pages
              /\ Area(u[h]) \subseteq DOMAIN s.leaf
  /\ Top(u) >= UserBase
  /\ \A v \in DOMAIN s.leaf : \/ v >= UserBase /\ v < Top(u)
                              \/ v >= DevBase /\ v < KernelBase /\ s.leaf[v].mmio

Inv ==
  /\ Shape /\ Owned /\ Idle
  /\ \A p \in Alive : RegionsOK(umap[p], heap[p], space[p])
  /\ ~booted => Alive = {}

\* With programs laid out as userspace.ld does, the regions end below the device pages
LowRegions == \A p \in Alive : Top(umap[p]) <= DevBase

LEMMA NoSpaceOK == NoSpace \in SpaceSet /\ DOMAIN NoSpace.leaf = {} /\ DOMAIN NoSpace.tables = {}
<1>1. << >> \in [{} -> Pages] /\ << >> \in [{} -> Leaf] /\ DOMAIN << >> = {}
  OBVIOUS
<1>2. {} \in SUBSET Names /\ {} \in SUBSET Nat
  OBVIOUS
<1>3. << >> \in Tables
  BY <1>1, <1>2, Zenon DEF Tables
<1>4. << >> \in Leaves
  BY <1>1, <1>2, Zenon DEF Leaves
<1>5. 0 \in Pages
  BY PagesFinite
<1> QED BY <1>1, <1>3, <1>4, <1>5 DEF NoSpace, SpaceSet

LEMMA InitInv == Init => Inv /\ LowRegions
<1>1. SUFFICES ASSUME Init PROVE Inv /\ LowRegions
  OBVIOUS
<1>2. PICK m : m = [bits |-> Reserved, used |-> Cardinality(Reserved)]
  OBVIOUS
<1>3. PICK h : h = PmmAlloc(m, HeapPages)
  OBVIOUS
<1>4. PmmOK(m) /\ HeapPages \in Nat
  BY <1>2, ReservedOK, SizesAssumption
<1>5. PmmOK(h.pmm)
  BY <1>3, <1>4, PmmAllocOK DEF Alloced
<1>6. /\ pmm = h.pmm /\ kern = h.pmm.bits
      /\ status = [p \in Procs |-> "none"] /\ space = [p \in Procs |-> NoSpace]
      /\ umap = [p \in Procs |-> << >>] /\ heap = [p \in Procs |-> 0] /\ devUsed = [p \in Procs |-> 0]
      /\ booted = FALSE
  BY <1>1, <1>2, <1>3 DEF Init
<1>7. Alive = {}
  BY <1>6 DEF Alive
<1>8. Shape
  <2>1. << >> \in Seq(Region)
    OBVIOUS
  <2>2. kern \subseteq Pages
    BY <1>5, <1>6 DEF PmmOK
  <2> QED BY <1>6, <2>1, <2>2, NoSpaceOK DEF Shape
<1>9. Owned
  BY <1>5, <1>6, <1>7 DEF Owned, PmmOK
<1>10. Idle
  BY <1>6 DEF Idle
<1> QED BY <1>7, <1>8, <1>9, <1>10 DEF Inv, LowRegions
-----------------------------------------------------------------------------
(* What the invariant says *)

LEMMA CountsRight == Inv => UsedCounted
<1>1. SUFFICES ASSUME Inv PROVE UsedCounted
  OBVIOUS
<1>2. pmm.bits \in SUBSET Pages /\ pmm.used = Cardinality(pmm.bits)
  BY <1>1 DEF Inv, Owned, PmmOK
<1>3. Cardinality(Pages \ pmm.bits) = Cardinality(Pages) - Cardinality(Pages \cap pmm.bits)
  BY PagesFinite, FS_Difference
<1>4. Pages \cap pmm.bits = pmm.bits
  BY <1>2
<1> QED BY <1>2, <1>3, <1>4, PagesFinite DEF UsedCounted, PmmFreeMem

\* As many pages as names of tables, for each has its own
LEMMA TablesCounted ==
  ASSUME NEW s, s.tables \in Tables, OwnOnce(s)
  PROVE  /\ IsFiniteSet(DOMAIN s.tables)
         /\ Cardinality({s.tables[t] : t \in DOMAIN s.tables}) = Cardinality(DOMAIN s.tables)
<1>1. PICK D, f : D = DOMAIN s.tables /\ f = s.tables
  OBVIOUS
<1>2. PICK T : T = {f[t] : t \in D}
  OBVIOUS
<1>3. f \in [D -> T] /\ T \subseteq Pages
  <2>1. f \in [D -> Pages]
    BY <1>1 DEF Tables
  <2> QED BY <1>1, <1>2, <2>1
<1>4. IsFiniteSet(T)
  BY <1>3, PagesFinite, FS_Subset
<1>5. f \in Injection(D, T) /\ f \in Surjection(D, T)
  <2>1. \A t, u \in D : f[t] = f[u] => t = u
    BY <1>1 DEF OwnOnce
  <2> QED BY <1>2, <1>3, <2>1 DEF Injection, Surjection, IsInjective
<1>6. IsFiniteSet(D) /\ Cardinality(D) = Cardinality(T)
  BY <1>4, <1>5, FS_Injection
<1> QED BY <1>1, <1>2, <1>6

LEMMA PlainCounted ==
  ASSUME NEW s, s.leaf \in Leaves, OwnOnce(s), {s.leaf[v].frame : v \in Plain(s)} \subseteq Pages
  PROVE  /\ IsFiniteSet(Plain(s))
         /\ Cardinality({s.leaf[v].frame : v \in Plain(s)}) = Cardinality(Plain(s))
<1>1. PICK D : D = Plain(s)
  OBVIOUS
<1>2. PICK f : f = [v \in D |-> s.leaf[v].frame]
  OBVIOUS
<1>3. PICK T : T = {s.leaf[v].frame : v \in D}
  OBVIOUS
<1>4. f \in [D -> T] /\ T \subseteq Pages
  BY <1>1, <1>2, <1>3
<1>5. IsFiniteSet(T)
  BY <1>4, PagesFinite, FS_Subset
<1>6. f \in Injection(D, T) /\ f \in Surjection(D, T)
  <2>1. \A t, u \in D : f[t] = f[u] => t = u
    BY <1>1, <1>2 DEF OwnOnce
  <2> QED BY <1>2, <1>3, <1>4, <2>1 DEF Injection, Surjection, IsInjective
<1>7. IsFiniteSet(D) /\ Cardinality(D) = Cardinality(T)
  BY <1>5, <1>6, FS_Injection
<1> QED BY <1>1, <1>3, <1>7

LEMMA OnceCounted ==
  ASSUME NEW s \in SpaceSet, OwnOnce(s), SpaceFrames(s) \subseteq Pages
  PROVE  Cardinality(SpaceFrames(s)) = 1 + Cardinality(DOMAIN s.tables)
                                         + Cardinality({v \in DOMAIN s.leaf : ~s.leaf[v].mmio})
<1>1. PICK T : T = {s.tables[t] : t \in DOMAIN s.tables}
  OBVIOUS
<1>2. PICK P : P = {s.leaf[v].frame : v \in Plain(s)}
  OBVIOUS
<1>3. PICK C : C = {s.cr3}
  OBVIOUS
<1>4. SpaceFrames(s) = C \cup T \cup P
  BY <1>1, <1>2, <1>3 DEF SpaceFrames, Plain
<1>5. s.tables \in Tables /\ s.leaf \in Leaves
  BY DEF SpaceSet
<1>6. IsFiniteSet(T) /\ IsFiniteSet(P) /\ IsFiniteSet(C)
  BY <1>4, PagesFinite, FS_Subset
<1>7. Cardinality(T) = Cardinality(DOMAIN s.tables)
  BY <1>1, <1>5, TablesCounted
<1>8. Cardinality(P) = Cardinality(Plain(s))
  BY <1>2, <1>4, <1>5, PlainCounted
<1>9. Cardinality(C) = 1
  BY <1>3, FS_Singleton
<1>10. C \cap T = {} /\ (C \cup T) \cap P = {}
  <2>1. \A t \in DOMAIN s.tables : s.tables[t] # s.cr3
    BY DEF OwnOnce
  <2>2. \A v \in Plain(s) : s.leaf[v].frame # s.cr3 /\ \A t \in DOMAIN s.tables : s.tables[t] # s.leaf[v].frame
    BY DEF OwnOnce
  <2> QED BY <1>1, <1>2, <1>3, <2>1, <2>2
<1>11. Cardinality({}) = 0
  BY FS_EmptySet
<1>12. Cardinality(C) \in Nat /\ Cardinality(T) \in Nat /\ Cardinality(P) \in Nat
  BY <1>6, FS_CardinalityType
<1>13. IsFiniteSet(C \cup T) /\ Cardinality(C \cup T) = Cardinality(C) + Cardinality(T)
  <2>1. IsFiniteSet(C \cup T) /\ Cardinality(C \cup T) = Cardinality(C) + Cardinality(T) - 0
    BY <1>6, <1>10, <1>11, FS_Union
  <2> QED BY <1>12, <2>1
<1>14. Cardinality(C \cup T \cup P) = Cardinality(C) + Cardinality(T) + Cardinality(P)
  <2>1. Cardinality((C \cup T) \cup P) = Cardinality(C \cup T) + Cardinality(P) - 0
    BY <1>6, <1>10, <1>11, <1>13, FS_Union
  <2> QED BY <1>12, <1>13, <2>1
<1> QED BY <1>4, <1>7, <1>8, <1>9, <1>12, <1>14 DEF Plain

LEMMA OwnersExclusive == Inv => FramesExclusive
<1>1. SUFFICES ASSUME Inv PROVE FramesExclusive
  OBVIOUS
<1>2. Owned /\ pmm.bits \subseteq Pages
  BY <1>1 DEF Inv, Owned, PmmOK
<1>3. ASSUME NEW p \in Alive
      PROVE  LET s == space[p] IN
             /\ Cardinality(SpaceFrames(s)) = 1 + Cardinality(DOMAIN s.tables)
                                                + Cardinality({v \in DOMAIN s.leaf : ~s.leaf[v].mmio})
             /\ SpaceFrames(s) \subseteq pmm.bits \ kern
  <2>1. PICK s : s = space[p]
    OBVIOUS
  <2>2. s \in SpaceSet
    BY <1>1, <2>1 DEF Inv, Shape, Alive
  <2>3. OwnOnce(s) /\ SpaceFrames(s) \subseteq pmm.bits \ kern /\ SpaceFrames(s) \subseteq Pages
    BY <1>2, <2>1 DEF Owned
  <2> QED BY <2>1, <2>2, <2>3, OnceCounted
<1> QED BY <1>2, <1>3 DEF FramesExclusive, Owned

LEMMA TypesRight == Inv /\ LowRegions => TypeOK
<1>1. SUFFICES ASSUME Inv, LowRegions PROVE TypeOK
  OBVIOUS
<1>2. Shape /\ Owned /\ Idle
  BY <1>1 DEF Inv
<1>3. pmm.bits \subseteq Pages /\ pmm.used \in 0 .. Total
  <2>1. pmm.bits \in SUBSET Pages /\ pmm.used = Cardinality(pmm.bits)
    BY <1>2 DEF Owned, PmmOK
  <2>2. Cardinality(pmm.bits) <= Cardinality(Pages) /\ Cardinality(pmm.bits) \in Nat
    BY <2>1, PagesFinite, FS_Subset, FS_CardinalityType
  <2> QED BY <2>1, <2>2, PagesFinite, TotalNat
<1>4. ASSUME NEW p \in Procs
      PROVE  /\ status[p] # "none" => space[p].cr3 \in Pages \ {0}
             /\ \A t \in DOMAIN space[p].tables : t[1] \in 1 .. Levels - 1 /\ space[p].tables[t] \in Pages
             /\ \A va \in DOMAIN space[p].leaf : va \in UserBase .. KernelBase - 1
             /\ Len(umap[p]) <= UmapMax /\ heap[p] \in 0 .. Len(umap[p])
  <2>1. PICK s, u : s = space[p] /\ u = umap[p]
    OBVIOUS
  <2>2. s \in SpaceSet /\ u \in Seq(Region)
    BY <1>2, <2>1 DEF Shape
  <2>3. s.cr3 \in Pages /\ s.tables \in Tables /\ s.leaf \in Leaves
    BY <2>2 DEF SpaceSet
  <2>4. ASSUME NEW t \in DOMAIN s.tables PROVE t[1] \in 1 .. Levels - 1 /\ s.tables[t] \in Pages
    <3>1. t \in Names /\ s.tables[t] \in Pages
      BY <2>3, <2>4, TableType
    <3> QED BY <3>1 DEF Names, Table
  <2>5. CASE status[p] = "none"
    <3>1. s = NoSpace /\ u = << >> /\ heap[p] = 0
      BY <1>2, <2>1, <2>5 DEF Idle
    <3>2. DOMAIN s.leaf = {} /\ Len(u) = 0
      BY <3>1, NoSpaceOK
    <3> QED BY <2>1, <2>4, <2>5, <3>1, <3>2, SizesAssumption
  <2>6. CASE status[p] # "none"
    <3>1. p \in Alive
      BY <2>6 DEF Alive
    <3>2. RegionsOK(u, heap[p], s) /\ Top(u) <= DevBase
      BY <1>1, <2>1, <3>1 DEF Inv, LowRegions
    <3>3. Len(u) \in 1 .. UmapMax /\ heap[p] \in {0, Len(u)}
      BY <3>2 DEF RegionsOK
    <3>4. Top(u) \in Nat
      BY <2>2, <3>3, TopOK
    <3>5. ASSUME NEW v \in DOMAIN s.leaf PROVE v \in UserBase .. KernelBase - 1
      <4>1. v \in Nat
        BY <2>3, <3>5, LeafType
      <4>2. (v >= UserBase /\ v < Top(u)) \/ (v >= DevBase /\ v < KernelBase)
        BY <3>2, <3>5 DEF RegionsOK
      <4> QED BY <3>2, <3>4, <4>1, <4>2, VaAssumption
    <3>6. s.cr3 # 0
      <4>1. s.cr3 \in SpaceFrames(s)
        BY FrameOf
      <4>2. SpaceFrames(s) \subseteq pmm.bits \ kern /\ 0 \in kern
        BY <1>2, <2>1, <3>1 DEF Owned
      <4> QED BY <4>1, <4>2
    <3> QED BY <2>1, <2>3, <2>4, <3>3, <3>5, <3>6, SizesAssumption
  <2> QED BY <2>5, <2>6
<1> QED BY <1>2, <1>3, <1>4 DEF TypeOK, Shape
-----------------------------------------------------------------------------
(* A step that works on the space of p alone *)

Others(p) == kern \cup UNION {SpaceFrames(space[q]) : q \in Alive \ {p}}

\* p's space becomes the one of r
Replaces(p, r) ==
  /\ Sound(r) /\ Others(p) \subseteq Rest(r)
  /\ pmm' = r.pmm /\ kern' = kern /\ booted' = booted
  /\ space' = [space EXCEPT ![p] = SpaceOf(r)]
  /\ status' = [status EXCEPT ![p] = "live"]

LEMMA OthersFrames ==
  ASSUME NEW p, NEW q \in Alive, q # p
  PROVE  SpaceFrames(space[q]) \subseteq Others(p)
BY DEF Others

LEMMA SpaceOfOK ==
  ASSUME NEW r, Sound(r)
  PROVE  /\ SpaceOf(r) \in SpaceSet /\ SpaceFrames(SpaceOf(r)) = SpaceFrames(r) /\ OwnOnce(SpaceOf(r))
         /\ SpaceOf(r).leaf = r.leaf /\ SpaceOf(r).tables = r.tables
<1>1. PICK s : s = SpaceOf(r)
  OBVIOUS
<1>2. s.cr3 = r.cr3 /\ s.tables = r.tables /\ s.leaf = r.leaf
  BY <1>1 DEF SpaceOf
<1>3. s \in SpaceSet
  BY <1>1 DEF SpaceOf, Sound, WorkSet, SpaceSet
<1>4. SpaceFrames(s) = SpaceFrames(r) /\ OwnOnce(s)
  BY <1>2, SameFrames DEF Sound
<1> QED BY <1>1, <1>2, <1>3, <1>4

\* The pages of p are its own afterwards, and everybody else keeps theirs
LEMMA ReplacesOwned ==
  ASSUME Inv, NEW p \in Procs, NEW r, Replaces(p, r)
  PROVE  /\ Owned' /\ Alive' = Alive \cup {p}
         /\ space' \in [Procs -> SpaceSet] /\ status' \in [Procs -> {"none", "live", "dead"}]
         /\ space'[p] = SpaceOf(r) /\ \A q \in Procs : q # p => space'[q] = space[q] /\ status'[q] = status[q]
<1>1. Shape /\ Owned
  BY DEF Inv
<1>2. /\ SpaceOf(r) \in SpaceSet /\ SpaceFrames(SpaceOf(r)) = SpaceFrames(r) /\ OwnOnce(SpaceOf(r))
  BY SpaceOfOK DEF Replaces
<1>3. /\ space' = [space EXCEPT ![p] = SpaceOf(r)] /\ status' = [status EXCEPT ![p] = "live"]
      /\ space \in [Procs -> SpaceSet] /\ status \in [Procs -> {"none", "live", "dead"}]
  BY <1>1 DEF Replaces, Shape
<1>4. /\ space'[p] = SpaceOf(r) /\ \A q \in Procs : q # p => space'[q] = space[q] /\ status'[q] = status[q]
      /\ status'[p] = "live" /\ space' \in [Procs -> SpaceSet] /\ status' \in [Procs -> {"none", "live", "dead"}]
  BY <1>2, <1>3
<1>5. Alive' = Alive \cup {p}
  BY <1>4 DEF Alive
<1>6. PmmOK(pmm') /\ 0 \in kern' /\ kern' \subseteq pmm'.bits
  BY <1>1 DEF Replaces, Sound, Owned, Others, Rest
<1>7. SpaceFrames(r) \subseteq pmm'.bits /\ SpaceFrames(r) \cap Others(p) = {} /\ kern \subseteq Others(p) /\ Others(p) \subseteq pmm'.bits
  BY DEF Replaces, Sound, Rest, Others
<1>8. ASSUME NEW q \in Alive' PROVE OwnOnce(space'[q]) /\ SpaceFrames(space'[q]) \subseteq pmm'.bits \ kern'
  <2>1. CASE q = p
    BY <1>2, <1>4, <1>7, <2>1 DEF Replaces
  <2>2. CASE q # p
    <3>1. q \in Alive /\ q \in Procs /\ space'[q] = space[q]
      BY <1>4, <1>5, <1>8, <2>2 DEF Alive
    <3>2. SpaceFrames(space[q]) \subseteq Others(p)
      BY <2>2, <3>1, OthersFrames
    <3>3. OwnOnce(space[q]) /\ SpaceFrames(space[q]) \cap kern = {}
      BY <1>1, <3>1 DEF Owned
    <3> QED BY <1>7, <3>1, <3>2, <3>3 DEF Replaces
  <2> QED BY <2>1, <2>2
<1>9. ASSUME NEW q1 \in Alive', NEW q2 \in Alive', q1 # q2
      PROVE  SpaceFrames(space'[q1]) \cap SpaceFrames(space'[q2]) = {}
  <2>1. ASSUME NEW q \in Alive', q # p PROVE q \in Alive /\ space'[q] = space[q] /\ SpaceFrames(space[q]) \subseteq Others(p)
    <3>1. q \in Alive /\ q \in Procs /\ space'[q] = space[q]
      BY <1>4, <1>5, <2>1 DEF Alive
    <3> QED BY <2>1, <3>1, OthersFrames
  <2>2. CASE q1 = p
    BY <1>2, <1>4, <1>7, <1>9, <2>1, <2>2
  <2>3. CASE q2 = p
    BY <1>2, <1>4, <1>7, <1>9, <2>1, <2>3
  <2>4. CASE q1 # p /\ q2 # p
    BY <1>1, <1>9, <2>1, <2>4 DEF Owned
  <2> QED BY <2>2, <2>3, <2>4
<1>10. Owned'
  BY <1>6, <1>8, <1>9 DEF Owned
<1> QED BY <1>4, <1>5, <1>10

\* The pages nobody owns afterwards
LEMMA ReplacesOrphans ==
  ASSUME Inv, NEW p \in Procs, NEW r, Replaces(p, r)
  PROVE  Orphans' = Rest(r) \ Others(p)
<1>1. /\ Alive' = Alive \cup {p} /\ space'[p] = SpaceOf(r)
      /\ \A q \in Procs : q # p => space'[q] = space[q]
  BY ReplacesOwned
<1>2. SpaceFrames(space'[p]) = SpaceFrames(r)
  BY <1>1, SpaceOfOK DEF Replaces
<1>3. \A q \in Alive : q \in Procs
  BY DEF Alive
<1>4. PICK U : U = UNION {SpaceFrames(space'[q]) : q \in Alive'}
  OBVIOUS
<1>5. PICK V : V = UNION {SpaceFrames(space[q]) : q \in Alive \ {p}}
  OBVIOUS
<1>6. U = SpaceFrames(r) \cup V
  <2>1. ASSUME NEW x \in U PROVE x \in SpaceFrames(r) \cup V
    <3>1. PICK q \in Alive' : x \in SpaceFrames(space'[q])
      BY <1>4, <2>1
    <3> QED BY <1>1, <1>2, <1>3, <1>5, <3>1
  <2>2. ASSUME NEW x \in SpaceFrames(r) PROVE x \in U
    BY <1>1, <1>2, <1>4, <2>2
  <2>3. ASSUME NEW x \in V PROVE x \in U
    <3>1. PICK q \in Alive \ {p} : x \in SpaceFrames(space[q])
      BY <1>5, <2>3
    <3> QED BY <1>1, <1>3, <1>4, <3>1
  <2> QED BY <2>1, <2>2, <2>3
<1>7. Orphans' = pmm'.bits \ (kern' \cup U)
  BY <1>4 DEF Orphans
<1>8. Others(p) = kern \cup V
  BY <1>5 DEF Others
<1>9. pmm'.bits = r.pmm.bits /\ kern' = kern
  BY DEF Replaces
<1> QED BY <1>6, <1>7, <1>8, <1>9 DEF Rest

\* The ones before, seen from p
LEMMA OrphansAlive ==
  ASSUME NEW p \in Alive
  PROVE  Orphans = (pmm.bits \ SpaceFrames(space[p])) \ Others(p)
<1>1. PICK V : V = UNION {SpaceFrames(space[q]) : q \in Alive \ {p}}
  OBVIOUS
<1>2. PICK U : U = UNION {SpaceFrames(space[q]) : q \in Alive}
  OBVIOUS
<1>3. U = SpaceFrames(space[p]) \cup V
  BY <1>1, <1>2
<1>4. Orphans = pmm.bits \ (kern \cup U) /\ Others(p) = kern \cup V
  BY <1>1, <1>2 DEF Orphans, Others
<1> QED BY <1>3, <1>4

LEMMA OrphansNone ==
  ASSUME NEW p, p \notin Alive
  PROVE  Orphans = pmm.bits \ Others(p)
<1>1. Alive \ {p} = Alive
  OBVIOUS
<1> QED BY <1>1 DEF Orphans, Others

\* p's own space, taken up for work
LEMMA WorkSound ==
  ASSUME Inv, NEW p \in Alive
  PROVE  /\ Sound(Work(pmm, space[p], 0)) /\ Others(p) \subseteq Rest(Work(pmm, space[p], 0))
         /\ Rest(Work(pmm, space[p], 0)) = pmm.bits \ SpaceFrames(space[p])
         /\ Work(pmm, space[p], 0).leaf = space[p].leaf /\ Work(pmm, space[p], 0).tables = space[p].tables
         /\ Work(pmm, space[p], 0).done = 0 /\ Work(pmm, space[p], 0).ok
<1>1. PICK s, w : s = space[p] /\ w = Work(pmm, space[p], 0)
  OBVIOUS
<1>2. s \in SpaceSet /\ Owned /\ PmmOK(pmm) /\ pmm \in Bitmaps
  BY <1>1 DEF Inv, Shape, Alive, Owned, PmmOK, Bitmaps
<1>3. w = [pmm |-> pmm, cr3 |-> s.cr3, tables |-> s.tables, leaf |-> s.leaf,
           ok |-> TRUE, ignored |-> FALSE, err |-> 0, done |-> 0]
  BY <1>1 DEF Work
<1>4. /\ w \in WorkSet /\ w.pmm = pmm /\ w.cr3 = s.cr3 /\ w.tables = s.tables /\ w.leaf = s.leaf
      /\ w.done = 0 /\ w.ok
  BY <1>2, <1>3 DEF WorkSet, SpaceSet
<1>5. SpaceFrames(w) = SpaceFrames(s) /\ (OwnOnce(s) => OwnOnce(w))
  BY <1>4, SameFrames
<1>6. OwnOnce(s) /\ SpaceFrames(s) \subseteq pmm.bits \ kern /\ 0 \in kern /\ kern \subseteq pmm.bits
  BY <1>1, <1>2 DEF Owned
<1>7. Sound(w) /\ Rest(w) = pmm.bits \ SpaceFrames(s)
  BY <1>2, <1>4, <1>5, <1>6 DEF Sound, Rest
<1>8. Others(p) \subseteq pmm.bits \ SpaceFrames(s)
  <2>1. ASSUME NEW x \in Others(p) PROVE x \in pmm.bits \ SpaceFrames(s)
    <3>1. CASE x \in kern
      BY <1>6, <3>1
    <3>2. CASE x \notin kern
      <4>1. PICK q \in Alive \ {p} : x \in SpaceFrames(space[q])
        BY <2>1, <3>2 DEF Others
      <4> QED BY <1>1, <1>2, <4>1 DEF Owned
    <3> QED BY <3>1, <3>2
  <2> QED BY <2>1
<1> QED BY <1>1, <1>4, <1>7, <1>8

LEMMA OthersMarked ==
  ASSUME Inv, NEW p
  PROVE  Others(p) \subseteq pmm.bits
<1>1. Owned
  BY DEF Inv
<1>2. ASSUME NEW x \in Others(p) PROVE x \in pmm.bits
  <2>1. CASE x \in kern
    BY <1>1, <2>1 DEF Owned
  <2>2. CASE x \notin kern
    <3>1. PICK q \in Alive \ {p} : x \in SpaceFrames(space[q])
      BY <1>2, <2>2 DEF Others
    <3> QED BY <1>1, <3>1 DEF Owned
  <2> QED BY <2>1, <2>2
<1> QED BY <1>2

\* The regions of p afterwards
Sites(p, u, h, r) ==
  /\ umap' = [umap EXCEPT ![p] = u] /\ heap' = [heap EXCEPT ![p] = h]
  /\ u \in Seq(Region) /\ h \in Nat /\ devUsed' \in [Procs -> Nat]
  /\ RegionsOK(u, h, r)
  /\ booted

LEMMA ReplacesInv ==
  ASSUME Inv, NEW p \in Procs, NEW r, Replaces(p, r), NEW u, NEW h, Sites(p, u, h, r)
  PROVE  Inv' /\ (LowRegions /\ Top(u) <= DevBase => LowRegions')
<1>1. /\ Owned' /\ Alive' = Alive \cup {p}
      /\ space' \in [Procs -> SpaceSet] /\ status' \in [Procs -> {"none", "live", "dead"}]
      /\ space'[p] = SpaceOf(r) /\ \A q \in Procs : q # p => space'[q] = space[q] /\ status'[q] = status[q]
  BY ReplacesOwned
<1>2. Shape /\ Idle
  BY DEF Inv
<1>3. /\ umap' \in [Procs -> Seq(Region)] /\ heap' \in [Procs -> Nat] /\ umap'[p] = u /\ heap'[p] = h
      /\ \A q \in Procs : q # p => umap'[q] = umap[q] /\ heap'[q] = heap[q]
  BY <1>2 DEF Shape, Sites
<1>4. Shape'
  BY <1>1, <1>2, <1>3 DEF Shape, Replaces, Sites
<1>5. Idle'
  <2>1. ASSUME NEW q \in Procs, status'[q] = "none" PROVE space'[q] = NoSpace /\ umap'[q] = << >> /\ heap'[q] = 0
    <3>1. q # p
      BY <1>2, <2>1 DEF Replaces, Shape
    <3> QED BY <1>1, <1>2, <1>3, <2>1, <3>1 DEF Idle
  <2> QED BY <2>1 DEF Idle
<1>6. ASSUME NEW q \in Alive' PROVE RegionsOK(umap'[q], heap'[q], space'[q])
  <2>1. CASE q = p
    <3>1. SpaceOf(r).leaf = r.leaf
      BY SpaceOfOK DEF Replaces
    <3> QED BY <1>1, <1>3, <2>1, <3>1 DEF Sites, RegionsOK
  <2>2. CASE q # p
    <3>1. q \in Alive /\ q \in Procs
      BY <1>1, <1>6, <2>2 DEF Alive
    <3> QED BY <1>1, <1>3, <2>2, <3>1 DEF Inv
  <2> QED BY <2>1, <2>2
<1>7. ASSUME LowRegions, Top(u) <= DevBase, NEW q \in Alive' PROVE Top(umap'[q]) <= DevBase
  <2>1. CASE q = p
    BY <1>3, <1>7, <2>1
  <2>2. CASE q # p
    <3>1. q \in Alive /\ q \in Procs
      BY <1>1, <1>7, <2>2 DEF Alive
    <3> QED BY <1>3, <1>7, <2>2, <3>1 DEF LowRegions
  <2> QED BY <2>1, <2>2
<1>8. booted'
  BY DEF Replaces, Sites
<1>9. Inv'
  BY <1>1, <1>4, <1>5, <1>6, <1>8 DEF Inv
<1> QED BY <1>7, <1>9 DEF LowRegions
-----------------------------------------------------------------------------
(* SYS_MMAP *)

LEMMA TopIs ==
  ASSUME NEW g \in Seq(Region), NEW k \in 1 .. Len(g), NEW t, t = g[k].base + g[k].pages,
         \A i \in 1 .. Len(g) : g[i].base + g[i].pages <= t
  PROVE  Top(g) = t
<1>1. Len(g) > 0
  OBVIOUS
<1>2. /\ Top(g) \in Nat
      /\ \A i \in 1 .. Len(g) : g[i].base + g[i].pages <= Top(g)
      /\ \E i \in 1 .. Len(g) : Top(g) = g[i].base + g[i].pages
  BY <1>1, TopOK
<1>3. t \in Nat
  <2>1. g[k] \in Region
    BY ElementOfSeq
  <2> QED BY <2>1 DEF Region
<1>4. t <= Top(g) /\ Top(g) <= t
  BY <1>2
<1> QED BY <1>2, <1>3, <1>4

\* The heap has grown by n pages at b
GrownTo(u, h, b, n, g, k) ==
  /\ b >= Top(u)
  /\ g \in Seq(Region) /\ Len(g) \in 1 .. UmapMax /\ k = Len(g)
  /\ Top(g) = b + n /\ g[k].base + g[k].pages = b + n
  /\ g[k].base \in Nat /\ g[k].base <= b
  /\ \A v \in Area(g[k]) : v < b => h # 0 /\ v \in Area(u[h])
  /\ \A i \in 1 .. Len(g) : \A v \in Area(g[i]) :
       v \in Run(b, n) \/ \E j \in 1 .. Len(u) : v \in Area(u[j])

\* A run of m + n frames is a run of m with one of n after it
LEMMA RunSplits ==
  ASSUME NEW c \in Nat, NEW m \in Nat, NEW n \in Nat, NEW v \in Run(c, m + n)
  PROVE  /\ v \in Run(c + m, n) \/ v < c + m
         /\ v < c + m => v \in Run(c, m)
<1>1. v \in Int /\ c <= v /\ v <= c + (m + n) - 1
  BY DEF Run
<1>2. v < c + m => v \in Run(c, m)
  BY <1>1 DEF Run
<1>3. v >= c + m => v \in Run(c + m, n)
  BY <1>1 DEF Run
<1>4. v < c + m \/ v >= c + m
  BY <1>1
<1> QED BY <1>2, <1>3, <1>4

LEMMA GrowOld ==
  ASSUME NEW u \in Seq(Region), Len(u) \in 1 .. UmapMax, NEW h, h = Len(u), Top(u) = u[h].base + u[h].pages,
         NEW n \in Nat
  PROVE  GrownTo(u, h, u[h].base + u[h].pages, n, [u EXCEPT ![h].pages = @ + n], h)
<1>1. PICK g : g = [u EXCEPT ![h].pages = @ + n]
  OBVIOUS
<1>2. h \in 1 .. Len(u) /\ h \in Nat /\ Len(u) > 0 /\ UmapMax \in Nat
  BY SizesAssumption
<1>3. PICK c, m : c = u[h].base /\ m = u[h].pages /\ c \in Nat /\ m \in Nat /\ u[h] \in Region
  <2>1. u[h] \in Region
    BY <1>2, ElementOfSeq
  <2> QED BY <2>1 DEF Region
<1>4. \A i \in 1 .. Len(u) : u[i] \in Region
  BY ElementOfSeq
<1>5. PICK x : x = [u[h] EXCEPT !.pages = m + n]
  OBVIOUS
<1>6. x \in Region /\ x.base = c /\ x.pages = m + n
  BY <1>3, <1>5 DEF Region
<1>7. g = [u EXCEPT ![h] = x]
  BY <1>1, <1>2, <1>3, <1>5
<1>8. g \in Seq(Region) /\ Len(g) = Len(u) /\ g[h] = x /\ \A i \in 1 .. Len(u) : i # h => g[i] = u[i]
  BY <1>2, <1>6, <1>7
<1>9. \A i \in 1 .. Len(u) : u[i].base + u[i].pages <= c + m /\ u[i].base \in Nat /\ u[i].pages \in Nat
  BY <1>2, <1>3, <1>4, TopOK DEF Region
<1>10. Top(g) = c + m + n
  <2>1. ASSUME NEW i \in 1 .. Len(g) PROVE g[i].base + g[i].pages <= c + m + n
    <3>1. CASE i = h
      BY <1>3, <1>6, <1>8, <3>1
    <3>2. CASE i # h
      <4>1. u[i].base + u[i].pages <= c + m /\ u[i].base \in Nat /\ u[i].pages \in Nat /\ g[i] = u[i]
        BY <1>8, <1>9, <2>1, <3>2
      <4>2. PICK y \in Nat : y = u[i].base + u[i].pages /\ y <= c + m
        BY <4>1
      <4>3. y <= c + m + n
        BY <1>3, <4>2
      <4> QED BY <4>1, <4>2, <4>3
    <3> QED BY <3>1, <3>2
  <2>2. g[h].base + g[h].pages = c + m + n /\ h \in 1 .. Len(g)
    BY <1>2, <1>3, <1>6, <1>8
  <2> QED BY <1>8, <2>1, <2>2, TopIs
<1>11. /\ Area(g[h]) = Run(c, m + n) /\ Area(u[h]) = Run(c, m)
       /\ \A v \in Area(g[h]) : /\ v \in Run(c + m, n) \/ v < c + m
                                /\ v < c + m => v \in Area(u[h])
  <2>1. Area(g[h]) = Run(c, m + n) /\ Area(u[h]) = Run(c, m)
    BY <1>3, <1>6, <1>8 DEF Area
  <2> QED BY <1>3, <2>1, RunSplits
<1>12. ASSUME NEW i \in 1 .. Len(g), NEW v \in Area(g[i])
       PROVE  v \in Run(c + m, n) \/ \E j \in 1 .. Len(u) : v \in Area(u[j])
  <2>1. CASE i # h
    BY <1>8, <1>12, <2>1
  <2>2. CASE i = h
    <3>1. v \in Area(g[h])
      BY <1>12, <2>2
    <3>2. v \in Run(c + m, n) \/ v \in Area(u[h])
      BY <1>11, <3>1
    <3> QED BY <1>2, <3>2
  <2> QED BY <2>1, <2>2
<1>13. c + m >= Top(u) /\ g[h].base \in Nat /\ g[h].base <= c + m /\ g[h].base + g[h].pages = c + m + n
  BY <1>3, <1>6, <1>8
<1>14. h # 0
  BY <1>2
<1>15. GrownTo(u, h, c + m, n, g, h)
  BY <1>8, <1>10, <1>11, <1>12, <1>13, <1>14 DEF GrownTo
<1> QED BY <1>1, <1>3, <1>15

LEMMA GrowNew ==
  ASSUME NEW u \in Seq(Region), Len(u) \in 1 .. UmapMax, ~(Len(u) >= UmapMax), NEW n \in Nat
  PROVE  GrownTo(u, 0, Top(u) + Guard, n, Append(u, [base |-> Top(u) + Guard, pages |-> n]), Len(u) + 1)
<1>1. PICK t \in Nat : t = Top(u) /\ \A i \in 1 .. Len(u) : u[i].base + u[i].pages <= t
  BY TopOK
<1>2. PICK b \in Nat : b = t + Guard /\ b >= t
  <2>1. Guard \in Nat
    BY SizesAssumption
  <2>2. t + Guard \in Nat /\ t + Guard >= t
    BY <2>1
  <2> QED BY <2>2
<1>3. PICK x : x = [base |-> b, pages |-> n]
  OBVIOUS
<1>4. x \in Region /\ x.base = b /\ x.pages = n
  BY <1>3 DEF Region
<1>5. PICK g, k : g = Append(u, x) /\ k = Len(u) + 1
  OBVIOUS
<1>6. /\ g \in Seq(Region) /\ Len(g) = k /\ k \in Nat /\ g[k] = x /\ \A i \in 1 .. Len(u) : g[i] = u[i]
      /\ k \in 1 .. Len(g) /\ \A i \in 1 .. Len(g) : i = k \/ i \in 1 .. Len(u)
  BY <1>4, <1>5
<1>7. Len(g) \in 1 .. UmapMax
  BY <1>5, <1>6, SizesAssumption
<1>8. \A i \in 1 .. Len(u) : u[i] \in Region
  BY ElementOfSeq
<1>9. ASSUME NEW i \in 1 .. Len(g) PROVE g[i].base + g[i].pages <= b + n
  <2>1. CASE i = k
    BY <1>4, <1>6, <2>1
  <2>2. CASE i # k
    <3>1. g[i] = u[i] /\ u[i].base \in Nat /\ u[i].pages \in Nat /\ u[i].base + u[i].pages <= t
      BY <1>1, <1>6, <1>8, <1>9, <2>2 DEF Region
    <3> QED BY <1>2, <3>1
  <2> QED BY <2>1, <2>2
<1>10. Top(g) = b + n
  <2>1. b + n = g[k].base + g[k].pages
    BY <1>4, <1>6
  <2> QED BY <1>6, <1>9, <2>1, TopIs
<1>11. Area(g[k]) = Run(b, n)
  BY <1>4, <1>6 DEF Area
<1>12. \A v \in Area(g[k]) : ~(v < b)
  BY <1>11 DEF Run
<1>13. \A i \in 1 .. Len(g) : \A v \in Area(g[i]) : v \in Run(b, n) \/ \E j \in 1 .. Len(u) : v \in Area(u[j])
  BY <1>6, <1>11
<1>14. GrownTo(u, 0, b, n, g, k)
  BY <1>1, <1>2, <1>4, <1>6, <1>7, <1>10, <1>12, <1>13 DEF GrownTo
<1> QED BY <1>1, <1>2, <1>3, <1>5, <1>14

\* What SYS_MMAP makes of the space (r), the regions (u) and the heap (h) of p
MmapOutcome(p, n, r, u, h) ==
  /\ Replaces(p, r) /\ Rest(r) = Rest(Work(pmm, space[p], 0))
  /\ DOMAIN space[p].tables \subseteq DOMAIN r.tables
  /\ umap' = [umap EXCEPT ![p] = u] /\ heap' = [heap EXCEPT ![p] = h]
  /\ \/ r.leaf = space[p].leaf /\ u = umap[p] /\ h = heap[p] /\ ret'.code = -1
     \/ /\ DOMAIN r.leaf = DOMAIN space[p].leaf \cup Run(MmapBase(p), n)
        /\ \A v \in DOMAIN space[p].leaf : r.leaf[v] = space[p].leaf[v]
        /\ \A v \in Run(MmapBase(p), n) : Mapped(r, v) /\ v \notin DOMAIN space[p].leaf
        /\ GrownTo(umap[p], heap[p], MmapBase(p), n, u, h)
        /\ ret'.code = MmapBase(p)

LEMMA BaseOK ==
  ASSUME Inv, NEW p \in Alive
  PROVE  MmapBase(p) \in Nat /\ MmapBase(p) >= Top(umap[p]) /\ Top(umap[p]) \in Nat
<1>1. PICK u, h : u = umap[p] /\ h = heap[p]
  OBVIOUS
<1>2. RegionsOK(u, h, space[p]) /\ u \in Seq(Region)
  BY <1>1 DEF Inv, Shape, Alive
<1>3. Len(u) > 0 /\ (h # 0 => Top(u) = u[h].base + u[h].pages)
  BY <1>2 DEF RegionsOK
<1>4. PICK t \in Nat : t = Top(u)
  BY <1>2, <1>3, TopOK
<1>5. Guard \in Nat
  BY SizesAssumption
<1>6. MmapBase(p) = IF h # 0 THEN t ELSE t + Guard
  BY <1>1, <1>3, <1>4 DEF MmapBase
<1> QED BY <1>1, <1>4, <1>5, <1>6

\* Above the top and below the device pages nothing is mapped
LEMMA AboveTop ==
  ASSUME Inv, NEW p \in Alive, NEW b \in Nat, NEW n \in Nat, b >= Top(umap[p]), b + n <= DevBase
  PROVE  Run(b, n) \cap DOMAIN space[p].leaf = {}
<1>1. RegionsOK(umap[p], heap[p], space[p]) /\ Top(umap[p]) \in Nat /\ DevBase \in Nat
  BY BaseOK, VaAssumption DEF Inv
<1>2. ASSUME NEW v \in Run(b, n), v \in DOMAIN space[p].leaf PROVE FALSE
  <2>1. v \in Nat /\ v >= b /\ v < b + n
    BY <1>2 DEF Run
  <2>2. v < Top(umap[p]) \/ v >= DevBase
    BY <1>1, <1>2 DEF RegionsOK
  <2> QED BY <1>1, <2>1, <2>2
<1> QED BY <1>2

LEMMA SameLeaves ==
  ASSUME NEW f \in Leaves, NEW g \in Leaves, DOMAIN f = DOMAIN g, \A v \in DOMAIN f : f[v] = g[v]
  PROVE  f = g
<1>1. PICK D \in SUBSET Nat : f \in [D -> Leaf]
  BY DEF Leaves
<1>2. PICK E \in SUBSET Nat : g \in [E -> Leaf]
  BY DEF Leaves
<1>3. D = E /\ f = [v \in D |-> f[v]] /\ g = [v \in E |-> g[v]] /\ DOMAIN f = D
  BY <1>1, <1>2
<1>4. \A v \in D : f[v] = g[v]
  BY <1>3
<1>5. [v \in D |-> f[v]] = [v \in D |-> g[v]]
  BY <1>4
<1> QED BY <1>3, <1>5

LEMMA MmapResult ==
  ASSUME Inv, NEW p \in Procs, NEW n \in Nat \ {0}, SysMmap(p, n), ~(n > MmapMax \/ UmapFull(p))
  PROVE  \E r, u, h : MmapOutcome(p, n, r, u, h)
<1>1. p \in Alive /\ status[p] = "live" /\ status' = status /\ kern' = kern /\ booted' = booted /\ status = [status EXCEPT ![p] = "live"]
  BY DEF SysMmap, Alive, Inv, Shape
<1>2. PICK b \in Nat : b = MmapBase(p) /\ b >= Top(umap[p])
  BY <1>1, BaseOK
<1>3. b + n <= DevBase
  BY <1>2 DEF SysMmap
<1>4. PICK a : a = Work(pmm, space[p], 0)
  OBVIOUS
<1>5. /\ Sound(a) /\ Others(p) \subseteq Rest(a) /\ a.leaf = space[p].leaf /\ a.tables = space[p].tables /\ a.done = 0
  BY <1>1, <1>4, WorkSound
<1>6. PICK w : w = MmapPages(a, b, n)
  OBVIOUS
<1>7. MmapGot(a, b, n, n, w)
  BY <1>5, <1>6, MmapPagesOK
<1>8. Run(b, n) \cap DOMAIN a.leaf = {}
  BY <1>1, <1>2, <1>3, <1>5, AboveTop
<1>9. Rest(w) = Rest(a) /\ Sound(w) /\ DOMAIN a.tables \subseteq DOMAIN w.tables /\ w.done \in 0 .. n
  BY <1>7, <1>8 DEF MmapGot, SameSpace
<1>10. PICK g : g = Grown(p, n, w.ok)
  OBVIOUS
<1>11. PICK h : h = IF w.ok /\ heap[p] = 0 THEN Len(g) ELSE heap[p]
  OBVIOUS
<1>12. PICK r : r = IF w.ok THEN w ELSE Rollback(w, b)
  OBVIOUS
<1>13. umap \in [Procs -> Seq(Region)] /\ heap \in [Procs -> Nat]
  BY DEF Inv, Shape
<1>14. umap' = [umap EXCEPT ![p] = g] /\ umap'[p] = g
  BY <1>2, <1>4, <1>6, <1>10, <1>13 DEF SysMmap
<1>15. pmm' = r.pmm /\ space' = [space EXCEPT ![p] = SpaceOf(r)]
  BY <1>2, <1>4, <1>6, <1>12 DEF SysMmap
<1>16. heap' = [heap EXCEPT ![p] = h]
  BY <1>2, <1>4, <1>6, <1>11, <1>13, <1>14 DEF SysMmap
<1>17. ret' = Ret("mmap", p, IF ~w.ok THEN -1 ELSE b)
  BY <1>2, <1>4, <1>6 DEF SysMmap
<1>18. ret'.code = IF ~w.ok THEN -1 ELSE b
  BY <1>17 DEF Ret
<1>19. CASE w.ok
  <2>1. r = w /\ w.done = n
    BY <1>7, <1>12, <1>19 DEF MmapGot
  <2>2. Replaces(p, r)
    BY <1>1, <1>5, <1>9, <1>15, <2>1 DEF Replaces
  <2>3. /\ DOMAIN r.leaf = DOMAIN space[p].leaf \cup Run(b, n)
        /\ \A v \in DOMAIN space[p].leaf : r.leaf[v] = space[p].leaf[v]
        /\ \A v \in Run(b, n) : Mapped(r, v) /\ v \notin DOMAIN space[p].leaf
    BY <1>5, <1>7, <1>8, <2>1 DEF MmapGot
  <2>4. PICK u : u = umap[p]
    OBVIOUS
  <2>5. u \in Seq(Region) /\ Len(u) \in 1 .. UmapMax /\ heap[p] \in {0, Len(u)} /\ RegionsOK(u, heap[p], space[p])
    BY <1>1, <1>13, <2>4 DEF Inv, RegionsOK
  <2>6. GrownTo(u, heap[p], b, n, g, h)
    <3>1. CASE heap[p] # 0
      <4>1. heap[p] = Len(u) /\ Top(u) = u[heap[p]].base + u[heap[p]].pages
        BY <2>5, <3>1 DEF RegionsOK
      <4>2. b = u[heap[p]].base + u[heap[p]].pages
        BY <1>2, <2>4, <3>1 DEF MmapBase
      <4>3. g = [u EXCEPT ![heap[p]].pages = @ + n] /\ h = heap[p]
        BY <1>10, <1>11, <1>19, <2>4, <3>1 DEF Grown
      <4> QED BY <2>5, <4>1, <4>2, <4>3, GrowOld
    <3>2. CASE heap[p] = 0
      <4>1. b = Top(u) + Guard
        BY <1>2, <2>4, <3>2 DEF MmapBase
      <4>2. ~(Len(u) >= UmapMax)
        BY <2>4, <3>2 DEF UmapFull
      <4>3. g = Append(u, [base |-> Top(u) + Guard, pages |-> n])
        BY <1>2, <1>10, <1>19, <2>4, <3>2, <4>1 DEF Grown
      <4>4. Len(g) = Len(u) + 1 /\ h = Len(g)
        BY <1>11, <1>19, <2>5, <3>2, <4>3
      <4>5. GrownTo(u, 0, Top(u) + Guard, n, g, Len(u) + 1)
        BY <2>5, <4>2, <4>3, GrowNew
      <4> QED BY <3>2, <4>1, <4>4, <4>5
    <3> QED BY <3>1, <3>2
  <2>7. DOMAIN space[p].tables \subseteq DOMAIN r.tables /\ Rest(r) = Rest(a) /\ ret'.code = b
    BY <1>5, <1>9, <1>18, <1>19, <2>1
  <2>8. MmapOutcome(p, n, r, g, h)
    BY <1>2, <1>4, <1>14, <1>16, <2>2, <2>3, <2>4, <2>6, <2>7 DEF MmapOutcome
  <2> QED BY <2>8
<1>20. CASE ~w.ok
  <2>1. RolledBack(w, b, w.done, Rollback(w, b))
    <3>1. \A v \in Run(b, w.done) : Mapped(w, v) /\ ~w.leaf[v].mmio
      BY <1>7 DEF MmapGot
    <3> QED BY <1>9, <3>1, RollbackOK
  <2>2. RolledBack(w, b, w.done, r)
    BY <1>12, <1>20, <2>1
  <2>3. /\ Sound(r) /\ Rest(r) = Rest(a) /\ DOMAIN space[p].tables \subseteq DOMAIN r.tables
    BY <1>5, <1>9, <2>2 DEF RolledBack
  <2>4. Replaces(p, r)
    BY <1>1, <1>5, <1>15, <2>3 DEF Replaces
  <2>5. r.leaf = space[p].leaf
    <3>1. Run(b, w.done) \subseteq Run(b, n)
      BY <1>9 DEF Run
    <3>2. DOMAIN r.leaf = DOMAIN a.leaf
      BY <1>7, <1>8, <2>2, <3>1 DEF MmapGot, RolledBack
    <3>3. \A v \in DOMAIN r.leaf : r.leaf[v] = a.leaf[v]
      BY <1>7, <1>8, <2>2, <3>1, <3>2 DEF MmapGot, RolledBack
    <3>4. r.leaf \in Leaves /\ a.leaf \in Leaves
      BY <1>5, <2>3 DEF Sound, WorkSet
    <3> QED BY <1>5, <3>2, <3>3, <3>4, SameLeaves
  <2>6. g = umap[p] /\ h = heap[p] /\ ret'.code = -1
    BY <1>10, <1>11, <1>18, <1>20 DEF Grown
  <2>7. MmapOutcome(p, n, r, g, h)
    BY <1>2, <1>4, <1>14, <1>16, <2>3, <2>4, <2>5, <2>6 DEF MmapOutcome
  <2> QED BY <2>7
<1> QED BY <1>19, <1>20
-----------------------------------------------------------------------------
(* What a step may do: the action properties, step by step *)

LostStep ==
  booted /\ Orphans' # Orphans =>
    /\ ret'.call \in {"exec", "app"}
    /\ Orphans' = Orphans \cup Uncollected(ret'.who) \/ ret'.code \in {-4, -5} \/ ret'.ignored

HolesStep ==
  \A p \in Procs : status'[p] = "live" =>
    \/ status[p] = "live" /\ Holes(p)' \subseteq Holes(p)
    \/ status[p] # "live" /\ (Holes(p)' = {} \/ ret'.ignored)

MmapStep ==
  ret'.call = "mmap" /\ ret' # ret =>
    LET p == ret'.who IN
    IF ret'.code = -1
    THEN umap'[p] = umap[p] /\ heap'[p] = heap[p] /\ space'[p].leaf = space[p].leaf
    ELSE LET r == umap'[p][heap'[p]] IN
         /\ ret'.code \in r.base .. r.base + r.pages - 1
         /\ \A va \in r.base .. r.base + r.pages - 1 : va < ret'.code => va \in DOMAIN space[p].leaf
         /\ \A va \in ret'.code .. r.base + r.pages - 1 :
              va \in DOMAIN space'[p].leaf \ DOMAIN space[p].leaf

StepOK == Inv' /\ HolesStep /\ MmapStep /\ (AllLaidOut /\ LowRegions => LowRegions' /\ LostStep)

\* The pages of the regions u that the space s does not have
HolesOf(u, s) ==
  {va \in UserBase .. KernelBase - 1 : (\E i \in 1 .. Len(u) : va \in Area(u[i])) /\ ~Mapped(s, va)}

LEMMA InArea ==
  ASSUME NEW u \in Seq(Region), NEW va \in UserBase .. KernelBase - 1
  PROVE  (1 = 0 \/ \E i \in 1 .. Len(u) : u[i].base <= va /\ va + 1 <= u[i].base + u[i].pages)
           <=> \E i \in 1 .. Len(u) : va \in Area(u[i])
<1>1. va \in Nat
  BY VaAssumption
<1>2. ASSUME NEW i \in 1 .. Len(u)
      PROVE  (u[i].base <= va /\ va + 1 <= u[i].base + u[i].pages) <=> va \in Area(u[i])
  <2>1. u[i] \in Region
    BY ElementOfSeq
  <2>2. PICK c, m : c = u[i].base /\ m = u[i].pages /\ c \in Nat /\ m \in Nat
    BY <2>1 DEF Region
  <2>3. (c <= va /\ va + 1 <= c + m) <=> va \in c .. c + m - 1
    BY <1>1, <2>2
  <2> QED BY <2>2, <2>3 DEF Area, Run
<1> QED BY <1>2

LEMMA HolesNow ==
  ASSUME umap \in [Procs -> Seq(Region)], NEW p \in Procs
  PROVE  Holes(p) = HolesOf(umap[p], space[p])
<1>1. PICK u : u = umap[p] /\ u \in Seq(Region)
  OBVIOUS
<1>2. ASSUME NEW va \in UserBase .. KernelBase - 1
      PROVE  UserPtrOk(p, va, 1) <=> \E i \in 1 .. Len(u) : va \in Area(u[i])
  BY <1>1, InArea DEF UserPtrOk
<1> QED BY <1>1, <1>2 DEF Holes, HolesOf

LEMMA HolesThen ==
  ASSUME umap' \in [Procs -> Seq(Region)], NEW p \in Procs
  PROVE  Holes(p)' = HolesOf(umap'[p], space'[p])
<1>1. PICK u : u = umap'[p] /\ u \in Seq(Region)
  OBVIOUS
<1>2. ASSUME NEW va \in UserBase .. KernelBase - 1
      PROVE  UserPtrOk(p, va, 1)' <=> \E i \in 1 .. Len(u) : va \in Area(u[i])
  BY <1>1, InArea DEF UserPtrOk
<1> QED BY <1>1, <1>2 DEF Holes, HolesOf

\* A process that a step leaves alone keeps its holes
LEMMA HolesSame ==
  ASSUME Inv, Inv', NEW p \in Procs, umap'[p] = umap[p], space'[p] = space[p]
  PROVE  Holes(p)' = Holes(p)
BY HolesNow, HolesThen DEF Inv, Shape

\* A step of p on its own space
LEMMA HolesAlone ==
  ASSUME Inv, Inv', NEW p \in Procs, status[p] = "live", status' = status,
         \A q \in Procs : q # p => umap'[q] = umap[q] /\ space'[q] = space[q],
         HolesOf(umap'[p], space'[p]) \subseteq HolesOf(umap[p], space[p])
  PROVE  HolesStep
<1>1. ASSUME NEW q \in Procs PROVE Holes(q)' \subseteq Holes(q)
  <2>1. CASE q = p
    BY <2>1, HolesNow, HolesThen DEF Inv, Shape
  <2>2. CASE q # p
    BY <2>2, HolesSame
  <2> QED BY <2>1, <2>2
<1> QED BY <1>1 DEF HolesStep

\* Nothing is lost when the others' pages are the same ones
LEMMA NoneLost ==
  ASSUME Inv, NEW p \in Alive, NEW r, Replaces(p, r), Rest(r) = Rest(Work(pmm, space[p], 0))
  PROVE  Orphans' = Orphans
<1>1. p \in Procs
  BY DEF Alive
<1>2. Orphans' = Rest(r) \ Others(p)
  BY <1>1, ReplacesOrphans
<1>3. Orphans = (pmm.bits \ SpaceFrames(space[p])) \ Others(p)
  BY OrphansAlive
<1>4. Rest(Work(pmm, space[p], 0)) = pmm.bits \ SpaceFrames(space[p])
  BY WorkSound
<1> QED BY <1>2, <1>3, <1>4

\* A step that changes nothing but who is running
LEMMA Unchanged ==
  ASSUME Inv, pmm' = pmm, kern' = kern, booted' = booted, space' = space, umap' = umap, heap' = heap, status' = status,
         devUsed' \in [Procs -> Nat], ret' # ret => ret'.call # "mmap" \/ ret'.code = -1
  PROVE  StepOK
<1>1. Shape' /\ Owned' /\ Idle' /\ Alive' = Alive
  BY DEF Inv, Shape, Owned, Idle, Alive
<1>2. Inv'
  BY <1>1 DEF Inv
<1>3. LowRegions => LowRegions'
  BY <1>1 DEF LowRegions
<1>4. Orphans' = Orphans
  BY <1>1 DEF Orphans
<1>5. HolesStep
  <2>1. \A p \in Procs : Holes(p)' = Holes(p)
    BY <1>2, HolesSame
  <2> QED BY <2>1 DEF HolesStep, Inv, Shape
<1>6. MmapStep
  BY DEF MmapStep
<1> QED BY <1>2, <1>3, <1>4, <1>5, <1>6 DEF StepOK, LostStep

LEMMA MmapStepOK ==
  ASSUME Inv, NEW p \in Procs, NEW n \in Nat \ {0}, SysMmap(p, n)
  PROVE  StepOK
<1>1. CASE n > MmapMax \/ UmapFull(p)
  <2>1. /\ pmm' = pmm /\ kern' = kern /\ booted' = booted /\ space' = space /\ umap' = umap
        /\ heap' = heap /\ status' = status /\ devUsed' = devUsed /\ ret' = Ret("mmap", p, -1)
    BY <1>1 DEF SysMmap
  <2>2. ret'.code = -1
    BY <2>1 DEF Ret
  <2>3. devUsed \in [Procs -> Nat]
    BY DEF Inv, Shape
  <2> QED BY <2>1, <2>2, <2>3, Unchanged
<1>2. CASE ~(n > MmapMax \/ UmapFull(p))
  <2>1. PICK r, u, h : MmapOutcome(p, n, r, u, h)
    BY <1>2, MmapResult
  <2>2. PICK b \in Nat : b = MmapBase(p) /\ b >= Top(umap[p]) /\ Top(umap[p]) \in Nat
    <3>1. p \in Alive
      BY DEF SysMmap, Alive
    <3> QED BY <3>1, BaseOK
  <2>3. /\ p \in Alive /\ status[p] = "live" /\ status' = status /\ devUsed' = devUsed /\ b + n <= DevBase
        /\ ret'.call = "mmap" /\ ret'.who = p
    BY <2>2 DEF SysMmap, Alive, Ret
  <2>4. /\ Replaces(p, r) /\ Rest(r) = Rest(Work(pmm, space[p], 0))
        /\ DOMAIN space[p].tables \subseteq DOMAIN r.tables
        /\ umap' = [umap EXCEPT ![p] = u] /\ heap' = [heap EXCEPT ![p] = h]
    BY <2>1 DEF MmapOutcome
  <2>5. /\ umap \in [Procs -> Seq(Region)] /\ heap \in [Procs -> Nat] /\ devUsed \in [Procs -> Nat]
        /\ RegionsOK(umap[p], heap[p], space[p]) /\ booted
    BY <2>3 DEF Inv, Shape
  <2>6. umap'[p] = u /\ heap'[p] = h
    BY <2>4, <2>5
  <2>7. Orphans' = Orphans
    BY <2>3, <2>4, NoneLost
  <2>8. SpaceOf(r).leaf = r.leaf /\ SpaceOf(r).tables = r.tables /\ space'[p] = SpaceOf(r)
    BY <2>4, SpaceOfOK, ReplacesOwned DEF Replaces
  <2>9. \A q \in Procs : q # p => umap'[q] = umap[q] /\ space'[q] = space[q]
    BY <2>4, <2>5, ReplacesOwned
  <2>10. CASE r.leaf = space[p].leaf /\ u = umap[p] /\ h = heap[p] /\ ret'.code = -1
    <3>1. Sites(p, u, h, r)
      BY <2>3, <2>4, <2>5, <2>10 DEF Sites, RegionsOK
    <3>2. Inv' /\ (LowRegions /\ Top(u) <= DevBase => LowRegions')
      BY <2>4, <3>1, ReplacesInv
    <3>3. LowRegions => Top(u) <= DevBase
      BY <2>3, <2>10 DEF LowRegions
    <3>4. HolesOf(u, space'[p]) \subseteq HolesOf(u, space[p])
      <4>1. ASSUME NEW v, Mapped(space[p], v) PROVE Mapped(space'[p], v)
        BY <2>4, <2>8, <2>10, <4>1 DEF Mapped
      <4> QED BY <4>1 DEF HolesOf
    <3>5. HolesStep
      BY <2>3, <2>6, <2>9, <2>10, <3>2, <3>4, HolesAlone
    <3>6. MmapStep
      BY <2>3, <2>6, <2>8, <2>10 DEF MmapStep
    <3> QED BY <2>7, <3>2, <3>3, <3>5, <3>6 DEF StepOK, LostStep
  <2>11. CASE /\ DOMAIN r.leaf = DOMAIN space[p].leaf \cup Run(MmapBase(p), n)
              /\ \A v \in DOMAIN space[p].leaf : r.leaf[v] = space[p].leaf[v]
              /\ \A v \in Run(MmapBase(p), n) : Mapped(r, v) /\ v \notin DOMAIN space[p].leaf
              /\ GrownTo(umap[p], heap[p], MmapBase(p), n, u, h)
              /\ ret'.code = MmapBase(p)
    <3>1. /\ DOMAIN r.leaf = DOMAIN space[p].leaf \cup Run(b, n)
          /\ \A v \in Run(b, n) : Mapped(r, v) /\ v \notin DOMAIN space[p].leaf
          /\ GrownTo(umap[p], heap[p], b, n, u, h) /\ ret'.code = b
      BY <2>2, <2>11
    <3>2. /\ u \in Seq(Region) /\ Len(u) \in 1 .. UmapMax /\ h = Len(u) /\ Top(u) = b + n
          /\ u[h].base + u[h].pages = b + n /\ u[h].base \in Nat /\ u[h].base <= b
          /\ \A v \in Area(u[h]) : v < b => heap[p] # 0 /\ v \in Area(umap[p][heap[p]])
          /\ \A i \in 1 .. Len(u) : \A v \in Area(u[i]) :
               v \in Run(b, n) \/ \E j \in 1 .. Len(umap[p]) : v \in Area(umap[p][j])
      BY <3>1 DEF GrownTo
    <3>3. PICK e \in Nat : e = b + n /\ e > b
      OBVIOUS
    <3>12. u[h].base + u[h].pages - 1 = e - 1
      <4>1. u[h].base + u[h].pages = e
        BY <3>2, <3>3
      <4>2. u[h] \in Region
        BY <3>2, ElementOfSeq
      <4>3. PICK c, m \in Nat : c = u[h].base /\ m = u[h].pages
        BY <4>2 DEF Region
      <4>4. c + m - 1 = e - 1
        BY <4>1, <4>3
      <4> QED BY <4>3, <4>4
    <3>4. Area(u[h]) = u[h].base .. e - 1 /\ Run(b, n) = b .. e - 1
      <4>1. b + n - 1 = e - 1
        BY <3>3
      <4> QED BY <3>12, <4>1 DEF Area, Run
    <3>5. ASSUME NEW v \in Area(u[h]) PROVE (v < b => v \in DOMAIN space[p].leaf) /\ v \in DOMAIN r.leaf
      <4>1. CASE v < b
        <5>1. v \in Area(umap[p][heap[p]]) /\ heap[p] # 0
          BY <3>2, <3>5, <4>1
        <5> QED BY <2>5, <3>1, <5>1 DEF RegionsOK
      <4>2. CASE ~(v < b)
        <5>1. v \in Run(b, n)
          BY <3>2, <3>3, <3>4, <3>5, <4>2
        <5> QED BY <3>1, <4>2, <5>1
      <4> QED BY <4>1, <4>2
    <3>6. RegionsOK(u, h, r)
      <4>1. Top(u) >= UserBase
        BY <2>2, <2>5, <3>2, VaAssumption DEF RegionsOK
      <4>2. ASSUME NEW v \in DOMAIN r.leaf
            PROVE  (v >= UserBase /\ v < Top(u)) \/ (v >= DevBase /\ v < KernelBase /\ r.leaf[v].mmio)
        <5>1. CASE v \in DOMAIN space[p].leaf
          <6>1. r.leaf[v] = space[p].leaf[v] /\ v \in Nat
            <7>1. space[p].leaf \in Leaves
              BY DEF Inv, Shape, SpaceSet
            <7> QED BY <2>11, <5>1, <7>1, LeafType
          <6>2. (v >= UserBase /\ v < Top(umap[p])) \/ (v >= DevBase /\ v < KernelBase /\ space[p].leaf[v].mmio)
            BY <2>5, <5>1 DEF RegionsOK
          <6> QED BY <2>2, <3>2, <3>3, <6>1, <6>2
        <5>2. CASE v \in Run(b, n)
          <6>1. v \in Nat /\ v >= b /\ v < e
            BY <3>3, <3>4, <5>2
          <6>2. b >= UserBase
            BY <2>2, <2>5, VaAssumption DEF RegionsOK
          <6> QED BY <3>2, <3>3, <6>1, <6>2, VaAssumption
        <5> QED BY <3>1, <4>2, <5>1, <5>2
      <4> QED BY <3>2, <3>5, <4>1, <4>2 DEF RegionsOK
    <3>7. Sites(p, u, h, r)
      <4>1. h \in Nat
        BY <3>2
      <4> QED BY <2>3, <2>4, <2>5, <3>2, <3>6, <4>1 DEF Sites
    <3>8. Inv' /\ (LowRegions /\ Top(u) <= DevBase => LowRegions') /\ Top(u) <= DevBase
      BY <2>3, <2>4, <3>2, <3>7, ReplacesInv
    <3>9. HolesOf(u, space'[p]) \subseteq HolesOf(umap[p], space[p])
      <4>1. ASSUME NEW v \in HolesOf(u, space'[p]) PROVE v \in HolesOf(umap[p], space[p])
        <5>1. PICK i \in 1 .. Len(u) : v \in Area(u[i])
          BY <4>1 DEF HolesOf
        <5>2. v \notin Run(b, n)
          <6>1. ASSUME v \in Run(b, n) PROVE Mapped(space'[p], v)
            BY <2>8, <3>1, <6>1 DEF Mapped
          <6> QED BY <4>1, <6>1 DEF HolesOf
        <5>3. \E j \in 1 .. Len(umap[p]) : v \in Area(umap[p][j])
          BY <3>2, <5>1, <5>2
        <5>4. ASSUME Mapped(space[p], v) PROVE Mapped(space'[p], v)
          BY <2>4, <2>8, <3>1, <5>4 DEF Mapped
        <5> QED BY <4>1, <5>3, <5>4 DEF HolesOf
      <4> QED BY <4>1
    <3>10. HolesStep
      BY <2>3, <2>6, <2>9, <3>8, <3>9, HolesAlone
    <3>11. MmapStep
      <4>1. ret'.code # -1
        BY <3>1
      <4>2. u[h].base .. u[h].base + u[h].pages - 1 = u[h].base .. e - 1
        BY <3>12
      <4>3. b \in u[h].base .. e - 1
        BY <3>2, <3>3
      <4>4. \A v \in b .. e - 1 : v \in DOMAIN space'[p].leaf \ DOMAIN space[p].leaf
        BY <2>8, <3>1, <3>4
      <4>5. b .. u[h].base + u[h].pages - 1 = b .. e - 1
        BY <3>12
      <4> QED BY <2>3, <2>6, <3>1, <3>4, <3>5, <4>1, <4>2, <4>3, <4>4, <4>5 DEF MmapStep
    <3> QED BY <2>7, <3>8, <3>10, <3>11 DEF StepOK, LostStep
  <2> QED BY <2>1, <2>10, <2>11 DEF MmapOutcome
<1> QED BY <1>1, <1>2
-----------------------------------------------------------------------------
(* Process creation, step by step *)

\* What nobody owns, with what an exited process left in p's slot
LEMMA OrphansUncollected ==
  ASSUME Inv, NEW p \in Procs, status[p] # "live"
  PROVE  Orphans \cup Uncollected(p) = pmm.bits \ Others(p)
<1>1. CASE p \in Alive
  <2>1. Uncollected(p) = SpaceFrames(space[p])
    BY <1>1 DEF Inv, Shape, Alive, Uncollected
  <2>2. SpaceFrames(space[p]) \subseteq pmm.bits /\ SpaceFrames(space[p]) \cap Others(p) = {}
    <3>1. Owned
      BY DEF Inv
    <3>2. ASSUME NEW x \in Others(p) PROVE x \notin SpaceFrames(space[p])
      <4>1. CASE x \in kern
        BY <1>1, <3>1, <4>1 DEF Owned
      <4>2. CASE x \notin kern
        <5>1. PICK q \in Alive \ {p} : x \in SpaceFrames(space[q])
          BY <3>2, <4>2 DEF Others
        <5> QED BY <1>1, <3>1, <5>1 DEF Owned
      <4> QED BY <4>1, <4>2
    <3> QED BY <1>1, <3>1, <3>2 DEF Owned
  <2>3. Orphans = (pmm.bits \ SpaceFrames(space[p])) \ Others(p)
    BY <1>1, OrphansAlive
  <2> QED BY <2>1, <2>2, <2>3
<1>2. CASE p \notin Alive
  <2>1. Uncollected(p) = {}
    BY <1>2 DEF Alive, Uncollected
  <2> QED BY <1>2, <2>1, OrphansNone
<1> QED BY <1>1, <1>2

\* A step that marks pages at most, and leaves p's slot not present
LEMMA OnlyMarks ==
  ASSUME Inv, NEW p \in Procs, status[p] # "live", GiveUp(p),
         PmmOK(pmm'), pmm.bits \subseteq pmm'.bits, kern' = kern, booted, booted' = booted,
         ret'.call \in {"exec", "app"}, ret'.who = p,
         AllLaidOut /\ pmm'.bits # pmm.bits => ret'.code \in {-4, -5} \/ ret'.ignored
  PROVE  StepOK
<1>1. Shape /\ Owned /\ Idle
  BY DEF Inv
<1>2. /\ status' = [status EXCEPT ![p] = "none"] /\ space' = [space EXCEPT ![p] = NoSpace]
      /\ umap' = [umap EXCEPT ![p] = << >>] /\ heap' = [heap EXCEPT ![p] = 0] /\ devUsed' = devUsed
  BY DEF GiveUp
<1>3. /\ status'[p] = "none" /\ space'[p] = NoSpace /\ umap'[p] = << >> /\ heap'[p] = 0
      /\ \A q \in Procs : q # p => /\ status'[q] = status[q] /\ space'[q] = space[q]
                                  /\ umap'[q] = umap[q] /\ heap'[q] = heap[q]
  BY <1>1, <1>2 DEF Shape
<1>4. Alive' = Alive \ {p}
  BY <1>3 DEF Alive
<1>5. Shape'
  <2>1. << >> \in Seq(Region) /\ NoSpace \in SpaceSet
    BY NoSpaceOK
  <2> QED BY <1>1, <1>2, <2>1 DEF Shape
<1>6. Idle'
  BY <1>1, <1>3 DEF Idle
<1>7. \A q \in Alive' : q \in Alive /\ q \in Procs /\ q # p
  BY <1>4 DEF Alive
<1>8. Owned'
  BY <1>1, <1>3, <1>7 DEF Owned
<1>9. \A q \in Alive' : RegionsOK(umap'[q], heap'[q], space'[q])
  BY <1>3, <1>7 DEF Inv
<1>10. Inv'
  BY <1>5, <1>6, <1>8, <1>9 DEF Inv
<1>11. LowRegions => LowRegions'
  BY <1>3, <1>7 DEF LowRegions
<1>12. pmm'.bits = pmm.bits => Orphans' = Orphans \cup Uncollected(p)
  <2>1. PICK V : V = UNION {SpaceFrames(space[q]) : q \in Alive \ {p}}
    OBVIOUS
  <2>2. UNION {SpaceFrames(space'[q]) : q \in Alive'} = V
    <3>1. \A q \in Alive' : SpaceFrames(space'[q]) = SpaceFrames(space[q])
      BY <1>3, <1>7
    <3> QED BY <1>4, <2>1, <3>1
  <2>3. Orphans' = pmm'.bits \ (kern \cup V) /\ Others(p) = kern \cup V
    BY <2>1, <2>2 DEF Orphans, Others
  <2> QED BY <2>3, OrphansUncollected
<1>13. HolesStep
  <2>1. ASSUME NEW q \in Procs, status'[q] = "live" PROVE status[q] = "live" /\ Holes(q)' = Holes(q)
    <3>1. q # p
      BY <1>3, <2>1
    <3> QED BY <1>3, <1>10, <2>1, <3>1, HolesSame
  <2> QED BY <2>1 DEF HolesStep
<1>14. MmapStep
  BY DEF MmapStep
<1>15. AllLaidOut => LostStep
  BY <1>12 DEF LostStep
<1> QED BY <1>10, <1>11, <1>13, <1>14, <1>15 DEF StepOK

\* The regions of a new process
Fitting(regions) == regions \in Seq(Region) /\ Len(regions) > 0 /\ Len(regions) < UmapMax
Low(regions) == Apart(regions) /\ Top(regions) + Guard + StackPages <= DevBase

LEMMA FinishFails ==
  ASSUME Inv, booted, NEW p \in Procs, status[p] # "live", NEW call \in {"exec", "app"}, NEW w, NEW regions,
         Created(pmm.bits, regions, w), w.err # 0, AllLaidOut => Low(regions),
         Finish(p, call, w, regions), kern' = kern, booted' = booted
  PROVE  StepOK
<1>1. pmm' = Abandon(w) /\ GiveUp(p)
  BY DEF Finish
<1>2. ret'.call \in {"exec", "app"} /\ ret'.who = p /\ ret'.code = w.err /\ ret'.ignored = w.ignored
  BY DEF Finish, Ret
<1>3. /\ Sound(w) /\ pmm.bits \subseteq Rest(w) /\ w.err \in {-4, -5, -10, -11}
      /\ w.err # -5 /\ ~w.ignored /\ Apart(regions) => Rest(w) = pmm.bits
  BY DEF Created
<1>4. CASE w.err \in {-10, -11}
  <2>1. pmm' = PmmFree(w.pmm, SpaceFrames(w)) /\ PmmOK(w.pmm)
    BY <1>1, <1>3, <1>4 DEF Abandon, Sound
  <2>2. PmmOK(pmm') /\ pmm'.bits = w.pmm.bits \ (SpaceFrames(w) \ {0})
    BY <2>1, PmmFreeOK
  <2>3. pmm'.bits = Rest(w)
    BY <1>3, <2>2 DEF Sound, Rest
  <2>4. AllLaidOut /\ pmm'.bits # pmm.bits => ret'.ignored
    BY <1>2, <1>3, <1>4, <2>3 DEF Low
  <2> QED BY <1>1, <1>2, <1>3, <2>2, <2>3, <2>4, OnlyMarks
<1>5. CASE w.err \notin {-10, -11}
  <2>1. pmm' = w.pmm
    BY <1>1, <1>5 DEF Abandon
  <2>2. PmmOK(pmm') /\ pmm.bits \subseteq pmm'.bits
    BY <1>3, <2>1 DEF Sound, Rest
  <2>3. ret'.code \in {-4, -5}
    BY <1>2, <1>3, <1>5
  <2> QED BY <1>1, <1>2, <2>2, <2>3, OnlyMarks
<1> QED BY <1>4, <1>5

LEMMA FinishLives ==
  ASSUME Inv, booted, NEW p \in Procs, status[p] # "live", NEW call \in {"exec", "app"}, NEW w, NEW regions,
         Created(pmm.bits, regions, w), w.err = 0, Fitting(regions), AllLaidOut => Low(regions),
         Finish(p, call, w, regions), kern' = kern, booted' = booted
  PROVE  StepOK
<1>1. PICK b, u : b = Top(regions) + Guard /\ u = Append(regions, [base |-> b, pages |-> StackPages])
  OBVIOUS
<1>2. /\ pmm' = w.pmm
      /\ status' = [status EXCEPT ![p] = "live"]
      /\ space' = [space EXCEPT ![p] = SpaceOf(w)]
      /\ umap' = [umap EXCEPT ![p] = u]
      /\ heap' = [heap EXCEPT ![p] = 0]
      /\ devUsed' = devUsed
  BY <1>1 DEF Finish
<1>3. ret'.call = call /\ ret'.call # "mmap" /\ ret'.who = p /\ ret'.ignored = w.ignored
  BY DEF Finish, Ret
<1>4. Sound(w) /\ pmm.bits \subseteq Rest(w) /\ (~w.ignored /\ Apart(regions) => Rest(w) = pmm.bits)
  BY DEF Created
<1>5. Replaces(p, w)
  <2>1. Others(p) \subseteq pmm.bits
    BY OthersMarked
  <2> QED BY <1>2, <1>4, <2>1 DEF Replaces
<1>6. GrownTo(regions, 0, b, StackPages, u, Len(regions) + 1)
  <2>1. Len(regions) \in 1 .. UmapMax /\ ~(Len(regions) >= UmapMax) /\ StackPages \in Nat
    BY SizesAssumption DEF Fitting
  <2> QED BY <1>1, <2>1, GrowNew DEF Fitting
<1>7. PICK t \in Nat : t = Top(regions)
  BY TopOK DEF Fitting
<1>8. b \in Nat /\ b >= t /\ StackPages \in Nat
  <2>1. Guard \in Nat /\ StackPages \in Nat
    BY SizesAssumption
  <2>2. t + Guard \in Nat /\ t + Guard >= t
    BY <2>1
  <2> QED BY <1>1, <1>7, <2>1, <2>2
<1>9. /\ u \in Seq(Region) /\ Len(u) \in 1 .. UmapMax /\ Top(u) = b + StackPages
      /\ \A i \in 1 .. Len(u) : \A v \in Area(u[i]) :
           v \in Run(b, StackPages) \/ \E j \in 1 .. Len(regions) : v \in Area(regions[j])
  BY <1>6 DEF GrownTo
<1>10. /\ \A v \in DOMAIN w.leaf : v >= UserBase /\ v < b + StackPages
       /\ \A k \in 1 .. Len(regions) : regions[k].base >= UserBase
  BY <1>1 DEF Created, StackBase
<1>11. RegionsOK(u, 0, w)
  <2>1. b + StackPages >= UserBase
    <3>1. 1 \in 1 .. Len(regions)
      BY DEF Fitting
    <3>2. regions[1] \in Region
      BY <3>1, ElementOfSeq DEF Fitting
    <3>3. PICK c, m \in Nat : c = regions[1].base /\ m = regions[1].pages
      BY <3>2 DEF Region
    <3>4. c >= UserBase
      BY <1>10, <3>1, <3>3
    <3>5. c + m <= t
      BY <1>7, <3>1, <3>3, TopOK DEF Fitting
    <3> QED BY <1>8, <3>4, <3>5, VaAssumption
  <2> QED BY <1>9, <1>10, <2>1 DEF RegionsOK
<1>12. Sites(p, u, 0, w)
  BY <1>2, <1>9, <1>11 DEF Sites, Inv, Shape
<1>13. Inv' /\ (LowRegions /\ Top(u) <= DevBase => LowRegions')
  BY <1>5, <1>12, ReplacesInv
<1>14. AllLaidOut => Top(u) <= DevBase
  <2>1. AllLaidOut => t + Guard + StackPages <= DevBase
    BY <1>7 DEF Low
  <2> QED BY <1>1, <1>7, <1>9, <2>1
<1>15. AllLaidOut => LostStep
  <2>1. Orphans' = Rest(w) \ Others(p) /\ Orphans \cup Uncollected(p) = pmm.bits \ Others(p)
    BY <1>5, ReplacesOrphans, OrphansUncollected
  <2>2. ASSUME AllLaidOut, ~w.ignored PROVE Orphans' = Orphans \cup Uncollected(p)
    BY <1>4, <2>1, <2>2 DEF Low
  <2> QED BY <1>3, <2>2 DEF LostStep
<1>16. HolesStep
  <2>1. /\ umap' \in [Procs -> Seq(Region)] /\ umap'[p] = u /\ space'[p] = SpaceOf(w)
        /\ \A q \in Procs : q # p => umap'[q] = umap[q] /\ space'[q] = space[q] /\ status'[q] = status[q]
    <3>1. umap \in [Procs -> Seq(Region)]
      BY DEF Inv, Shape
    <3>2. space'[p] = SpaceOf(w) /\ \A q \in Procs : q # p => space'[q] = space[q] /\ status'[q] = status[q]
      BY <1>5, ReplacesOwned
    <3> QED BY <1>2, <1>9, <3>1, <3>2
  <2>2. ASSUME ~w.ignored PROVE Holes(p)' = {}
    <3>1. Holes(p)' = HolesOf(u, SpaceOf(w))
      BY <2>1, HolesThen
    <3>2. /\ \A k \in 1 .. Len(regions) : \A v \in Area(regions[k]) : Mapped(w, v)
          /\ \A v \in Run(b, StackPages) : Mapped(w, v)
      BY <1>1, <2>2 DEF Created, StackBase
    <3>3. SpaceOf(w).leaf = w.leaf /\ SpaceOf(w).tables = w.tables
      BY <1>4, SpaceOfOK
    <3>4. \A v : Mapped(w, v) => Mapped(SpaceOf(w), v)
      BY <3>3 DEF Mapped
    <3> QED BY <1>9, <3>1, <3>2, <3>4 DEF HolesOf
  <2>3. ASSUME NEW q \in Procs, status'[q] = "live"
        PROVE  \/ status[q] = "live" /\ Holes(q)' \subseteq Holes(q)
               \/ status[q] # "live" /\ (Holes(q)' = {} \/ ret'.ignored)
    <3>1. CASE q = p
      BY <1>3, <2>2, <3>1
    <3>2. CASE q # p
      <4>1. Holes(q)' = Holes(q) /\ status[q] = "live"
        BY <1>13, <2>1, <2>3, <3>2, HolesSame
      <4> QED BY <4>1
    <3> QED BY <3>1, <3>2
  <2> QED BY <2>3 DEF HolesStep
<1>17. MmapStep
  BY <1>3 DEF MmapStep
<1> QED BY <1>13, <1>14, <1>15, <1>16, <1>17 DEF StepOK

\* Without a PML4 nothing is loaded
LEMMA LoadIdle ==
  ASSUME NEW w, w.err # 0, NEW segs \in Seq(Region)
  PROVE  LoadSegments(w, segs) = w
<1>1. PICK n \in Nat : n = Len(segs)
  OBVIOUS
<1>2. PICK X : X = [i \in 0 .. n |-> {w}]
  OBVIOUS
<1>3. \A i \in 0 .. n : X[i] = {w}
  BY <1>2
<1>4. ASSUME NEW i \in 1 .. n, NEW x \in X[i - 1] PROVE LoadSegment(x, segs[i]) \in X[i]
  <2>1. x = w /\ i \in 0 .. n
    BY <1>3
  <2>2. LoadSegment(x, segs[i]) = x
    BY <2>1 DEF LoadSegment
  <2> QED BY <1>3, <2>1, <2>2
<1>5. LoadRounds(w, segs, n, X)
  BY <1>3, <1>4 DEF LoadRounds
<1>6. LoadSegments(w, segs) \in X[n]
  BY <1>1, <1>5, LoadLoop
<1> QED BY <1>3, <1>6

LEMMA FinishNothing ==
  ASSUME Inv, booted, NEW p \in Procs, status[p] # "live", NEW call \in {"exec", "app"}, NEW w, NEW regions,
         w.err = -3, w.pmm = pmm, Finish(p, call, w, regions), kern' = kern, booted' = booted
  PROVE  StepOK
<1>1. pmm' = Abandon(w) /\ GiveUp(p)
  BY DEF Finish
<1>2. pmm' = pmm
  BY <1>1 DEF Abandon
<1>3. PmmOK(pmm')
  BY <1>2 DEF Inv, Owned
<1>4. ret'.call \in {"exec", "app"} /\ ret'.who = p
  BY DEF Finish, Ret
<1> QED BY <1>1, <1>2, <1>3, <1>4, OnlyMarks

\* Segments of a program: what exec_elf_core keeps of them
LEMMA Kept ==
  ASSUME NEW img \in Images, NEW segs,
         segs = SubSeq(img.segs, 1, IF Len(img.segs) < UmapMax THEN Len(img.segs) ELSE UmapMax - 1),
         segs # << >>, ~(\E i \in 1 .. Len(segs) : segs[i].base >= KernelBase)
  PROVE  Fitting(segs) /\ (AllLaidOut => Low(segs))
<1>1. PICK s : s = img.segs
  OBVIOUS
<1>2. PICK S : S = [base : Nat, pages : Nat \ {0}]
  OBVIOUS
<1>3. img \in [valid : BOOLEAN, segs : Seq(S)]
  BY <1>2, ImagesAssumption
<1>4. s \in Seq(S)
  BY <1>1, <1>3
<1>5. PICK u \in Nat : u = UmapMax /\ u > 1
  BY SizesAssumption
<1>6. PICK k \in 0 .. Len(s) : k = (IF Len(s) < u THEN Len(s) ELSE u - 1) /\ k < u
  BY <1>4, <1>5
<1>7. segs = SubSeq(s, 1, k)
  BY <1>1, <1>5, <1>6
<1>8. segs \in Seq(S) /\ Len(segs) = k /\ \A i \in 1 .. k : segs[i] = s[i]
  <2>1. \A i \in 1 .. k : s[i] \in S
    BY <1>4, <1>6, ElementOfSeq
  <2>2. /\ SubSeq(s, 1, k) \in Seq(S) /\ Len(SubSeq(s, 1, k)) = (IF 1 <= k THEN k - 1 + 1 ELSE 0)
        /\ \A i \in 1 .. k - 1 + 1 : SubSeq(s, 1, k)[i] = s[1 + i - 1]
    BY <1>6, <2>1, SubSeqProperties
  <2>3. \A i \in 1 .. k : 1 + i - 1 = i
    BY <1>6
  <2>4. k - 1 + 1 = k
    BY <1>6
  <2>5. k \in Nat
    BY <1>6
  <2>6. (IF 1 <= k THEN k ELSE 0) = k
    BY <2>5
  <2>7. ASSUME NEW i \in 1 .. k PROVE segs[i] = s[i]
    BY <1>7, <2>2, <2>3, <2>4
  <2> QED BY <1>7, <2>2, <2>4, <2>6, <2>7
<1>9. \A i \in 1 .. k : segs[i] \in S
  BY <1>8, ElementOfSeq
<1>10. \A i \in 1 .. k : segs[i] \in Region
  BY <1>2, <1>9 DEF Region
<1>11. segs \in Seq(Region)
  BY <1>8, <1>10
<1>12. k > 0
  <2>1. k # 0
    BY <1>8, EmptySeq
  <2> QED BY <1>6, <2>1
<1>13. Fitting(segs)
  BY <1>5, <1>6, <1>8, <1>11, <1>12 DEF Fitting
<1>14. ASSUME AllLaidOut PROVE Low(segs)
  <2>1. LaidOut(s)
    BY <1>1, <1>14 DEF AllLaidOut
  <2>2. 1 .. k \subseteq 1 .. Len(s)
    BY <1>4, <1>6
  <2>3. Apart(segs)
    <3>1. ASSUME NEW i \in 1 .. Len(segs), NEW j \in 1 .. Len(segs), i < j PROVE Area(segs[i]) \cap Area(segs[j]) = {}
      <4>1. i \in 1 .. Len(s) /\ j \in 1 .. Len(s) /\ segs[i] = s[i] /\ segs[j] = s[j]
        BY <1>8, <2>2, <3>1
      <4> QED BY <2>1, <3>1, <4>1 DEF LaidOut, Area, Run
    <3> QED BY <3>1 DEF Apart
  <2>4. Len(segs) > 0
    BY <1>8, <1>12
  <2>5. PICK i \in 1 .. Len(segs) : Top(segs) = segs[i].base + segs[i].pages
    BY <1>11, <2>4, TopOK
  <2>6. i \in 1 .. Len(s) /\ segs[i] = s[i]
    BY <1>8, <2>2
  <2>7. s[i].base >= KernelBase \/ s[i].base + s[i].pages + Guard + StackPages <= DevBase
    BY <2>1, <2>6 DEF LaidOut
  <2> QED BY <2>3, <2>5, <2>6, <2>7 DEF Low
<1> QED BY <1>13, <1>14

LEMMA ExecStepOK ==
  ASSUME Inv, NEW p \in Procs, NEW img \in Images, NEW k \in BOOLEAN, ExecElf(p, img, k)
  PROVE  StepOK
<1>1. PICK segs : segs = SubSeq(img.segs, 1, IF Len(img.segs) < UmapMax THEN Len(img.segs) ELSE UmapMax - 1)
  OBVIOUS
<1>2. booted /\ status[p] # "live" /\ kern' = kern /\ booted' = booted
  BY DEF ExecElf, FreeSlot
<1>3. PICK bad \in BOOLEAN : bad <=> (~img.valid \/ segs = << >> \/ \E i \in 1 .. Len(segs) : segs[i].base >= KernelBase)
  OBVIOUS
<1>6. CASE ~bad /\ ~k
  <2>1. ret' = Ret("exec", p, -2) /\ GiveUp(p) /\ pmm' = pmm
    BY <1>1, <1>3, <1>6 DEF ExecElf
  <2>2. PmmOK(pmm')
    BY <2>1 DEF Inv, Owned
  <2>3. ret'.call \in {"exec", "app"} /\ ret'.who = p
    BY <2>1 DEF Ret
  <2> QED BY <1>2, <2>1, <2>2, <2>3, OnlyMarks
<1>4. CASE bad
  <2>1. ret' = Ret("exec", p, -1) /\ UNCHANGED <<pmm, procVars>>
    BY <1>1, <1>3, <1>4 DEF ExecElf
  <2>2. /\ pmm' = pmm /\ space' = space /\ umap' = umap /\ heap' = heap /\ status' = status /\ devUsed' = devUsed
    BY <2>1 DEF procVars
  <2>3. ret'.call # "mmap"
    BY <2>1 DEF Ret
  <2>4. devUsed' \in [Procs -> Nat]
    BY <2>2 DEF Inv, Shape
  <2> QED BY <1>2, <2>2, <2>3, <2>4, Unchanged
<1>5. CASE ~bad /\ k
  <2>1. PICK a, x, w : a = NewSpace(pmm) /\ x = LoadSegments(a, segs) /\ w = EnterUser(x, segs)
    OBVIOUS
  <2>2. Finish(p, "exec", w, segs)
    BY <1>1, <1>3, <1>5, <2>1 DEF ExecElf
  <2>3. Fitting(segs) /\ (AllLaidOut => Low(segs))
    BY <1>1, <1>3, <1>5, Kept
  <2>4. segs \in Seq(Region) /\ Len(segs) > 0
    BY <2>3 DEF Fitting
  <2>5. (a.err = -3 /\ a.pmm = pmm) \/ Fresh(pmm.bits, a)
    <3>1. PmmOK(pmm)
      BY DEF Inv, Owned
    <3> QED BY <2>1, <3>1, NewSpaceOK
  <2>6. CASE a.err = -3 /\ a.pmm = pmm
    <3>1. x = a
      BY <2>1, <2>4, <2>6, LoadIdle
    <3>2. w = a
      BY <2>1, <2>6, <3>1 DEF EnterUser
    <3> QED BY <1>2, <2>2, <2>6, <3>2, FinishNothing
  <2>7. CASE Fresh(pmm.bits, a)
    <3>1. Loaded(pmm.bits, segs, Len(segs), x)
      BY <2>1, <2>4, <2>7, LoadSegmentsOK
    <3>2. Created(pmm.bits, segs, w)
      BY <2>1, <2>4, <3>1, EnterUserOK
    <3>3. CASE w.err # 0
      BY <1>2, <2>2, <2>3, <3>2, <3>3, FinishFails
    <3>4. CASE w.err = 0
      BY <1>2, <2>2, <2>3, <3>2, <3>4, FinishLives
    <3> QED BY <3>3, <3>4
  <2> QED BY <2>5, <2>6, <2>7
<1> QED BY <1>3, <1>4, <1>5, <1>6

LEMMA AppStepOK ==
  ASSUME Inv, NEW p \in Procs, NEW n \in CodeSizes, NEW k \in BOOLEAN, CreateArgs(p, n, k)
  PROVE  StepOK
<1>1. PICK code : code = <<[base |-> UserBase, pages |-> n]>>
  OBVIOUS
<1>2. booted /\ status[p] # "live" /\ kern' = kern /\ booted' = booted
  BY DEF CreateArgs, FreeSlot
<1>3. n \in Nat /\ UserBase \in Nat
  BY SizesAssumption, VaAssumption
<1>4. code \in Seq(Region) /\ Len(code) = 1 /\ code[1].base = UserBase /\ code[1].pages = n /\ Len(code) > 0
  BY <1>1, <1>3 DEF Region
<1>5. CASE ~k
  <2>1. ret' = Ret("app", p, -2) /\ GiveUp(p) /\ pmm' = pmm
    BY <1>5 DEF CreateArgs
  <2>2. PmmOK(pmm')
    BY <2>1 DEF Inv, Owned
  <2>3. ret'.call \in {"exec", "app"} /\ ret'.who = p
    BY <2>1 DEF Ret
  <2> QED BY <1>2, <2>1, <2>2, <2>3, OnlyMarks
<1>6. CASE k
  <2>1. PICK a, x, w : a = NewSpace(pmm) /\ x = LoadCode(a, n) /\ w = EnterUser(x, code)
    OBVIOUS
  <2>2. Finish(p, "app", w, code)
    BY <1>1, <1>6, <2>1 DEF CreateArgs
  <2>3. Fitting(code)
    BY <1>4, SizesAssumption DEF Fitting
  <2>4. ASSUME AllLaidOut PROVE Low(code)
    <3>1. LaidOut(code)
      BY <1>1, <2>4 DEF AllLaidOut
    <3>2. Apart(code)
      BY <1>4 DEF Apart
    <3>3. Top(code) = UserBase + n
      <4>1. PICK i \in 1 .. Len(code) : Top(code) = code[i].base + code[i].pages
        BY <1>4, TopOK
      <4>2. i = 1
        BY <1>4
      <4> QED BY <1>4, <4>1, <4>2
    <3>4. UserBase + n + Guard + StackPages <= DevBase
      <4>1. 1 \in 1 .. Len(code)
        BY <1>4
      <4>2. UserBase >= KernelBase \/ UserBase + n + Guard + StackPages <= DevBase
        BY <1>4, <3>1, <4>1 DEF LaidOut
      <4> QED BY <4>2, VaAssumption
    <3> QED BY <3>2, <3>3, <3>4 DEF Low
  <2>5. (a.err = -3 /\ a.pmm = pmm) \/ Fresh(pmm.bits, a)
    <3>1. PmmOK(pmm)
      BY DEF Inv, Owned
    <3> QED BY <2>1, <3>1, NewSpaceOK
  <2>6. CASE a.err = -3 /\ a.pmm = pmm
    <3>1. x = a
      BY <2>1, <2>6 DEF LoadCode
    <3>2. w = a
      BY <2>1, <2>6, <3>1 DEF EnterUser
    <3> QED BY <1>2, <2>2, <2>6, <3>2, FinishNothing
  <2>7. CASE Fresh(pmm.bits, a)
    <3>1. Loaded(pmm.bits, code, Len(code), x)
      BY <1>1, <1>3, <1>4, <2>1, <2>7, LoadCodeOK
    <3>2. Created(pmm.bits, code, w)
      BY <1>4, <2>1, <3>1, EnterUserOK
    <3>3. CASE w.err # 0
      BY <1>2, <2>2, <2>4, <3>2, <3>3, FinishFails
    <3>4. CASE w.err = 0
      BY <1>2, <2>2, <2>3, <2>4, <3>2, <3>4, FinishLives
    <3> QED BY <3>3, <3>4
  <2> QED BY <2>5, <2>6, <2>7
<1> QED BY <1>5, <1>6
-----------------------------------------------------------------------------
(* Device pages, exit, collection and boot *)

LEMMA DevStepOK ==
  ASSUME Inv, NEW p \in Procs, NEW f \in Nat, NEW n \in Nat, SysDevMap(p, f, n)
  PROVE  StepOK
<1>1. PICK va : va = DevBase + devUsed[p]
  OBVIOUS
<1>2. PICK w : w = DevPages(Work(pmm, space[p], 0), va, f, n)
  OBVIOUS
<1>3. /\ status[p] = "live" /\ va + n <= KernelBase /\ kern' = kern /\ status' = status /\ umap' = umap
      /\ heap' = heap /\ booted' = booted /\ ret'.call = "devmap"
  BY <1>1 DEF SysDevMap, Ret
<1>4. devUsed \in [Procs -> Nat] /\ umap \in [Procs -> Seq(Region)] /\ heap \in [Procs -> Nat]
      /\ status \in [Procs -> {"none", "live", "dead"}]
  BY DEF Inv, Shape
<1>5. devUsed' \in [Procs -> Nat]
  <2>1. devUsed' = devUsed \/ devUsed' = [devUsed EXCEPT ![p] = @ + n]
    BY DEF SysDevMap
  <2>2. devUsed \in [Procs -> Nat]
    BY <1>4
  <2>3. CASE devUsed' = [devUsed EXCEPT ![p] = @ + n]
    <3>1. PICK d \in Nat : d = devUsed[p] + n
      BY <2>2
    <3> QED BY <2>2, <2>3, <3>1
  <2> QED BY <2>1, <2>2, <2>3
<1>6. va \in Nat /\ va >= DevBase
  BY <1>1, <1>4, VaAssumption
<1>7. CASE p \notin Drivers \/ n > DevMax
  <2>1. pmm' = pmm /\ space' = space
    BY <1>7 DEF SysDevMap
  <2> QED BY <1>3, <1>5, <2>1, Unchanged
<1>8. CASE ~(p \notin Drivers \/ n > DevMax)
  <2>1. pmm' = w.pmm /\ space' = [space EXCEPT ![p] = SpaceOf(w)]
    BY <1>1, <1>2, <1>8 DEF SysDevMap
  <2>2. p \in Alive /\ booted
    BY <1>3 DEF Alive, Inv
  <2>3. PICK o : o = Work(pmm, space[p], 0)
    OBVIOUS
  <2>4. Sound(o) /\ Others(p) \subseteq Rest(o) /\ o.leaf = space[p].leaf /\ o.tables = space[p].tables
    BY <2>2, <2>3, WorkSound
  <2>5. DevGot(o, va, n, n, w)
    BY <1>2, <1>6, <2>3, <2>4, DevPagesOK
  <2>6. status' = [status EXCEPT ![p] = "live"]
    BY <1>3, <1>4
  <2>7. Replaces(p, w)
    BY <1>3, <2>1, <2>4, <2>5, <2>6 DEF Replaces, DevGot
  <2>8. RegionsOK(umap[p], heap[p], space[p])
    BY <2>2 DEF Inv
  <2>9. \A v \in Run(va, n) : v \in Nat /\ v >= DevBase /\ v < KernelBase
    BY <1>3, <1>6, VaAssumption DEF Run
  <2>10. RegionsOK(umap[p], heap[p], w)
    <3>1. DOMAIN space[p].leaf \subseteq DOMAIN w.leaf
      BY <2>4, <2>5 DEF DevGot
    <3>2. ASSUME NEW v \in DOMAIN w.leaf
          PROVE  (v >= UserBase /\ v < Top(umap[p])) \/ (v >= DevBase /\ v < KernelBase /\ w.leaf[v].mmio)
      <4>1. CASE v \in Run(va, n) /\ w.leaf[v].mmio
        BY <2>9, <4>1
      <4>2. CASE v \in DOMAIN o.leaf /\ w.leaf[v] = o.leaf[v]
        BY <2>4, <2>8, <4>2 DEF RegionsOK
      <4> QED BY <2>5, <4>1, <4>2 DEF DevGot
    <3>3. /\ Len(umap[p]) \in 1 .. UmapMax /\ heap[p] \in {0, Len(umap[p])}
          /\ heap[p] # 0 => /\ Top(umap[p]) = umap[p][heap[p]].base + umap[p][heap[p]].pages
                            /\ Area(umap[p][heap[p]]) \subseteq DOMAIN w.leaf
          /\ Top(umap[p]) >= UserBase
      BY <2>8, <3>1 DEF RegionsOK
    <3> QED BY ONLY <3>2, <3>3 DEF RegionsOK
  <2>11. Sites(p, umap[p], heap[p], w)
    BY <1>3, <1>4, <1>5, <2>2, <2>10 DEF Sites
  <2>12. Inv' /\ (LowRegions => LowRegions')
    <3>1. LowRegions => Top(umap[p]) <= DevBase
      BY <2>2 DEF LowRegions
    <3> QED BY <2>7, <2>11, <3>1, ReplacesInv
  <2>13. space'[p] = SpaceOf(w) /\ SpaceOf(w).leaf = w.leaf /\ SpaceOf(w).tables = w.tables
         /\ \A q \in Procs : q # p => space'[q] = space[q]
    BY <2>7, ReplacesOwned, SpaceOfOK DEF Replaces
  <2>14. HolesStep
    <3>1. ASSUME NEW v, Mapped(space[p], v) PROVE Mapped(space'[p], v)
      <4>1. v \in DOMAIN w.leaf /\ DOMAIN space[p].tables \subseteq DOMAIN w.tables
        BY <2>4, <2>5, <3>1 DEF DevGot, SameSpace, Mapped
      <4> QED BY <2>13, <3>1, <4>1 DEF Mapped
    <3>2. HolesOf(umap'[p], space'[p]) \subseteq HolesOf(umap[p], space[p])
      BY <1>3, <3>1 DEF HolesOf
    <3> QED BY <1>3, <2>12, <2>13, <3>2, HolesAlone
  <2>15. MmapStep
    BY <1>3 DEF MmapStep
  <2>16. LowRegions => LostStep
    <3>1. ASSUME LowRegions, NEW v \in Run(va, n), v \in Plain(o) PROVE FALSE
      <4>1. v \in DOMAIN space[p].leaf /\ ~space[p].leaf[v].mmio
        BY <2>4, <3>1 DEF Plain
      <4>2. v < Top(umap[p]) /\ Top(umap[p]) <= DevBase
        BY <2>2, <2>8, <3>1, <4>1 DEF RegionsOK, LowRegions
      <4>3. v \in Nat /\ v >= DevBase
        BY <2>9, <3>1
      <4>4. Top(umap[p]) \in Nat /\ DevBase \in Nat
        BY <2>2, BaseOK, VaAssumption
      <4> QED BY <4>2, <4>3, <4>4
    <3>2. LowRegions => Rest(w) = Rest(o)
      BY <2>5, <3>1 DEF DevGot
    <3>3. LowRegions => Orphans' = Orphans
      BY <2>2, <2>3, <2>7, <3>2, NoneLost
    <3> QED BY <3>3 DEF LostStep
  <2> QED BY <2>12, <2>14, <2>15, <2>16 DEF StepOK
<1> QED BY <1>7, <1>8

LEMMA V2pStepOK ==
  ASSUME Inv, NEW p \in Procs, NEW va, SysV2p(p, va)
  PROVE  StepOK
<1>1. /\ pmm' = pmm /\ kern' = kern /\ booted' = booted /\ space' = space /\ umap' = umap
      /\ heap' = heap /\ status' = status /\ devUsed' = devUsed
  BY DEF SysV2p, procVars
<1>2. ret'.call # "mmap"
  BY DEF SysV2p, Ret
<1>3. devUsed \in [Procs -> Nat]
  BY DEF Inv, Shape
<1> QED BY <1>1, <1>2, <1>3, Unchanged

LEMMA StutterOK == Inv /\ UNCHANGED vars => StepOK
<1> SUFFICES ASSUME Inv, UNCHANGED vars PROVE StepOK
  OBVIOUS
<1>1. /\ pmm' = pmm /\ kern' = kern /\ booted' = booted /\ space' = space /\ umap' = umap
      /\ heap' = heap /\ status' = status /\ devUsed' = devUsed /\ ret' = ret
  BY DEF vars, procVars
<1>2. devUsed \in [Procs -> Nat]
  BY DEF Inv, Shape
<1> QED BY <1>1, <1>2, Unchanged

LEMMA ExitStepOK ==
  ASSUME Inv, NEW p \in Procs, Exit(p)
  PROVE  StepOK
<1>1. /\ status[p] = "live" /\ status' = [status EXCEPT ![p] = "dead"] /\ ret'.call = "exit"
      /\ pmm' = pmm /\ kern' = kern /\ booted' = booted /\ space' = space /\ umap' = umap
      /\ heap' = heap /\ devUsed' = devUsed
  BY DEF Exit, Ret
<1>2. status \in [Procs -> {"none", "live", "dead"}]
  BY DEF Inv, Shape
<1>3. status'[p] = "dead" /\ \A q \in Procs : q # p => status'[q] = status[q]
  BY <1>1, <1>2
<1>4. \A q \in Procs : status'[q] # "none" <=> status[q] # "none"
  BY <1>1, <1>3
<1>5. Alive' = Alive
  BY <1>4 DEF Alive
<1>6. Shape'
  <2>1. status' \in [Procs -> {"none", "live", "dead"}]
    BY <1>1, <1>2
  <2> QED BY <1>1, <2>1 DEF Inv, Shape
<1>7. Owned' /\ Idle'
  BY <1>1, <1>4, <1>5 DEF Inv, Owned, Idle
<1>8. Inv'
  BY <1>1, <1>5, <1>6, <1>7 DEF Inv
<1>9. LowRegions => LowRegions'
  BY <1>1, <1>5 DEF LowRegions
<1>10. Orphans' = Orphans
  BY <1>1, <1>5 DEF Orphans
<1>11. HolesStep
  <2>1. \A q \in Procs : Holes(q)' = Holes(q)
    BY <1>1, <1>8, HolesSame
  <2>2. \A q \in Procs : status'[q] = "live" => status[q] = "live"
    BY <1>3
  <2> QED BY <2>1, <2>2 DEF HolesStep
<1>12. MmapStep
  BY <1>1 DEF MmapStep
<1> QED BY <1>8, <1>9, <1>10, <1>11, <1>12 DEF StepOK, LostStep

LEMMA GcStepOK == ASSUME Inv, Gc PROVE StepOK
<1>1. PICK dead : dead = {p \in Procs : status[p] = "dead"}
  OBVIOUS
<1>2. PICK F : F = UNION {SpaceFrames(space[p]) : p \in dead}
  OBVIOUS
<1>3. /\ pmm' = PmmFree(pmm, F)
      /\ status' = [p \in Procs |-> IF p \in dead THEN "none" ELSE status[p]]
      /\ space' = [p \in Procs |-> IF p \in dead THEN NoSpace ELSE space[p]]
      /\ umap' = [p \in Procs |-> IF p \in dead THEN << >> ELSE umap[p]]
      /\ heap' = [p \in Procs |-> IF p \in dead THEN 0 ELSE heap[p]]
      /\ ret'.call = "gc" /\ kern' = kern /\ devUsed' = devUsed /\ booted' = booted
  BY <1>1, <1>2 DEF Gc, Ret
<1>4. /\ status \in [Procs -> {"none", "live", "dead"}] /\ space \in [Procs -> SpaceSet]
      /\ umap \in [Procs -> Seq(Region)] /\ heap \in [Procs -> Nat] /\ devUsed \in [Procs -> Nat]
      /\ booted \in BOOLEAN /\ kern \subseteq Pages
  BY DEF Inv, Shape
<1>5. /\ PmmOK(pmm) /\ 0 \in kern /\ kern \subseteq pmm.bits
      /\ \A p \in Alive : OwnOnce(space[p]) /\ SpaceFrames(space[p]) \subseteq pmm.bits \ kern
      /\ \A p, q \in Alive : p # q => SpaceFrames(space[p]) \cap SpaceFrames(space[q]) = {}
  BY DEF Inv, Owned
<1>6. \A p \in Procs : \/ p \in dead /\ status'[p] = "none" /\ space'[p] = NoSpace /\ umap'[p] = << >> /\ heap'[p] = 0
                       \/ /\ p \notin dead /\ status'[p] = status[p] /\ space'[p] = space[p]
                          /\ umap'[p] = umap[p] /\ heap'[p] = heap[p]
  BY <1>3
<1>7. dead \subseteq Alive /\ Alive' = Alive \ dead
  <2>1. dead \subseteq Alive
    BY <1>1 DEF Alive
  <2> QED BY <1>6, <2>1 DEF Alive
<1>8. F \subseteq pmm.bits \ kern /\ 0 \notin F
  BY <1>2, <1>5, <1>7
<1>9. PmmOK(pmm') /\ pmm'.bits = pmm.bits \ F
  <2>1. F \ {0} = F
    BY <1>8
  <2> QED BY <1>3, <1>5, <2>1, PmmFreeOK
<1>10. \A p \in Alive' : SpaceFrames(space[p]) \cap F = {} /\ space'[p] = space[p] /\ umap'[p] = umap[p] /\ heap'[p] = heap[p]
  <2>1. ASSUME NEW p \in Alive \ dead PROVE SpaceFrames(space[p]) \cap F = {}
    BY <1>2, <1>5, <1>7, <2>1
  <2>2. \A p \in Alive \ dead : p \in Procs
    BY DEF Alive
  <2> QED BY <1>6, <1>7, <2>1, <2>2
<1>11. Shape'
  <2>1. status' \in [Procs -> {"none", "live", "dead"}]
    BY <1>3, <1>4
  <2>2. space' \in [Procs -> SpaceSet]
    BY <1>3, <1>4, NoSpaceOK
  <2>3. umap' \in [Procs -> Seq(Region)]
    <3>1. << >> \in Seq(Region)
      OBVIOUS
    <3> QED BY <1>3, <1>4, <3>1
  <2>4. heap' \in [Procs -> Nat]
    BY <1>3, <1>4
  <2> QED BY <1>3, <1>4, <2>1, <2>2, <2>3, <2>4 DEF Shape
<1>12. Owned'
  <2>1. kern' \subseteq pmm'.bits
    BY <1>3, <1>5, <1>8, <1>9
  <2>2. \A p \in Alive' : OwnOnce(space'[p]) /\ SpaceFrames(space'[p]) \subseteq pmm'.bits \ kern'
    BY <1>3, <1>5, <1>7, <1>9, <1>10
  <2>3. \A p, q \in Alive' : p # q => SpaceFrames(space'[p]) \cap SpaceFrames(space'[q]) = {}
    BY <1>5, <1>7, <1>10
  <2> QED BY <1>3, <1>5, <1>9, <2>1, <2>2, <2>3 DEF Owned
<1>13. Idle'
  BY <1>6 DEF Inv, Idle
<1>14. \A p \in Alive' : RegionsOK(umap'[p], heap'[p], space'[p])
  BY <1>7, <1>10 DEF Inv
<1>15. Inv'
  BY <1>3, <1>7, <1>11, <1>12, <1>13, <1>14 DEF Inv
<1>16. LowRegions => LowRegions'
  BY <1>7, <1>10 DEF LowRegions
<1>17. Orphans' = Orphans
  <2>1. UNION {SpaceFrames(space[p]) : p \in Alive} = F \cup UNION {SpaceFrames(space'[p]) : p \in Alive'}
    BY <1>2, <1>7, <1>10
  <2> QED BY <1>3, <1>9, <2>1 DEF Orphans
<1>18. HolesStep
  <2>1. ASSUME NEW p \in Procs, status'[p] = "live" PROVE status[p] = "live" /\ Holes(p)' \subseteq Holes(p)
    <3>1. status[p] = "live" /\ umap'[p] = umap[p] /\ space'[p] = space[p]
      BY <1>6, <2>1
    <3> QED BY <1>15, <3>1, HolesSame
  <2> QED BY <2>1 DEF HolesStep
<1>19. MmapStep
  BY <1>3 DEF MmapStep
<1> QED BY <1>15, <1>16, <1>17, <1>18, <1>19 DEF StepOK, LostStep

LEMMA BootStepOK ==
  ASSUME Inv, NEW high \in BOOLEAN, Boot(high)
  PROVE  StepOK
<1>1. /\ ~booted /\ kern' = pmm'.bits /\ booted' = TRUE /\ space' = space /\ umap' = umap /\ heap' = heap
      /\ status' = status /\ devUsed' = devUsed /\ ret' = ret
      /\ pmm' = PmmAlloc(IF high THEN DeviceTables(pmm) ELSE pmm, 1).pmm
  BY DEF Boot, procVars
<1>2. Alive = {} /\ Alive' = {}
  BY <1>1 DEF Inv, Alive
<1>3. PmmOK(pmm) /\ 0 \in kern
  BY DEF Inv, Owned
<1>4. \A m : PmmOK(m) => PmmOK(PmmAlloc(m, 1).pmm)
  BY PmmAllocOK DEF Alloced
<1>5. PmmOK(DeviceTables(pmm))
  BY <1>3, <1>4 DEF DeviceTables
<1>6. PmmOK(pmm')
  BY <1>1, <1>3, <1>4, <1>5
<1>7. Shape'
  BY <1>1, <1>6 DEF Inv, Shape, PmmOK
<1>8. Owned'
  BY <1>1, <1>2, <1>6 DEF Owned, PmmOK
<1>9. Idle'
  BY <1>1 DEF Inv, Idle
<1>10. Inv' /\ LowRegions'
  BY <1>1, <1>2, <1>7, <1>8, <1>9 DEF Inv, LowRegions
<1>11. HolesStep
  BY <1>1, <1>2 DEF HolesStep, Alive
<1>12. MmapStep
  BY <1>1 DEF MmapStep
<1> QED BY <1>1, <1>10, <1>11, <1>12 DEF StepOK, LostStep
-----------------------------------------------------------------------------
(* The specification *)

LEMMA NextStepOK == Inv /\ [Next]_vars => StepOK
<1> SUFFICES ASSUME Inv, [Next]_vars PROVE StepOK
  OBVIOUS
<1>1. ASSUME NEW high \in BOOLEAN, Boot(high) PROVE StepOK
  BY <1>1, BootStepOK
<1>2. CASE Gc
  BY <1>2, GcStepOK
<1>3. ASSUME NEW p \in Procs, NEW k \in BOOLEAN, NEW img \in Images, ExecElf(p, img, k) PROVE StepOK
  BY <1>3, ExecStepOK
<1>4. ASSUME NEW p \in Procs, NEW k \in BOOLEAN, NEW n \in CodeSizes, CreateArgs(p, n, k) PROVE StepOK
  BY <1>4, AppStepOK
<1>5. ASSUME NEW p \in Procs, NEW n \in MmapSizes, SysMmap(p, IF n = 0 THEN 1 ELSE n) PROVE StepOK
  <2>1. (IF n = 0 THEN 1 ELSE n) \in Nat \ {0}
    BY SizesAssumption
  <2> QED BY <1>5, <2>1, MmapStepOK
<1>6. ASSUME NEW p \in Procs, NEW f \in DevFrames, NEW n \in 1 .. DevMax + 1, SysDevMap(p, f, n) PROVE StepOK
  <2>1. f \in Nat /\ n \in Nat
    BY SizesAssumption
  <2> QED BY <1>6, <2>1, DevStepOK
<1>7. ASSUME NEW p \in Procs, NEW va \in Probes, SysV2p(p, va) PROVE StepOK
  BY <1>7, V2pStepOK
<1>8. ASSUME NEW p \in Procs, Exit(p) PROVE StepOK
  BY <1>8, ExitStepOK
<1>9. CASE UNCHANGED vars
  BY <1>9, StutterOK
<1> QED BY <1>1, <1>2, <1>3, <1>4, <1>5, <1>6, <1>7, <1>8, <1>9 DEF Next

\* The inductive invariant: every marked page has at most one owner, a process's heap is its last
\* region and ends at the top, and only device pages lie above the top
THEOREM InvHolds == Spec => []Inv
<1>1. Init => Inv
  BY InitInv
<1>2. Inv /\ [Next]_vars => Inv'
  BY NextStepOK DEF StepOK
<1> QED BY <1>1, <1>2, PTL DEF Spec

LEMMA LowHolds == Spec => []LowRegions
<1>1. Init => LowRegions
  BY InitInv
<1>2. Inv /\ LowRegions /\ [Next]_vars => LowRegions'
  BY NextStepOK, LayoutAssumption DEF StepOK
<1> QED BY <1>1, <1>2, InvHolds, PTL DEF Spec

\* The types, for programs laid out as userspace.ld lays them out: no region of a process reaches
\* the device pages, and no leaf lies outside user space
THEOREM TypesHold == Spec => []TypeOK
<1>1. Inv /\ LowRegions => TypeOK
  BY TypesRight
<1> QED BY <1>1, InvHolds, LowHolds, PTL

\* The counter behind pmm_free_mem is right whatever pmm_alloc and pmm_free are asked
THEOREM UsedIsCounted == Spec => []UsedCounted
<1>1. Inv => UsedCounted
  BY CountsRight
<1> QED BY <1>1, InvHolds, PTL

\* No page serves twice, for any memory map, any programs and any order of calls
THEOREM FramesAreExclusive == Spec => []FramesExclusive
<1>1. Inv => FramesExclusive
  BY OwnersExclusive
<1> QED BY <1>1, InvHolds, PTL

\* No system call makes user_ptr_ok vouch for a page that is not mapped
THEOREM HolesDoNotGrow == Spec => NoNewHoles
<1>1. Inv /\ [Next]_vars => HolesStep
  BY NextStepOK DEF StepOK
<1> QED BY <1>1, InvHolds, PTL DEF Spec, NoNewHoles, HolesStep

\* SYS_MMAP gives everything or changes nothing
THEOREM MmapIsAtomic == Spec => MmapAllOrNothing
<1>1. Inv /\ [Next]_vars => MmapStep
  BY NextStepOK DEF StepOK
<1> QED BY <1>1, InvHolds, PTL DEF Spec, MmapAllOrNothing, MmapStep

\* Pages are lost only by a creation over a process not yet collected, which loses exactly that
\* one's, and by the creation paths that give nothing back, for programs laid out as userspace.ld
\* lays them out
THEOREM OnlyCreationLoses == Spec => LossAccounted
<1>1. Inv /\ LowRegions /\ [Next]_vars => LostStep
  BY NextStepOK, LayoutAssumption DEF StepOK
<1> QED BY <1>1, InvHolds, LowHolds, PTL DEF Spec, LossAccounted, LostStep
-----------------------------------------------------------------------------
(* The kernel's heap: the blocks of the list tile the units of its pages *)

Blocks == [addr : Nat, size : Nat, free : BOOLEAN]
EndOf(b) == b.addr + Hdr + b.size
Cover(ns) == UNION {Extent(ns[i]) : i \in 1 .. Len(ns)}
Tiles(ns, U) ==
  /\ ns \in Seq(Blocks) /\ Len(ns) > 0 /\ Cover(ns) = U
  /\ \A i \in 1 .. Len(ns), j \in 1 .. Len(ns) : i # j => Extent(ns[i]) \cap Extent(ns[j]) = {}

\* The blocks in use are the ones that callers hold, each as large as was asked
Lent(ns, live) ==
  /\ \A i \in 1 .. Len(ns) : ns[i].free <=> ns[i].addr \notin DOMAIN live
  /\ \A a \in DOMAIN live : \E i \in 1 .. Len(ns) : ns[i].addr = a /\ ns[i].size >= live[a]

NoTwoFree(ns) == \A i \in 1 .. Len(ns), j \in 1 .. Len(ns) : j = i + 1 => ~(ns[i].free /\ ns[j].free)

LEMMA KSizesAre ==
  /\ Hdr \in Nat \ {0} /\ MinSplit \in Nat \ {0} /\ FirstSize \in Nat /\ MoreSize \in Nat
  /\ FirstSize - Hdr \in Nat /\ MoreSize - Hdr \in Nat
BY KSizesAssumption

LEMMA BlockType ==
  ASSUME NEW ns \in Seq(Blocks), NEW i \in 1 .. Len(ns)
  PROVE  /\ ns[i] \in Blocks /\ ns[i].addr \in Nat /\ ns[i].size \in Nat /\ ns[i].free \in BOOLEAN
         /\ EndOf(ns[i]) \in Nat /\ ns[i].addr < EndOf(ns[i])
<1>1. ns[i] \in Blocks
  BY ElementOfSeq
<1>2. PICK a, s \in Nat : a = ns[i].addr /\ s = ns[i].size
  BY <1>1 DEF Blocks
<1>3. a + Hdr + s \in Nat /\ a < a + Hdr + s
  BY KSizesAre
<1> QED BY <1>1, <1>2, <1>3 DEF Blocks, EndOf

LEMMA LastUnit == ASSUME NEW a \in Nat, NEW h \in Nat, NEW s \in Nat PROVE a + h + s - 1 = (a + h + s) - 1
OBVIOUS

LEMMA Further == ASSUME NEW a \in Nat, NEW h \in Nat \ {0}, NEW s \in Nat PROVE a + h + s \in Nat /\ a < a + h + s
OBVIOUS

LEMMA Regroup ==
  ASSUME NEW a \in Nat, NEW h \in Nat, NEW s \in Nat, NEW t \in Nat
  PROVE  a + h + (s + h + t) = (a + h + s) + h + t
OBVIOUS

LEMMA ExtentIs ==
  ASSUME NEW ns \in Seq(Blocks), NEW i \in 1 .. Len(ns), NEW a \in Nat, NEW x \in Nat, a = ns[i].addr, x = EndOf(ns[i])
  PROVE  Extent(ns[i]) = a .. x - 1
<1>1. PICK s \in Nat : s = ns[i].size
  BY BlockType
<1>2. PICK h \in Nat : h = Hdr
  BY KSizesAre
<1>3. x = a + h + s
  BY <1>1, <1>2 DEF EndOf
<1>4. Extent(ns[i]) = a .. a + h + s - 1
  BY <1>1, <1>2 DEF Extent
<1>5. a + h + s - 1 = x - 1
  <2>1. a \in Nat /\ h \in Nat /\ s \in Nat
    OBVIOUS
  <2>2. a + h + s - 1 = (a + h + s) - 1
    BY ONLY <2>1, LastUnit
  <2> QED BY <1>3, <2>2
<1> QED BY <1>4, <1>5

LEMMA BlockAddress ==
  ASSUME NEW b, NEW a \in Nat, NEW s \in Nat, b.addr = a, b.size = s
  PROVE  a \in Extent(b)
<1>1. PICK h \in Nat \ {0} : h = Hdr
  BY KSizesAre
<1>2. Extent(b) = a .. a + h + s - 1
  BY <1>1 DEF Extent
<1>3. a \in a .. a + h + s - 1
  BY <1>1
<1> QED BY <1>2, <1>3

LEMMA OwnAddress ==
  ASSUME NEW ns \in Seq(Blocks), NEW i \in 1 .. Len(ns)
  PROVE  ns[i].addr \in Extent(ns[i])
<1>1. PICK a, x \in Nat : a = ns[i].addr /\ x = EndOf(ns[i]) /\ a < x
  BY BlockType
<1>2. Extent(ns[i]) = a .. x - 1
  BY <1>1, ExtentIs
<1> QED BY <1>1, <1>2

\* Two blocks that touch make up one
LEMMA TwoExtents ==
  ASSUME NEW a \in Nat, NEW s \in Nat, NEW t \in Nat, NEW x, NEW y, NEW z,
         x.addr = a, x.size = s, y.addr = a + Hdr + s, y.size = t, z.addr = a, z.size = s + Hdr + t
  PROVE  Extent(x) \cup Extent(y) = Extent(z) /\ Extent(x) \cap Extent(y) = {}
<1>1. PICK h \in Nat \ {0} : h = Hdr
  BY KSizesAre
<1>2. Extent(x) = a .. a + h + s - 1 /\ Extent(y) = a + h + s .. (a + h + s) + h + t - 1
      /\ Extent(z) = a .. a + h + (s + h + t) - 1
  BY <1>1 DEF Extent
<1>3. PICK e \in Nat : e = a + h + s /\ e > a
  BY <1>1, Further
<1>4. PICK f \in Nat : f = e + h + t /\ f > e
  BY <1>1, <1>3, Further
<1>5. a + h + s - 1 = e - 1 /\ (a + h + s) + h + t - 1 = f - 1 /\ a + h + (s + h + t) - 1 = f - 1
  <2>1. a + h + (s + h + t) = f
    <3>1. a \in Nat /\ h \in Nat /\ s \in Nat /\ t \in Nat
      BY <1>1
    <3> QED BY ONLY <1>3, <1>4, <3>1, Regroup
  <2>2. a \in Nat /\ h \in Nat /\ s \in Nat /\ t \in Nat
    BY <1>1
  <2>3. a + h + (s + h + t) - 1 = (a + h + (s + h + t)) - 1
    <3>1. s + h + t \in Nat
      BY ONLY <2>2
    <3> QED BY ONLY <2>2, <3>1, LastUnit
  <2>4. a + h + s - 1 = (a + h + s) - 1
    BY ONLY <2>2, LastUnit
  <2>5. e + h + t - 1 = (e + h + t) - 1
    BY ONLY <1>3, <2>2, LastUnit
  <2> QED BY <1>3, <1>4, <2>1, <2>3, <2>4, <2>5
<1>6. (a .. e - 1) \cup (e .. f - 1) = a .. f - 1 /\ (a .. e - 1) \cap (e .. f - 1) = {}
  BY ONLY <1>3, <1>4, a \in Nat
<1> QED BY <1>2, <1>3, <1>5, <1>6

LEMMA TilesApart ==
  ASSUME NEW ns, NEW U, Tiles(ns, U), NEW i \in 1 .. Len(ns), NEW j \in 1 .. Len(ns), i # j
  PROVE  ns[i].addr # ns[j].addr /\ ns[j].addr \notin Extent(ns[i])
BY OwnAddress DEF Tiles

LEMMA TilesCover ==
  ASSUME NEW ns, NEW U, Tiles(ns, U), NEW i \in 1 .. Len(ns)
  PROVE  Extent(ns[i]) \subseteq U /\ ns[i].addr \in U
<1>1. Extent(ns[i]) \subseteq Cover(ns)
  BY DEF Cover
<1> QED BY <1>1, OwnAddress DEF Tiles

\* Two lists whose blocks begin and end alike
SameEnds(ns, r) ==
  /\ r \in Seq(Blocks) /\ Len(r) = Len(ns)
  /\ \A i \in 1 .. Len(ns) : r[i].addr = ns[i].addr /\ r[i].size = ns[i].size

LEMMA TilesSame ==
  ASSUME NEW ns, NEW U, Tiles(ns, U), NEW r, SameEnds(ns, r)
  PROVE  Tiles(r, U)
<1>1. PICK n \in Nat : n = Len(ns) /\ n > 0 /\ Len(r) = n
  BY DEF Tiles, SameEnds
<1>2. \A i \in 1 .. n : Extent(r[i]) = Extent(ns[i])
  BY <1>1 DEF SameEnds, Extent
<1>3. Cover(r) = Cover(ns)
  BY <1>1, <1>2 DEF Cover
<1> QED BY <1>1, <1>2, <1>3 DEF Tiles, SameEnds

\* The same list with other marks
Marked(ns, g, r) ==
  /\ ns \in Seq(Blocks) /\ g \in [1 .. Len(ns) -> BOOLEAN]
  /\ r = [i \in 1 .. Len(ns) |-> [ns[i] EXCEPT !.free = g[i]]]

LEMMA Remarked ==
  ASSUME NEW ns, NEW g, NEW r, Marked(ns, g, r)
  PROVE  SameEnds(ns, r) /\ \A i \in 1 .. Len(ns) : r[i].free = g[i]
<1>0. /\ ns \in Seq(Blocks) /\ g \in [1 .. Len(ns) -> BOOLEAN]
      /\ r = [i \in 1 .. Len(ns) |-> [ns[i] EXCEPT !.free = g[i]]]
  BY DEF Marked
<1>1. PICK n \in Nat : n = Len(ns)
  BY <1>0
<1>2. ASSUME NEW i \in 1 .. n
      PROVE  r[i] \in Blocks /\ r[i].addr = ns[i].addr /\ r[i].size = ns[i].size /\ r[i].free = g[i]
  <2>1. ns[i] \in Blocks /\ r[i] = [ns[i] EXCEPT !.free = g[i]] /\ g[i] \in BOOLEAN
    BY <1>0, <1>1, BlockType
  <2> QED BY <2>1 DEF Blocks
<1>3. r \in Seq(Blocks) /\ Len(r) = n
  <2>1. r \in [1 .. n -> Blocks]
    BY <1>0, <1>1, <1>2
  <2> QED BY <1>1, <2>1
<1> QED BY <1>1, <1>2, <1>3 DEF SameEnds

\* A list is cut in two at place i: r is ns with ns[i] replaced by x and y
CutAt(ns, i, x, y, r) ==
  /\ r \in Seq(Blocks) /\ Len(r) = Len(ns) + 1
  /\ \A j \in 1 .. Len(ns) + 1 :
       /\ j < i => r[j] = ns[j]
       /\ j = i => r[j] = x
       /\ j = i + 1 => r[j] = y
       /\ j > i + 1 => r[j] = ns[j - 1]

LEMMA CutIs ==
  ASSUME NEW ns \in Seq(Blocks), NEW i \in 1 .. Len(ns), NEW x \in Blocks, NEW y \in Blocks
  PROVE  CutAt(ns, i, x, y, SubSeq(ns, 1, i - 1) \o <<x, y>> \o SubSeq(ns, i + 1, Len(ns)))
<1>1. PICK n \in Nat : n = Len(ns) /\ i <= n
  OBVIOUS
<1>2. PICK a : a = SubSeq(ns, 1, i - 1)
  OBVIOUS
<1>3. PICK c : c = SubSeq(ns, i + 1, n)
  OBVIOUS
<1>4. \A j \in 1 .. n : ns[j] \in Blocks
  BY <1>1, ElementOfSeq
<1>5. a \in Seq(Blocks) /\ Len(a) = i - 1 /\ \A j \in 1 .. i - 1 : a[j] = ns[j]
  <2>1. /\ SubSeq(ns, 1, i - 1) \in Seq(Blocks)
        /\ Len(SubSeq(ns, 1, i - 1)) = (IF 1 <= i - 1 THEN (i - 1) - 1 + 1 ELSE 0)
        /\ \A j \in 1 .. (i - 1) - 1 + 1 : SubSeq(ns, 1, i - 1)[j] = ns[1 + j - 1]
    <3>1. 1 \in Int /\ i - 1 \in Int /\ \A j \in 1 .. i - 1 : ns[j] \in Blocks
      BY <1>1, <1>4
    <3> QED BY <3>1, SubSeqProperties
  <2>2. (i - 1) - 1 + 1 = i - 1 /\ (IF 1 <= i - 1 THEN i - 1 ELSE 0) = i - 1 /\ \A j \in 1 .. i - 1 : 1 + j - 1 = j
    BY <1>1
  <2> QED BY <1>2, <2>1, <2>2
<1>6. c \in Seq(Blocks) /\ Len(c) = n - i /\ \A j \in 1 .. n - i : c[j] = ns[i + j]
  <2>1. /\ SubSeq(ns, i + 1, n) \in Seq(Blocks)
        /\ Len(SubSeq(ns, i + 1, n)) = (IF i + 1 <= n THEN n - (i + 1) + 1 ELSE 0)
        /\ \A j \in 1 .. n - (i + 1) + 1 : SubSeq(ns, i + 1, n)[j] = ns[(i + 1) + j - 1]
    <3>1. i + 1 \in Int /\ n \in Int /\ \A j \in i + 1 .. n : ns[j] \in Blocks
      BY <1>1, <1>4
    <3> QED BY <3>1, SubSeqProperties
  <2>2. n - (i + 1) + 1 = n - i /\ (IF i + 1 <= n THEN n - i ELSE 0) = n - i
    BY <1>1
  <2>3. \A j \in 1 .. n - i : (i + 1) + j - 1 = i + j
    BY <1>1
  <2> QED BY <1>3, <2>1, <2>2, <2>3
<1>7. PICK b : b = <<x, y>> /\ b \in Seq(Blocks) /\ Len(b) = 2 /\ b[1] = x /\ b[2] = y
  <2>1. Len(<<x, y>>) = 2 /\ <<x, y>>[1] = x /\ <<x, y>>[2] = y
    OBVIOUS
  <2>2. <<x, y>> \in Seq(Blocks)
    <3>1. PICK S : S = Blocks
      OBVIOUS
    <3>2. x \in S /\ y \in S
      BY <3>1
    <3>3. <<x, y>> \in Seq(S)
      BY ONLY <3>2
    <3> QED BY <3>1, <3>3
  <2> QED BY <2>1, <2>2
<1>8. PICK d : d = a \o b
  OBVIOUS
<1>9. /\ d \in Seq(Blocks) /\ Len(d) = i + 1
      /\ \A j \in 1 .. i + 1 : d[j] = IF j <= i - 1 THEN a[j] ELSE b[j - (i - 1)]
  <2>1. /\ d \in Seq(Blocks) /\ Len(d) = (i - 1) + 2
        /\ \A j \in 1 .. (i - 1) + 2 : d[j] = IF j <= i - 1 THEN a[j] ELSE b[j - (i - 1)]
    BY <1>5, <1>7, <1>8, ConcatProperties
  <2>2. (i - 1) + 2 = i + 1
    BY <1>1
  <2> QED BY <2>1, <2>2
<1>10. PICK r : r = d \o c
  OBVIOUS
<1>11. /\ r \in Seq(Blocks) /\ Len(r) = n + 1
       /\ \A j \in 1 .. n + 1 : r[j] = IF j <= i + 1 THEN d[j] ELSE c[j - (i + 1)]
  <2>1. /\ r \in Seq(Blocks) /\ Len(r) = (i + 1) + (n - i)
        /\ \A j \in 1 .. (i + 1) + (n - i) : r[j] = IF j <= i + 1 THEN d[j] ELSE c[j - (i + 1)]
    <3>1. /\ r \in Seq(Blocks) /\ Len(r) = Len(d) + Len(c)
          /\ \A j \in 1 .. Len(d) + Len(c) : r[j] = IF j <= Len(d) THEN d[j] ELSE c[j - Len(d)]
      BY ONLY <1>6, <1>9, <1>10, ConcatProperties
    <3>2. Len(d) = i + 1 /\ Len(c) = n - i
      BY <1>6, <1>9
    <3> QED BY <3>1, <3>2
  <2>2. (i + 1) + (n - i) = n + 1
    BY <1>1
  <2> QED BY <2>1, <2>2
<1>12. ASSUME NEW j \in 1 .. n + 1, j < i PROVE r[j] = ns[j]
  <2>1. j \in 1 .. i + 1 /\ j <= i + 1 /\ j <= i - 1 /\ j \in 1 .. i - 1
    BY <1>1, <1>12
  <2> QED BY <1>5, <1>9, <1>11, <2>1
<1>13. r[i] = x
  <2>1. i \in 1 .. n + 1 /\ i \in 1 .. i + 1 /\ i <= i + 1 /\ ~(i <= i - 1) /\ i - (i - 1) = 1
    BY <1>1
  <2> QED BY <1>7, <1>9, <1>11, <2>1
<1>14. r[i + 1] = y
  <2>1. i + 1 \in 1 .. n + 1 /\ i + 1 \in 1 .. i + 1 /\ ~(i + 1 <= i - 1) /\ (i + 1) - (i - 1) = 2 /\ i + 1 <= i + 1
    BY <1>1
  <2> QED BY <1>7, <1>9, <1>11, <2>1
<1>15. ASSUME NEW j \in 1 .. n + 1, j > i + 1 PROVE r[j] = ns[j - 1]
  <2>1. ~(j <= i + 1) /\ j - (i + 1) \in 1 .. n - i /\ i + (j - (i + 1)) = j - 1
    BY <1>1, <1>15
  <2> QED BY <1>6, <1>11, <2>1
<1>16. CutAt(ns, i, x, y, r)
  BY <1>1, <1>11, <1>12, <1>13, <1>14, <1>15 DEF CutAt
<1> QED BY <1>1, <1>2, <1>3, <1>7, <1>8, <1>10, <1>16
-----------------------------------------------------------------------------
(* kmalloc *)

\* The list after kmalloc took block i
Taken(ns, i, n, U, live, r) ==
  /\ Tiles(r, U)
  /\ Lent(r, [x \in DOMAIN live \cup {ns[i].addr} |-> IF x = ns[i].addr THEN n ELSE live[x]])

LEMMA NewLender ==
  ASSUME NEW live, NEW a, NEW n, NEW l, l = [x \in DOMAIN live \cup {a} |-> IF x = a THEN n ELSE live[x]]
  PROVE  DOMAIN l = DOMAIN live \cup {a} /\ l[a] = n /\ \A x \in DOMAIN live : x # a => l[x] = live[x]
OBVIOUS

LEMMA CarveWhole ==
  ASSUME NEW ns, NEW U, Tiles(ns, U), NEW live, Lent(ns, live), NEW n \in Nat, NEW i \in Fits(ns, n),
         NEW c, c = [ns EXCEPT ![i].free = FALSE]
  PROVE  Taken(ns, i, n, U, live, c)
<1>1. ns \in Seq(Blocks) /\ i \in 1 .. Len(ns) /\ ns[i].free /\ ns[i].size >= n
  BY DEF Tiles, Fits
<1>2. PICK g : g = [j \in 1 .. Len(ns) |-> IF j = i THEN FALSE ELSE ns[j].free]
  OBVIOUS
<1>3. g \in [1 .. Len(ns) -> BOOLEAN]
  BY <1>1, <1>2, BlockType
<1>4. PICK r : r = [j \in 1 .. Len(ns) |-> [ns[j] EXCEPT !.free = g[j]]]
  OBVIOUS
<1>5. SameEnds(ns, r) /\ \A j \in 1 .. Len(ns) : r[j].free = g[j]
  <2>1. Marked(ns, g, r)
    BY <1>1, <1>3, <1>4 DEF Marked
  <2> QED BY ONLY <2>1, Remarked
<1>6. [ns EXCEPT ![i].free = FALSE] = r
  <2>1. ASSUME NEW j \in 1 .. Len(ns), j # i PROVE [ns[j] EXCEPT !.free = g[j]] = ns[j]
    <3>1. ns[j] \in Blocks /\ g[j] = ns[j].free
      BY <1>1, <1>2, <2>1, BlockType
    <3> QED BY <3>1 DEF Blocks
  <2>2. DOMAIN ns = 1 .. Len(ns)
    BY <1>1
  <2>3. [ns EXCEPT ![i].free = FALSE] = [j \in 1 .. Len(ns) |-> IF j = i THEN [ns[i] EXCEPT !.free = FALSE] ELSE ns[j]]
    BY <1>1, <2>2
  <2>4. g[i] = FALSE
    BY <1>1, <1>2
  <2> QED BY <1>4, <2>1, <2>3, <2>4
<1>7. Tiles(r, U)
  BY <1>5, TilesSame
<1>8. PICK l : l = [x \in DOMAIN live \cup {ns[i].addr} |-> IF x = ns[i].addr THEN n ELSE live[x]]
  OBVIOUS
<1>9. DOMAIN l = DOMAIN live \cup {ns[i].addr} /\ l[ns[i].addr] = n /\ \A x \in DOMAIN live : x # ns[i].addr => l[x] = live[x]
  BY <1>8, NewLender
<1>10. Len(r) = Len(ns) /\ \A j \in 1 .. Len(ns) : r[j].addr = ns[j].addr /\ r[j].size = ns[j].size
  BY <1>5 DEF SameEnds
<1>11. ASSUME NEW j \in 1 .. Len(ns) PROVE r[j].free <=> r[j].addr \notin DOMAIN l
  <2>1. CASE j = i
    BY <1>1, <1>2, <1>5, <1>9, <1>10, <2>1
  <2>2. CASE j # i
    <3>1. ns[j].addr # ns[i].addr
      BY <1>1, <2>2, TilesApart
    <3>2. ns[j].free <=> ns[j].addr \notin DOMAIN live
      BY DEF Lent
    <3>3. r[j].free = ns[j].free
      BY <1>2, <1>5, <2>2
    <3> QED BY <1>9, <1>10, <3>1, <3>2, <3>3
  <2> QED BY <2>1, <2>2
<1>12. ASSUME NEW a \in DOMAIN l PROVE \E j \in 1 .. Len(ns) : r[j].addr = a /\ r[j].size >= l[a]
  <2>1. CASE a = ns[i].addr
    BY <1>1, <1>9, <1>10, <2>1
  <2>2. CASE a # ns[i].addr
    <3>1. a \in DOMAIN live /\ l[a] = live[a]
      BY <1>9, <1>12, <2>2
    <3> QED BY <1>10, <3>1 DEF Lent
  <2> QED BY <2>1, <2>2
<1>13. Lent(r, l)
  BY <1>10, <1>11, <1>12 DEF Lent
<1> QED BY <1>6, <1>7, <1>8, <1>13 DEF Taken

LEMMA SplitTwo ==
  ASSUME NEW ns, NEW U, Tiles(ns, U), NEW live, Lent(ns, live), NEW n \in Nat, NEW i \in 1 .. Len(ns), ns[i].free,
         NEW x \in Blocks, NEW y \in Blocks, x.addr = ns[i].addr, x.size = n, ~x.free, y.free,
         y.addr \in Extent(ns[i]), y.addr # ns[i].addr,
         Extent(x) \cup Extent(y) = Extent(ns[i]), Extent(x) \cap Extent(y) = {}, NEW r, CutAt(ns, i, x, y, r)
  PROVE  Taken(ns, i, n, U, live, r)
<1>1. /\ ns \in Seq(Blocks) /\ Len(ns) > 0 /\ Cover(ns) = U
      /\ \A j \in 1 .. Len(ns), k \in 1 .. Len(ns) : j # k => Extent(ns[j]) \cap Extent(ns[k]) = {}
  BY DEF Tiles
<1>2. PICK m \in Nat : m = Len(ns) /\ m > 0 /\ i \in 1 .. m
  BY <1>1
<1>3. /\ r \in Seq(Blocks) /\ Len(r) = m + 1
      /\ \A j \in 1 .. m + 1 : /\ j < i => r[j] = ns[j]
                               /\ j = i => r[j] = x
                               /\ j = i + 1 => r[j] = y
                               /\ j > i + 1 => r[j] = ns[j - 1]
  BY <1>2 DEF CutAt
\* the place in ns that block j of r comes from
<1>4. PICK f : f = [j \in 1 .. m + 1 |-> IF j <= i THEN j ELSE j - 1]
  OBVIOUS
<1>5. ASSUME NEW j \in 1 .. m + 1
      PROVE  /\ f[j] \in 1 .. m /\ Extent(r[j]) \subseteq Extent(ns[f[j]])
             /\ f[j] = i => j \in {i, i + 1}
  <2>1. CASE j < i
    <3>1. f[j] = j /\ r[j] = ns[j] /\ j \in 1 .. m /\ j # i
      BY <1>2, <1>3, <1>4, <2>1
    <3> QED BY <3>1
  <2>2. CASE j = i
    <3>1. f[j] = i /\ r[j] = x
      BY <1>2, <1>3, <1>4, <2>2
    <3> QED BY <1>2, <2>2, <3>1
  <2>3. CASE j = i + 1
    <3>1. f[j] = i /\ r[j] = y
      BY <1>2, <1>3, <1>4, <2>3
    <3> QED BY <1>2, <2>3, <3>1
  <2>4. CASE j > i + 1
    <3>1. f[j] = j - 1 /\ r[j] = ns[j - 1] /\ j - 1 \in 1 .. m /\ j - 1 # i
      BY <1>2, <1>3, <1>4, <2>4
    <3> QED BY <3>1
  <2> QED BY <1>2, <2>1, <2>2, <2>3, <2>4
<1>6. ASSUME NEW j \in 1 .. m + 1, NEW k \in 1 .. m + 1, j # k PROVE Extent(r[j]) \cap Extent(r[k]) = {}
  <2>1. CASE f[j] # f[k]
    BY <1>1, <1>2, <1>5, <2>1
  <2>2. CASE f[j] = f[k]
    <3>1. (j = i /\ k = i + 1) \/ (j = i + 1 /\ k = i)
      BY <1>2, <1>4, <1>6, <2>2
    <3>2. r[i] = x /\ r[i + 1] = y
      BY <1>2, <1>3
    <3> QED BY <3>1, <3>2
  <2> QED BY <2>1, <2>2
<1>7. Tiles(r, U)
  <2>1. ASSUME NEW u \in Cover(r) PROVE u \in U
    <3>1. PICK j \in 1 .. m + 1 : u \in Extent(r[j])
      BY <1>3, <2>1 DEF Cover
    <3>2. f[j] \in 1 .. m /\ u \in Extent(ns[f[j]])
      BY <1>5, <3>1
    <3> QED BY <1>1, <1>2, <3>2 DEF Cover
  <2>2. ASSUME NEW u \in U PROVE u \in Cover(r)
    <3>1. PICK j \in 1 .. m : u \in Extent(ns[j])
      BY <1>1, <1>2, <2>2 DEF Cover
    <3>2. PICK k \in 1 .. m + 1 : u \in Extent(r[k])
      <4>1. CASE j < i
        <5>1. j \in 1 .. m + 1 /\ r[j] = ns[j]
          BY <1>2, <1>3, <4>1
        <5> QED BY <3>1, <5>1
      <4>2. CASE j = i
        <5>1. i \in 1 .. m + 1 /\ i + 1 \in 1 .. m + 1 /\ r[i] = x /\ r[i + 1] = y
          BY <1>2, <1>3
        <5> QED BY <3>1, <4>2, <5>1
      <4>3. CASE j > i
        <5>1. j + 1 \in 1 .. m + 1 /\ j + 1 > i + 1 /\ (j + 1) - 1 = j
          BY <1>2, <4>3
        <5>2. r[j + 1] = ns[j]
          BY <1>3, <5>1
        <5> QED BY <3>1, <5>1, <5>2
      <4> QED BY <1>2, <4>1, <4>2, <4>3
    <3> QED BY <1>3, <3>2 DEF Cover
  <2>3. Cover(r) = U
    BY <2>1, <2>2
  <2> QED BY <1>2, <1>3, <1>6, <2>3 DEF Tiles
<1>8. PICK l : l = [z \in DOMAIN live \cup {ns[i].addr} |-> IF z = ns[i].addr THEN n ELSE live[z]]
  OBVIOUS
<1>9. DOMAIN l = DOMAIN live \cup {ns[i].addr} /\ l[ns[i].addr] = n /\ \A z \in DOMAIN live : z # ns[i].addr => l[z] = live[z]
  BY <1>8, NewLender
<1>10. ASSUME NEW j \in 1 .. m, j # i PROVE ns[j].free <=> ns[j].addr \notin DOMAIN l
  <2>1. ns[j].addr # ns[i].addr
    BY <1>2, <1>10, TilesApart
  <2>2. ns[j].free <=> ns[j].addr \notin DOMAIN live
    BY <1>2 DEF Lent
  <2> QED BY <1>9, <2>1, <2>2
<1>11. y.addr \notin DOMAIN l
  <2>1. y.addr # ns[i].addr
    OBVIOUS
  <2>2. ASSUME y.addr \in DOMAIN live PROVE FALSE
    <3>1. PICK k \in 1 .. m : ns[k].addr = y.addr
      BY <1>2, <2>2 DEF Lent
    <3>2. k # i
      BY <2>1, <3>1
    <3>3. ns[k].addr \notin Extent(ns[i])
      BY <1>2, <3>2, TilesApart
    <3> QED BY <3>1, <3>3
  <2> QED BY <1>9, <2>1, <2>2
<1>12. ASSUME NEW j \in 1 .. m + 1 PROVE r[j].free <=> r[j].addr \notin DOMAIN l
  <2>1. CASE j < i
    <3>1. j \in 1 .. m /\ j # i
      BY <1>2, <2>1
    <3> QED BY <1>3, <1>10, <2>1, <3>1
  <2>2. CASE j = i
    BY <1>3, <1>9, <2>2
  <2>3. CASE j = i + 1
    BY <1>3, <1>11, <2>3
  <2>4. CASE j > i + 1
    <3>1. j - 1 \in 1 .. m /\ j - 1 # i
      BY <1>2, <2>4
    <3> QED BY <1>3, <1>10, <2>4, <3>1
  <2> QED BY <1>2, <2>1, <2>2, <2>3, <2>4
<1>13. ASSUME NEW a \in DOMAIN l PROVE \E j \in 1 .. m + 1 : r[j].addr = a /\ r[j].size >= l[a]
  <2>1. CASE a = ns[i].addr
    <3>1. i \in 1 .. m + 1 /\ r[i] = x /\ l[a] = n
      BY <1>2, <1>3, <1>9, <2>1
    <3> QED BY <2>1, <3>1
  <2>2. CASE a # ns[i].addr
    <3>1. a \in DOMAIN live /\ l[a] = live[a]
      BY <1>9, <1>13, <2>2
    <3>2. PICK k \in 1 .. m : ns[k].addr = a /\ ns[k].size >= live[a]
      BY <1>2, <3>1 DEF Lent
    <3>3. k # i
      BY <2>2, <3>2
    <3>4. CASE k < i
      <4>1. k \in 1 .. m + 1 /\ r[k] = ns[k]
        BY <1>2, <1>3, <3>4
      <4> QED BY <3>1, <3>2, <4>1
    <3>5. CASE k > i
      <4>1. k + 1 \in 1 .. m + 1 /\ k + 1 > i + 1 /\ (k + 1) - 1 = k
        BY <1>2, <3>5
      <4>2. r[k + 1] = ns[k]
        BY <1>3, <4>1
      <4> QED BY <3>1, <3>2, <4>1, <4>2
    <3> QED BY <1>2, <3>3, <3>4, <3>5
  <2> QED BY <2>1, <2>2
<1>14. Lent(r, l)
  BY <1>3, <1>12, <1>13 DEF Lent
<1> QED BY <1>7, <1>8, <1>14 DEF Taken

LEMMA CarveOK ==
  ASSUME NEW ns, NEW U, Tiles(ns, U), NEW live, Lent(ns, live), NEW n \in Nat, NEW i \in Fits(ns, n)
  PROVE  Taken(ns, i, n, U, live, Carve(ns, i, n))
<1>1. ns \in Seq(Blocks) /\ i \in 1 .. Len(ns) /\ ns[i].free
  BY DEF Tiles, Fits
<1>2. PICK a, s \in Nat : a = ns[i].addr /\ s = ns[i].size
  BY <1>1, BlockType
<1>3. CASE ns[i].size < n + Hdr + MinSplit
  <2>1. Carve(ns, i, n) = [ns EXCEPT ![i].free = FALSE]
    BY <1>3 DEF Carve
  <2> QED BY <2>1, CarveWhole
<1>4. CASE ~(ns[i].size < n + Hdr + MinSplit)
  <2>1. PICK x, y : x = Node(a, n, FALSE) /\ y = Node(a + Hdr + n, s - n - Hdr, TRUE)
    OBVIOUS
  <2>2. s - n - Hdr \in Nat /\ a + Hdr + n \in Nat
    BY <1>2, <1>4, KSizesAre
  <2>3. x \in Blocks /\ y \in Blocks
    BY <2>1, <2>2 DEF Node, Blocks
  <2>4. /\ x.addr = a /\ x.size = n /\ ~x.free /\ y.free /\ y.addr = a + Hdr + n /\ y.size = s - n - Hdr
    BY <2>1 DEF Node
  <2>5. Extent(x) \cup Extent(y) = Extent(ns[i]) /\ Extent(x) \cap Extent(y) = {}
    <3>1. PICK t \in Nat : t = s - n - Hdr /\ s = n + Hdr + t
      BY <1>2, <1>4, KSizesAre
    <3>2. n \in Nat /\ a \in Nat
      BY <1>2
    <3>3. y.size = t /\ ns[i].addr = a /\ ns[i].size = n + Hdr + t
      BY <1>2, <2>4, <3>1
    <3> QED BY ONLY <2>4, <3>1, <3>2, <3>3, TwoExtents
  <2>6. y.addr \in Extent(ns[i]) /\ y.addr # ns[i].addr
    <3>1. a # a + Hdr + n
      BY KSizesAre
    <3>2. PICK e, f \in Nat : e = y.addr /\ f = y.size
      BY <2>2, <2>4
    <3>3. y.addr \in Extent(y)
      BY <3>2, BlockAddress
    <3> QED BY <1>2, <2>4, <2>5, <3>1, <3>3
  <2>7. Carve(ns, i, n) = SubSeq(ns, 1, i - 1) \o <<x, y>> \o SubSeq(ns, i + 1, Len(ns))
    BY <1>2, <1>4, <2>1 DEF Carve
  <2>8. CutAt(ns, i, x, y, Carve(ns, i, n))
    BY <1>1, <2>3, <2>7, CutIs
  <2> QED BY <1>1, <1>2, <2>3, <2>4, <2>5, <2>6, <2>8, SplitTwo
<1> QED BY <1>3, <1>4
-----------------------------------------------------------------------------
(* More pages *)

\* The units after k answers of the PMM
Units(k) == FirstUnits \cup UNION {MoreUnits(i) : i \in 1 .. k}

LEMMA UnitsGrow ==
  ASSUME NEW k \in Nat, k + 1 <= Len(MoreAt)
  PROVE  /\ Units(k + 1) = Units(k) \cup MoreUnits(k + 1) /\ Units(k) \cap MoreUnits(k + 1) = {}
         /\ MoreAt[k + 1] \in Nat
<1>1. MoreAt \in Seq(Nat) /\ k + 1 \in 1 .. Len(MoreAt)
  BY KSizesAssumption
<1>2. 1 .. k + 1 = (1 .. k) \cup {k + 1}
  OBVIOUS
<1>3. \A j \in 1 .. k : j \in 1 .. Len(MoreAt) /\ j < k + 1
  BY <1>1
<1>4. MoreUnits(k + 1) \cap FirstUnits = {} /\ \A j \in 1 .. k : MoreUnits(k + 1) \cap MoreUnits(j) = {}
  BY <1>1, <1>3, MoreAtAssumption
<1>5. Units(k + 1) = Units(k) \cup MoreUnits(k + 1)
  BY <1>2 DEF Units
<1>6. Units(k) \cap MoreUnits(k + 1) = {}
  BY <1>4 DEF Units
<1>7. MoreAt[k + 1] \in Nat
  BY <1>1, ElementOfSeq
<1> QED BY <1>5, <1>6, <1>7

\* One block more at the end
LEMMA TilesAppend ==
  ASSUME NEW ns, NEW U, Tiles(ns, U), NEW b \in Blocks, Extent(b) \cap U = {}
  PROVE  Tiles(Append(ns, b), U \cup Extent(b))
<1>1. /\ ns \in Seq(Blocks) /\ Len(ns) > 0 /\ Cover(ns) = U
      /\ \A i \in 1 .. Len(ns), j \in 1 .. Len(ns) : i # j => Extent(ns[i]) \cap Extent(ns[j]) = {}
  BY DEF Tiles
<1>2. PICK n \in Nat : n = Len(ns) /\ n > 0
  BY <1>1
<1>3. PICK r : r = Append(ns, b)
  OBVIOUS
<1>4. r \in Seq(Blocks) /\ Len(r) = n + 1 /\ (\A i \in 1 .. n : r[i] = ns[i]) /\ r[n + 1] = b
  BY <1>1, <1>2, <1>3, AppendProperties
<1>5. Cover(r) = U \cup Extent(b)
  <2>1. ASSUME NEW u \in Cover(r) PROVE u \in U \cup Extent(b)
    <3>1. PICK i \in 1 .. n + 1 : u \in Extent(r[i])
      BY <1>4, <2>1 DEF Cover
    <3>2. CASE i = n + 1
      BY <1>4, <3>1, <3>2
    <3>3. CASE i # n + 1
      <4>1. i \in 1 .. n
        BY <1>2, <3>3
      <4>2. u \in Extent(ns[i])
        BY <1>4, <3>1, <4>1
      <4> QED BY <1>1, <1>2, <4>1, <4>2 DEF Cover
    <3> QED BY <3>2, <3>3
  <2>2. ASSUME NEW u \in U PROVE u \in Cover(r)
    <3>1. PICK i \in 1 .. n : u \in Extent(ns[i])
      BY <1>1, <1>2, <2>2 DEF Cover
    <3>2. i \in 1 .. n + 1 /\ u \in Extent(r[i])
      BY <1>2, <1>4, <3>1
    <3> QED BY <1>4, <3>2 DEF Cover
  <2>3. ASSUME NEW u \in Extent(b) PROVE u \in Cover(r)
    <3>1. n + 1 \in 1 .. n + 1 /\ u \in Extent(r[n + 1])
      BY <1>2, <1>4, <2>3
    <3> QED BY <1>4, <3>1 DEF Cover
  <2> QED BY <2>1, <2>2, <2>3
<1>6. ASSUME NEW i \in 1 .. n PROVE Extent(ns[i]) \cap Extent(b) = {}
  BY <1>2, TilesCover
<1>7. ASSUME NEW i \in 1 .. n + 1, NEW j \in 1 .. n + 1, i # j PROVE Extent(r[i]) \cap Extent(r[j]) = {}
  <2>1. CASE i = n + 1
    <3>1. j \in 1 .. n
      BY <1>7, <2>1
    <3> QED BY <1>4, <1>6, <2>1, <3>1
  <2>2. CASE j = n + 1
    <3>1. i \in 1 .. n
      BY <1>7, <2>2
    <3> QED BY <1>4, <1>6, <2>2, <3>1
  <2>3. CASE i # n + 1 /\ j # n + 1
    <3>1. i \in 1 .. n /\ j \in 1 .. n
      BY <2>3
    <3> QED BY <1>1, <1>2, <1>4, <1>7, <3>1
  <2> QED BY <2>1, <2>2, <2>3
<1>8. Tiles(r, U \cup Extent(b))
  BY <1>4, <1>5, <1>7 DEF Tiles
<1> QED BY <1>3, <1>8

LEMMA LentAppend ==
  ASSUME NEW ns, NEW U, Tiles(ns, U), NEW live, Lent(ns, live), NEW b \in Blocks, b.addr \notin U, b.free
  PROVE  Lent(Append(ns, b), live)
<1>1. ns \in Seq(Blocks)
  BY DEF Tiles
<1>2. PICK n \in Nat : n = Len(ns)
  BY <1>1
<1>3. PICK r : r = Append(ns, b)
  OBVIOUS
<1>4. r \in Seq(Blocks) /\ Len(r) = n + 1 /\ (\A i \in 1 .. n : r[i] = ns[i]) /\ r[n + 1] = b
  BY <1>1, <1>2, <1>3, AppendProperties
<1>5. b.addr \notin DOMAIN live
  <2>1. ASSUME b.addr \in DOMAIN live PROVE FALSE
    <3>1. PICK i \in 1 .. n : ns[i].addr = b.addr
      BY <1>2, <2>1 DEF Lent
    <3> QED BY <1>2, <3>1, TilesCover
  <2> QED BY <2>1
<1>6. ASSUME NEW i \in 1 .. n + 1 PROVE r[i].free <=> r[i].addr \notin DOMAIN live
  <2>1. CASE i = n + 1
    BY <1>4, <1>5, <2>1
  <2>2. CASE i # n + 1
    <3>1. i \in 1 .. n
      BY <2>2
    <3> QED BY <1>2, <1>4, <3>1 DEF Lent
  <2> QED BY <2>1, <2>2
<1>7. ASSUME NEW a \in DOMAIN live PROVE \E i \in 1 .. n + 1 : r[i].addr = a /\ r[i].size >= live[a]
  <2>1. PICK i \in 1 .. n : ns[i].addr = a /\ ns[i].size >= live[a]
    BY <1>2 DEF Lent
  <2>2. i \in 1 .. n + 1
    OBVIOUS
  <2> QED BY <1>4, <2>1, <2>2
<1>8. Lent(r, live)
  BY <1>4, <1>6, <1>7 DEF Lent
<1> QED BY <1>3, <1>8

\* The list ns after k answers of the PMM, in the order of MoreAt from the one after k0 on
MoreBlock(i) == Node(MoreAt[i], MoreSize - Hdr, TRUE)
Grew(ns, k0, k, r) ==
  r = ns \o [i \in 1 .. k |-> MoreBlock(k0 + i)]

LEMMA GrewOne ==
  ASSUME NEW ns \in Seq(Blocks), NEW k0 \in Nat, NEW k \in Nat, k0 + k + 1 <= Len(MoreAt),
         NEW r, Grew(ns, k0, k, r), NEW q, Grew(ns, k0, k + 1, q)
  PROVE  q = Append(r, MoreBlock(k0 + k + 1))
<1>1. MoreAt \in Seq(Nat)
  BY KSizesAssumption
<1>2. PICK B : B = [i \in 1 .. k + 1 |-> MoreBlock(k0 + i)]
  OBVIOUS
<1>3. PICK A : A = [i \in 1 .. k |-> MoreBlock(k0 + i)]
  OBVIOUS
<1>4. ASSUME NEW i \in 1 .. k + 1 PROVE MoreBlock(k0 + i) \in Blocks
  <2>1. k0 + i \in 1 .. Len(MoreAt)
    BY <1>1
  <2>2. MoreAt[k0 + i] \in Nat
    BY <1>1, <2>1, ElementOfSeq
  <2> QED BY <2>2, KSizesAre DEF MoreBlock, Node, Blocks
<1>5. A \in Seq(Blocks) /\ Len(A) = k /\ B \in Seq(Blocks) /\ Len(B) = k + 1
  <2>1. B \in [1 .. k + 1 -> Blocks]
    BY <1>2, <1>4
  <2>2. A \in [1 .. k -> Blocks]
    <3>1. \A i \in 1 .. k : i \in 1 .. k + 1
      OBVIOUS
    <3> QED BY <1>3, <1>4, <3>1
  <2> QED BY <2>1, <2>2
<1>6. (\A i \in 1 .. k : A[i] = B[i]) /\ B[k + 1] = MoreBlock(k0 + (k + 1))
  BY <1>2, <1>3
<1>7. PICK b \in Blocks : b = B[k + 1] /\ b = MoreBlock(k0 + k + 1)
  <2>1. k0 + (k + 1) = k0 + k + 1 /\ k + 1 \in 1 .. k + 1
    OBVIOUS
  <2> QED BY <1>5, <1>6, <2>1, ElementOfSeq
<1>8. PICK n \in Nat : n = Len(ns)
  OBVIOUS
<1>9. r \in Seq(Blocks) /\ Len(r) = n + k /\ \A i \in 1 .. n + k : r[i] = IF i <= n THEN ns[i] ELSE A[i - n]
  <2>1. r = ns \o A
    BY <1>3 DEF Grew
  <2>2. /\ r \in Seq(Blocks) /\ Len(r) = Len(ns) + Len(A)
        /\ \A i \in 1 .. Len(ns) + Len(A) : r[i] = IF i <= Len(ns) THEN ns[i] ELSE A[i - Len(ns)]
    BY ONLY <1>5, <2>1, ns \in Seq(Blocks), ConcatProperties
  <2> QED BY <1>5, <1>8, <2>2
<1>10. q \in Seq(Blocks) /\ Len(q) = n + (k + 1) /\ \A i \in 1 .. n + (k + 1) : q[i] = IF i <= n THEN ns[i] ELSE B[i - n]
  <2>1. q = ns \o B
    BY <1>2 DEF Grew
  <2>2. /\ q \in Seq(Blocks) /\ Len(q) = Len(ns) + Len(B)
        /\ \A i \in 1 .. Len(ns) + Len(B) : q[i] = IF i <= Len(ns) THEN ns[i] ELSE B[i - Len(ns)]
    BY ONLY <1>5, <2>1, ns \in Seq(Blocks), ConcatProperties
  <2> QED BY <1>5, <1>8, <2>2
<1>11. PICK z : z = Append(r, b)
  OBVIOUS
<1>12. z \in Seq(Blocks) /\ Len(z) = (n + k) + 1 /\ (\A i \in 1 .. n + k : z[i] = r[i]) /\ z[(n + k) + 1] = b
  BY <1>9, <1>11, AppendProperties
<1>13. ASSUME NEW i \in 1 .. n + (k + 1) PROVE q[i] = z[i]
  <2>1. CASE i = n + (k + 1)
    <3>1. ~(i <= n) /\ i - n = k + 1 /\ i = (n + k) + 1
      BY <2>1
    <3> QED BY <1>7, <1>10, <1>12, <3>1
  <2>2. CASE i # n + (k + 1)
    <3>1. i \in 1 .. n + k
      BY <2>2
    <3>2. CASE i <= n
      BY <1>9, <1>10, <1>12, <3>1, <3>2
    <3>3. CASE ~(i <= n)
      <4>1. i - n \in 1 .. k
        BY <3>1, <3>3
      <4> QED BY <1>6, <1>9, <1>10, <1>12, <3>1, <3>3, <4>1
    <3> QED BY <3>2, <3>3
  <2> QED BY <2>1, <2>2
<1>14. Len(q) = Len(z)
  BY <1>10, <1>12
<1>15. q = z
  <2>1. \A i \in 1 .. Len(q) : q[i] = z[i]
    BY <1>10, <1>13
  <2> QED BY <1>10, <1>12, <1>14, <2>1, SeqEqual
<1> QED BY <1>7, <1>11, <1>15

LEMMA GrewOK ==
  ASSUME NEW ns, NEW live, NEW k0 \in Nat, NEW k \in Nat, k0 + k <= Len(MoreAt),
         Tiles(ns, Units(k0)), Lent(ns, live), NEW r, Grew(ns, k0, k, r)
  PROVE  Tiles(r, Units(k0 + k)) /\ Lent(r, live)
<1>1. MoreAt \in Seq(Nat) /\ ns \in Seq(Blocks)
  BY KSizesAssumption DEF Tiles
<1>2. PICK S : S = {i \in 0 .. k : \A q : Grew(ns, k0, i, q) => Tiles(q, Units(k0 + i)) /\ Lent(q, live)}
  OBVIOUS
<1>3. 0 \in S
  <2>1. ASSUME NEW q, Grew(ns, k0, 0, q) PROVE q = ns
    <3>1. [i \in 1 .. 0 |-> MoreBlock(k0 + i)] = << >>
      OBVIOUS
    <3>2. q = ns \o << >>
      BY <2>1, <3>1 DEF Grew
    <3> QED BY <1>1, <3>2, ConcatEmptySeq
  <2>2. k0 + 0 = k0
    OBVIOUS
  <2> QED BY <1>2, <2>1, <2>2
<1>4. ASSUME NEW i \in 1 .. k, i - 1 \in S PROVE i \in S
  <2>1. ASSUME NEW q, Grew(ns, k0, i, q) PROVE Tiles(q, Units(k0 + i)) /\ Lent(q, live)
    <3>1. PICK j \in Nat : j = i - 1 /\ j + 1 = i /\ k0 + j + 1 = k0 + i /\ k0 + j + 1 <= Len(MoreAt) /\ k0 + j + 1 \in 1 .. Len(MoreAt)
      BY <1>1
    <3>2. PICK o : Grew(ns, k0, j, o)
      BY DEF Grew
    <3>3. Tiles(o, Units(k0 + j)) /\ Lent(o, live)
      BY <1>2, <1>4, <3>1, <3>2
    <3>4. PICK b : b = MoreBlock(k0 + j + 1)
      OBVIOUS
    <3>5. q = Append(o, b)
      <4>1. Grew(ns, k0, j + 1, q)
        BY <2>1, <3>1
      <4>2. k0 + j + 1 <= Len(MoreAt) /\ j \in Nat
        BY <3>1
      <4>3. q = Append(o, MoreBlock(k0 + j + 1))
        BY <1>1, <3>2, <4>1, <4>2, GrewOne
      <4> QED BY <3>4, <4>3
    <3>6. PICK c \in Nat : c = k0 + j /\ c \in 0 .. Len(MoreAt) /\ c + 1 = k0 + i /\ c + 1 \in 1 .. Len(MoreAt) /\ k0 + j + 1 = c + 1
      BY <1>1, <3>1
    <3>7. /\ Units(c + 1) = Units(c) \cup MoreUnits(c + 1) /\ Units(c) \cap MoreUnits(c + 1) = {}
          /\ MoreAt[c + 1] \in Nat
      <4>1. c + 1 <= Len(MoreAt)
        BY <1>1, <3>6
      <4> QED BY <4>1, UnitsGrow
    <3>8. b \in Blocks /\ b.addr = MoreAt[c + 1] /\ b.size = MoreSize - Hdr /\ b.free
      BY <3>4, <3>6, <3>7, KSizesAre DEF MoreBlock, Node, Blocks
    <3>9. Extent(b) = MoreUnits(c + 1) /\ b.addr \in Extent(b)
      <4>1. PICK e, d, m \in Nat : e = MoreAt[c + 1] /\ d = MoreSize - Hdr /\ m = MoreSize /\ m = Hdr + d
        BY <3>7, KSizesAre
      <4>2. Hdr \in Nat
        BY KSizesAre
      <4>3. e + Hdr + d - 1 = e + m - 1
        BY ONLY <4>1, <4>2, e \in Nat, d \in Nat, m \in Nat
      <4>4. Extent(b) = e .. e + Hdr + d - 1
        BY <3>8, <4>1 DEF Extent
      <4>5. MoreUnits(c + 1) = e .. e + m - 1
        BY <4>1 DEF MoreUnits
      <4>6. b.addr = e /\ b.size = d
        BY <3>8, <4>1
      <4>7. b.addr \in Extent(b)
        BY <4>6, BlockAddress
      <4> QED BY <4>3, <4>4, <4>5, <4>7
    <3>10. Tiles(q, Units(c) \cup Extent(b)) /\ Lent(q, live)
      <4>1. Extent(b) \cap Units(c) = {} /\ b.addr \notin Units(c)
        BY <3>7, <3>9
      <4>2. Tiles(o, Units(c))
        BY <3>3, <3>6
      <4> QED BY <3>3, <3>5, <3>8, <4>1, <4>2, TilesAppend, LentAppend
    <3> QED BY <3>6, <3>7, <3>9, <3>10
  <2> QED BY <1>2, <2>1
<1>5. \A i \in 0 .. k : i \in S
  BY <1>3, <1>4, Induct DEF Inductive
<1>6. k \in S
  BY <1>5
<1> QED BY <1>2, <1>6

-----------------------------------------------------------------------------
(* kfree *)

CoverTo(ns, i) == UNION {Extent(ns[j]) : j \in 1 .. i}

\* The list after the first i blocks of ns went through kfree's pass
JoinedTo(ns, i, out) ==
  /\ i = 0 => out = << >>
  /\ i > 0 => /\ Tiles(out, CoverTo(ns, i)) /\ NoTwoFree(out)
              /\ EndOf(out[Len(out)]) = EndOf(ns[i]) /\ out[Len(out)].free = ns[i].free
              /\ \A j \in 1 .. i : ~ns[j].free => \E m \in 1 .. Len(out) : out[m] = ns[j]
              /\ \A m \in 1 .. Len(out) : \E j \in 1 .. i : out[m].addr = ns[j].addr /\ out[m].free = ns[j].free

LEMMA TakeInFirst ==
  ASSUME NEW ns, NEW U, Tiles(ns, U)
  PROVE  JoinedTo(ns, 1, TakeIn(<< >>, ns[1]))
<1>1. ns \in Seq(Blocks) /\ 1 \in 1 .. Len(ns)
  BY DEF Tiles
<1>2. PICK b : b = ns[1] /\ b \in Blocks
  BY <1>1, BlockType
<1>3. PICK r : r = TakeIn(<< >>, b)
  OBVIOUS
<1>4. r = Append(<< >>, b)
  BY <1>3 DEF TakeIn
<1>5. r \in Seq(Blocks) /\ Len(r) = 1 /\ r[1] = b
  <2>1. << >> \in Seq(Blocks) /\ Len(<< >>) = 0
    OBVIOUS
  <2>2. /\ Append(<< >>, b) \in Seq(Blocks) /\ Len(Append(<< >>, b)) = Len(<< >>) + 1
        /\ Append(<< >>, b)[Len(<< >>) + 1] = b
    BY <1>2, <2>1, AppendProperties
  <2> QED BY <1>4, <2>1, <2>2
<1>6. Cover(r) = CoverTo(ns, 1)
  BY <1>2, <1>5 DEF Cover, CoverTo
<1>7. Tiles(r, CoverTo(ns, 1))
  BY <1>5, <1>6 DEF Tiles
<1>8. NoTwoFree(r)
  BY <1>5 DEF NoTwoFree
<1> QED BY <1>2, <1>3, <1>5, <1>7, <1>8 DEF JoinedTo

\* The last block of a list takes in one that touches it
LEMMA TilesExtend ==
  ASSUME NEW ns, NEW U, Tiles(ns, U), NEW n, n = Len(ns), NEW b, Extent(b) \cap U = {},
         NEW c \in Blocks, Extent(c) = Extent(ns[n]) \cup Extent(b)
  PROVE  Tiles([ns EXCEPT ![n] = c], U \cup Extent(b))
<1>1. /\ ns \in Seq(Blocks) /\ n \in Nat /\ n > 0 /\ Cover(ns) = U /\ n \in 1 .. n
      /\ \A i \in 1 .. n, j \in 1 .. n : i # j => Extent(ns[i]) \cap Extent(ns[j]) = {}
  BY DEF Tiles
<1>2. PICK r : r = [ns EXCEPT ![n] = c]
  OBVIOUS
<1>3. r \in Seq(Blocks) /\ Len(r) = n /\ r[n] = c /\ \A j \in 1 .. n : j # n => r[j] = ns[j]
  BY <1>1, <1>2
<1>4. \A j \in 1 .. n : Extent(ns[j]) \subseteq U
  BY TilesCover
<1>5. ASSUME NEW i \in 1 .. n, NEW j \in 1 .. n, i # j PROVE Extent(r[i]) \cap Extent(r[j]) = {}
  <2>1. CASE i = n
    BY <1>1, <1>3, <1>4, <1>5, <2>1
  <2>2. CASE j = n
    BY <1>1, <1>3, <1>4, <1>5, <2>2
  <2>3. CASE i # n /\ j # n
    BY <1>1, <1>3, <1>5, <2>3
  <2> QED BY <2>1, <2>2, <2>3
<1>6. Cover(r) = U \cup Extent(b)
  <2>1. ASSUME NEW u \in Cover(r) PROVE u \in U \cup Extent(b)
    <3>1. PICK j \in 1 .. n : u \in Extent(r[j])
      BY <1>3, <2>1 DEF Cover
    <3> QED BY <1>3, <1>4, <3>1
  <2>2. ASSUME NEW u \in U PROVE u \in Cover(r)
    <3>1. PICK j \in 1 .. n : u \in Extent(ns[j])
      BY <1>1, <2>2 DEF Cover
    <3>2. u \in Extent(r[j])
      BY <1>3, <3>1
    <3> QED BY <1>3, <3>2 DEF Cover
  <2>3. ASSUME NEW u \in Extent(b) PROVE u \in Cover(r)
    BY <1>1, <1>3, <2>3 DEF Cover
  <2> QED BY <2>1, <2>2, <2>3
<1> QED BY <1>1, <1>2, <1>3, <1>5, <1>6 DEF Tiles

LEMMA TakeInMore ==
  ASSUME NEW ns, NEW U, Tiles(ns, U), ~JoinsApart(ns), NEW i \in 1 .. Len(ns), NEW k, k = i - 1, k > 0,
         NEW out, JoinedTo(ns, k, out)
  PROVE  JoinedTo(ns, i, TakeIn(out, ns[i]))
<1>1. /\ ns \in Seq(Blocks)
      /\ \A x \in 1 .. Len(ns), y \in 1 .. Len(ns) : x # y => Extent(ns[x]) \cap Extent(ns[y]) = {}
      /\ \A x \in 1 .. Len(ns), y \in 1 .. Len(ns) :
           y = x + 1 /\ ns[x].free /\ ns[y].free => ns[y].addr = EndOf(ns[x])
  BY DEF Tiles, JoinsApart, EndOf
<1>2. k \in 1 .. Len(ns) /\ i = k + 1 /\ i > 0 /\ k \in Nat
  BY <1>1
<1>3. PICK b : b = ns[i] /\ b \in Blocks /\ (ns[k].free /\ b.free => b.addr = EndOf(ns[k]))
  BY <1>1, <1>2, BlockType
<1>4. /\ Tiles(out, CoverTo(ns, k)) /\ NoTwoFree(out)
      /\ EndOf(out[Len(out)]) = EndOf(ns[k]) /\ out[Len(out)].free = ns[k].free
      /\ \A j \in 1 .. k : ~ns[j].free => \E m \in 1 .. Len(out) : out[m] = ns[j]
      /\ \A m \in 1 .. Len(out) : \E j \in 1 .. k : out[m].addr = ns[j].addr /\ out[m].free = ns[j].free
  BY DEF JoinedTo
<1>5. out \in Seq(Blocks) /\ out # << >>
  BY <1>4 DEF Tiles
<1>6. PICK n \in Nat : n = Len(out) /\ n > 0
  BY <1>4, <1>5 DEF Tiles
<1>7. PICK l : l = out[n] /\ l \in Blocks /\ EndOf(l) = EndOf(ns[k]) /\ l.free = ns[k].free
  <2>1. n \in 1 .. Len(out)
    BY <1>6
  <2> QED BY <1>4, <1>5, <1>6, <2>1, BlockType
<1>11. CoverTo(ns, i) = CoverTo(ns, k) \cup Extent(b) /\ CoverTo(ns, k) \cap Extent(b) = {}
  <2>1. 1 .. i = (1 .. k) \cup {i} /\ \A j \in 1 .. k : j # i /\ j \in 1 .. Len(ns)
    BY <1>1, <1>2
  <2>2. CoverTo(ns, i) = CoverTo(ns, k) \cup Extent(b)
    BY <1>3, <2>1 DEF CoverTo
  <2>3. \A j \in 1 .. k : Extent(ns[j]) \cap Extent(b) = {}
    BY <1>1, <1>3, <2>1
  <2> QED BY <2>2, <2>3 DEF CoverTo
<1>8. PICK r : r = TakeIn(out, b)
  OBVIOUS
<1>9. CASE l.free /\ b.free
  <2>1. PICK c : c = [l EXCEPT !.size = @ + Hdr + b.size]
    OBVIOUS
  <2>2. /\ c \in Blocks /\ c.addr = l.addr /\ c.free = l.free /\ EndOf(c) = EndOf(b)
        /\ Extent(c) = Extent(l) \cup Extent(b)
    <3>1. PICK la, ls, bs, h \in Nat : la = l.addr /\ ls = l.size /\ bs = b.size /\ h = Hdr
      BY <1>3, <1>7, KSizesAre DEF Blocks
    <3>2. c.addr = la /\ c.free = l.free /\ c.size = ls + h + bs /\ c \in Blocks
      <4>1. PICK d \in Nat : d = ls + h + bs
        BY <3>1
      <4>2. c = [l EXCEPT !.size = d]
        BY <2>1, <3>1, <4>1
      <4> QED BY <1>7, <3>1, <4>1, <4>2 DEF Blocks
    <3>3. b.addr = la + h + ls
      BY <1>3, <1>7, <1>9, <3>1 DEF EndOf
    <3>5. Extent(c) = Extent(l) \cup Extent(b)
      <4>1. /\ la \in Nat /\ ls \in Nat /\ bs \in Nat
            /\ l.addr = la /\ l.size = ls /\ b.addr = la + Hdr + ls /\ b.size = bs
            /\ c.addr = la /\ c.size = ls + Hdr + bs
        BY <3>1, <3>2, <3>3
      <4> QED BY ONLY <4>1, TwoExtents
    <3>4. la + h + (ls + h + bs) = (la + h + ls) + h + bs
      <4>1. la \in Nat /\ h \in Nat /\ ls \in Nat /\ bs \in Nat
        BY <3>1
      <4> QED BY ONLY <4>1, Regroup
    <3> QED BY <3>1, <3>2, <3>3, <3>4, <3>5 DEF EndOf
  <2>3. r = [out EXCEPT ![n] = c]
    BY <1>5, <1>6, <1>7, <1>8, <1>9, <2>1 DEF TakeIn
  <2>4. r \in Seq(Blocks) /\ Len(r) = n /\ r[n] = c /\ \A j \in 1 .. n : j # n => r[j] = out[j]
    BY <1>5, <1>6, <2>2, <2>3
  <2>5. \A j \in 1 .. n : r[j].addr = out[j].addr /\ r[j].free = out[j].free
    BY <1>7, <2>2, <2>4
  <2>6. Tiles(r, CoverTo(ns, i)) /\ EndOf(r[n]) = EndOf(b) /\ r[n].free = b.free
    <3>1. PICK V : V = CoverTo(ns, k)
      OBVIOUS
    <3>2. Tiles(out, V) /\ n = Len(out) /\ Extent(b) \cap V = {} /\ c \in Blocks
          /\ Extent(c) = Extent(out[n]) \cup Extent(b)
      BY <1>4, <1>6, <1>7, <1>11, <2>2, <3>1
    <3>3. Tiles([out EXCEPT ![n] = c], V \cup Extent(b))
      BY ONLY <3>2, TilesExtend
    <3>4. Tiles(r, CoverTo(ns, i))
      BY <1>11, <2>3, <3>1, <3>3
    <3> QED BY <1>7, <1>9, <2>2, <2>4, <3>4
  <2>7. NoTwoFree(r)
    BY <1>4, <1>6, <2>4, <2>5 DEF NoTwoFree
  <2>8. ASSUME NEW j \in 1 .. i, ~ns[j].free PROVE \E m \in 1 .. n : r[m] = ns[j]
    <3>1. j # i
      BY <1>3, <1>9, <2>8
    <3>2. j \in 1 .. k
      BY <1>2, <3>1
    <3>3. PICK m \in 1 .. n : out[m] = ns[j]
      BY <1>4, <1>6, <2>8, <3>2
    <3>4. m # n
      BY <1>7, <1>9, <2>8, <3>3
    <3> QED BY <2>4, <3>3, <3>4
  <2>9. ASSUME NEW m \in 1 .. n PROVE \E j \in 1 .. i : r[m].addr = ns[j].addr /\ r[m].free = ns[j].free
    <3>1. PICK j \in 1 .. k : out[m].addr = ns[j].addr /\ out[m].free = ns[j].free
      BY <1>4, <1>6
    <3>2. j \in 1 .. i
      BY <1>2
    <3> QED BY <2>5, <3>1, <3>2
  <2> QED BY <1>2, <1>3, <1>8, <2>4, <2>6, <2>7, <2>8, <2>9 DEF JoinedTo
<1>10. CASE ~(l.free /\ b.free)
  <2>1. r = Append(out, b)
    BY <1>6, <1>7, <1>8, <1>10 DEF TakeIn
  <2>2. r \in Seq(Blocks) /\ Len(r) = n + 1 /\ (\A m \in 1 .. n : r[m] = out[m]) /\ r[n + 1] = b
    BY <1>3, <1>5, <1>6, <2>1, AppendProperties
  <2>3. Tiles(r, CoverTo(ns, i)) /\ EndOf(r[n + 1]) = EndOf(b) /\ r[n + 1].free = b.free
    BY <1>3, <1>4, <1>11, <2>1, <2>2, TilesAppend
  <2>4. NoTwoFree(r)
    <3>1. ASSUME NEW x \in 1 .. n + 1, NEW y \in 1 .. n + 1, y = x + 1 PROVE ~(r[x].free /\ r[y].free)
      <4>1. x \in 1 .. n
        BY <3>1
      <4>2. CASE y = n + 1
        <5>1. x = n
          BY <3>1, <4>2
        <5> QED BY <1>7, <1>10, <2>2, <4>1, <4>2, <5>1
      <4>3. CASE y # n + 1
        <5>1. y \in 1 .. n
          BY <4>3
        <5> QED BY <1>4, <1>6, <2>2, <3>1, <4>1, <5>1 DEF NoTwoFree
      <4> QED BY <4>2, <4>3
    <3> QED BY <2>2, <3>1 DEF NoTwoFree
  <2>5. ASSUME NEW j \in 1 .. i, ~ns[j].free PROVE \E m \in 1 .. n + 1 : r[m] = ns[j]
    <3>1. CASE j = i
      <4>1. n + 1 \in 1 .. n + 1
        BY <1>6
      <4> QED BY <1>3, <2>2, <3>1, <4>1
    <3>2. CASE j # i
      <4>1. j \in 1 .. k
        BY <1>2, <3>2
      <4>2. PICK m \in 1 .. n : out[m] = ns[j]
        BY <1>4, <1>6, <2>5, <4>1
      <4>3. m \in 1 .. n + 1
        BY <1>6
      <4> QED BY <2>2, <4>2, <4>3
    <3> QED BY <3>1, <3>2
  <2>6. ASSUME NEW m \in 1 .. n + 1 PROVE \E j \in 1 .. i : r[m].addr = ns[j].addr /\ r[m].free = ns[j].free
    <3>1. CASE m = n + 1
      <4>1. i \in 1 .. i
        BY <1>2
      <4> QED BY <1>3, <2>2, <3>1, <4>1
    <3>2. CASE m # n + 1
      <4>1. m \in 1 .. n
        BY <3>2
      <4>2. PICK j \in 1 .. k : out[m].addr = ns[j].addr /\ out[m].free = ns[j].free
        BY <1>4, <1>6, <4>1
      <4>3. j \in 1 .. i
        BY <1>2
      <4> QED BY <2>2, <4>1, <4>2, <4>3
    <3> QED BY <3>1, <3>2
  <2> QED BY <1>2, <1>3, <1>8, <2>2, <2>3, <2>4, <2>5, <2>6 DEF JoinedTo
<1> QED BY <1>9, <1>10

JoinRounds(ns, n, X) ==
  n \in Nat /\ << >> \in X[0] /\ \A i \in 1 .. n : \A x \in X[i - 1] : TakeIn(x, ns[i]) \in X[i]
JoinRun(ns, n, g) == g = [i \in 0 .. n |-> IF i = 0 THEN << >> ELSE TakeIn(g[i - 1], ns[i])]

LEMMA JoinLoop ==
  ASSUME NEW ns, NEW n, n = Len(ns), NEW X, JoinRounds(ns, n, X)
  PROVE  Join(ns) \in X[n]
<1>1. n \in Nat /\ << >> \in X[0] /\ \A i \in 1 .. n : \A x \in X[i - 1] : TakeIn(x, ns[i]) \in X[i]
  BY DEF JoinRounds
<1>2. PICK F : F = [i \in 1 .. n |-> [x \in X[i - 1] |-> TakeIn(x, ns[i])]]
  OBVIOUS
<1>3. \A i \in 1 .. n : \A x \in X[i - 1] : F[i][x] = TakeIn(x, ns[i])
  BY <1>2
<1>4. Rounds(n, X, F, << >>)
  BY <1>1, <1>3 DEF Rounds
<1>5. PICK g : RunOf(n, F, << >>, g) /\ \A i \in 0 .. n : g[i] \in X[i]
  BY <1>4, Runs
<1>6. JoinRun(ns, n, g)
  <2>1. ASSUME NEW i \in 0 .. n, i # 0 PROVE F[i][g[i - 1]] = TakeIn(g[i - 1], ns[i])
    <3>1. i \in 1 .. n /\ i - 1 \in 0 .. n
      BY <1>1, <2>1
    <3> QED BY <1>3, <1>5, <3>1
  <2> QED BY <1>1, <1>5, <2>1 DEF RunOf, JoinRun
<1>7. PICK h : h = CHOOSE f : JoinRun(ns, n, f)
  OBVIOUS
<1>8. JoinRun(ns, n, h)
  BY <1>6, <1>7, Zenon
<1>9. Join(ns) = h[n]
  BY <1>7 DEF Iterate, Join, JoinRun
<1>10. h[0] = << >> /\ \A i \in 1 .. n : h[i] = TakeIn(h[i - 1], ns[i])
  BY <1>1, <1>8 DEF JoinRun
<1>11. Follows(n, X, F, << >>, h)
  BY <1>3, <1>4, <1>10 DEF Follows
<1>12. h[n] \in X[n]
  BY <1>11, RunsIn
<1> QED BY <1>9, <1>12

LEMMA JoinOK ==
  ASSUME NEW ns, NEW U, Tiles(ns, U), ~JoinsApart(ns), NEW live, Lent(ns, live)
  PROVE  Tiles(Join(ns), U) /\ Lent(Join(ns), live) /\ NoTwoFree(Join(ns))
<1>1. ns \in Seq(Blocks) /\ Len(ns) > 0 /\ CoverTo(ns, Len(ns)) = U
  BY DEF Tiles, Cover, CoverTo
<1>2. PICK n \in Nat : n = Len(ns) /\ n > 0
  BY <1>1
<1>3. PICK X : X = [i \in 0 .. n |-> {x \in Seq(Blocks) : JoinedTo(ns, i, x)}]
  OBVIOUS
<1>4. << >> \in X[0]
  BY <1>2, <1>3 DEF JoinedTo
<1>5. ASSUME NEW i \in 1 .. n, NEW x \in X[i - 1] PROVE TakeIn(x, ns[i]) \in X[i]
  <2>1. i - 1 \in 0 .. n /\ i \in 0 .. n /\ i > 0
    OBVIOUS
  <2>2. JoinedTo(ns, i - 1, x)
    BY <1>3, <2>1
  <2>3. JoinedTo(ns, i, TakeIn(x, ns[i]))
    <3>1. CASE i = 1
      <4>1. x = << >>
        BY <2>2, <3>1 DEF JoinedTo
      <4> QED BY <3>1, <4>1, TakeInFirst
    <3>2. CASE i # 1
      <4>1. i - 1 > 0 /\ i \in 1 .. Len(ns)
        BY <1>2, <3>2
      <4> QED BY <2>2, <4>1, TakeInMore
    <3> QED BY <3>1, <3>2
  <2>4. TakeIn(x, ns[i]) \in Seq(Blocks)
    BY <2>1, <2>3 DEF JoinedTo, Tiles
  <2> QED BY <1>3, <2>1, <2>3, <2>4
<1>6. JoinRounds(ns, n, X)
  BY <1>4, <1>5 DEF JoinRounds
<1>7. Join(ns) \in X[n]
  BY <1>2, <1>6, JoinLoop
<1>8. PICK out : out = Join(ns)
  OBVIOUS
<1>9. JoinedTo(ns, n, out)
  BY <1>2, <1>3, <1>7, <1>8
<1>10. /\ Tiles(out, U) /\ NoTwoFree(out)
       /\ \A j \in 1 .. n : ~ns[j].free => \E m \in 1 .. Len(out) : out[m] = ns[j]
       /\ \A m \in 1 .. Len(out) : \E j \in 1 .. n : out[m].addr = ns[j].addr /\ out[m].free = ns[j].free
  BY <1>1, <1>2, <1>9 DEF JoinedTo
<1>11. Lent(out, live)
  <2>1. ASSUME NEW m \in 1 .. Len(out) PROVE out[m].free <=> out[m].addr \notin DOMAIN live
    <3>1. PICK j \in 1 .. n : out[m].addr = ns[j].addr /\ out[m].free = ns[j].free
      BY <1>10
    <3> QED BY <1>2, <3>1 DEF Lent
  <2>2. ASSUME NEW a \in DOMAIN live PROVE \E m \in 1 .. Len(out) : out[m].addr = a /\ out[m].size >= live[a]
    <3>1. PICK j \in 1 .. n : ns[j].addr = a /\ ns[j].size >= live[a]
      BY <1>2 DEF Lent
    <3>2. ~ns[j].free
      BY <1>2, <3>1 DEF Lent
    <3>3. PICK m \in 1 .. Len(out) : out[m] = ns[j]
      BY <1>10, <3>2
    <3> QED BY <3>1, <3>3
  <2> QED BY <2>1, <2>2 DEF Lent
<1> QED BY <1>8, <1>10, <1>11

\* What the block of address a is marked free does to the list
LEMMA GivenBack ==
  ASSUME NEW ns, NEW U, Tiles(ns, U), NEW live, Lent(ns, live), NEW a \in DOMAIN live, NEW r,
         r = [i \in 1 .. Len(ns) |-> IF ns[i].addr = a THEN [ns[i] EXCEPT !.free = TRUE] ELSE ns[i]]
  PROVE  Tiles(r, U) /\ Lent(r, [x \in DOMAIN live \ {a} |-> live[x]])
<1>1. ns \in Seq(Blocks)
  BY DEF Tiles
<1>2. PICK g : g = [i \in 1 .. Len(ns) |-> IF ns[i].addr = a THEN TRUE ELSE ns[i].free]
  OBVIOUS
<1>3. g \in [1 .. Len(ns) -> BOOLEAN]
  BY <1>1, <1>2, BlockType
<1>4. r = [i \in 1 .. Len(ns) |-> [ns[i] EXCEPT !.free = g[i]]]
  <2>1. ASSUME NEW i \in 1 .. Len(ns)
        PROVE  (IF ns[i].addr = a THEN [ns[i] EXCEPT !.free = TRUE] ELSE ns[i]) = [ns[i] EXCEPT !.free = g[i]]
    <3>1. CASE ns[i].addr = a
      <4>1. g[i] = TRUE
        BY <1>2, <3>1
      <4> QED BY <3>1, <4>1
    <3>2. CASE ns[i].addr # a
      <4>1. g[i] = ns[i].free /\ ns[i] \in Blocks
        BY <1>1, <1>2, <3>2, BlockType
      <4>2. [ns[i] EXCEPT !.free = g[i]] = ns[i]
        BY <4>1 DEF Blocks
      <4> QED BY <3>2, <4>2
    <3> QED BY <3>1, <3>2
  <2> QED BY <2>1
<1>5. SameEnds(ns, r) /\ \A j \in 1 .. Len(ns) : r[j].free = g[j]
  <2>1. Marked(ns, g, r)
    BY <1>1, <1>3, <1>4 DEF Marked
  <2> QED BY ONLY <2>1, Remarked
<1>6. Len(r) = Len(ns) /\ \A j \in 1 .. Len(ns) : r[j].addr = ns[j].addr /\ r[j].size = ns[j].size
  BY <1>5 DEF SameEnds
<1>7. PICK l : l = [x \in DOMAIN live \ {a} |-> live[x]]
  OBVIOUS
<1>8. DOMAIN l = DOMAIN live \ {a} /\ \A x \in DOMAIN live : x # a => l[x] = live[x]
  BY <1>7
<1>9. ASSUME NEW j \in 1 .. Len(ns) PROVE r[j].free <=> r[j].addr \notin DOMAIN l
  <2>1. CASE ns[j].addr = a
    BY <1>2, <1>5, <1>6, <1>8, <2>1
  <2>2. CASE ns[j].addr # a
    <3>1. r[j].free = ns[j].free
      BY <1>2, <1>5, <2>2
    <3>2. ns[j].free <=> ns[j].addr \notin DOMAIN live
      BY DEF Lent
    <3> QED BY <1>6, <1>8, <2>2, <3>1, <3>2
  <2> QED BY <2>1, <2>2
<1>10. ASSUME NEW x \in DOMAIN l PROVE \E j \in 1 .. Len(ns) : r[j].addr = x /\ r[j].size >= l[x]
  <2>1. x \in DOMAIN live /\ l[x] = live[x]
    BY <1>8, <1>10
  <2> QED BY <1>6, <2>1 DEF Lent
<1>11. Lent(r, l)
  BY <1>6, <1>9, <1>10 DEF Lent
<1>12. Tiles(r, U)
  BY <1>5, TilesSame
<1> QED BY <1>7, <1>11, <1>12
-----------------------------------------------------------------------------
(* The specification of the heap *)

\* more is what is left of MoreAt
Left(m) ==
  /\ m \in Seq(Nat) /\ Len(m) <= Len(MoreAt)
  /\ \A j \in 1 .. Len(m) : m[j] = MoreAt[(Len(MoreAt) - Len(m)) + j]

KInv ==
  /\ Left(more)
  /\ ~kTorn => /\ Tiles(nodes, Units(Len(MoreAt) - Len(more))) /\ Lent(nodes, kLive)
               /\ kLast = "kfree" => NoTwoFree(nodes)

LEMMA KInitInv == KInit => KInv
<1> SUFFICES ASSUME KInit PROVE KInv
  OBVIOUS
<1>1. MoreAt \in Seq(Nat) /\ \A i \in 1 .. Len(MoreAt) : MoreAt[i] \in Nat
  BY KSizesAssumption, ElementOfSeq
<1>2. PICK m \in Nat : m = Len(MoreAt) /\ m - m = 0 /\ (\A j \in 1 .. m : (m - m) + j = j)
  BY <1>1
<1>3. Left(more)
  BY <1>1, <1>2 DEF KInit, Left
<1>4. PICK b : b = Node(FirstAt, FirstSize - Hdr, TRUE)
  OBVIOUS
<1>5. b \in Blocks /\ b.addr = FirstAt /\ b.size = FirstSize - Hdr /\ b.free
  BY <1>4, KSizesAre, KSizesAssumption DEF Node, Blocks
<1>6. nodes = <<b>> /\ kLive = << >> /\ kLast = "init" /\ more = MoreAt
  BY <1>4 DEF KInit
<1>7. nodes \in Seq(Blocks) /\ Len(nodes) = 1 /\ nodes[1] = b
  BY <1>5, <1>6
<1>8. Extent(b) = FirstUnits
  <2>1. PICK h, f, o \in Nat : h = Hdr /\ f = FirstSize /\ o = FirstAt
    BY KSizesAre, KSizesAssumption
  <2>2. o + h + (f - h) - 1 = o + f - 1
    BY <2>1
  <2> QED BY <1>5, <2>1, <2>2 DEF Extent, FirstUnits
<1>9. Tiles(nodes, FirstUnits)
  BY <1>7, <1>8 DEF Tiles, Cover
<1>10. Units(Len(MoreAt) - Len(more)) = FirstUnits
  BY <1>2, <1>6 DEF Units
<1>11. DOMAIN kLive = {}
  BY <1>6
<1>12. Lent(nodes, kLive)
  BY <1>5, <1>7, <1>11 DEF Lent
<1> QED BY <1>3, <1>6, <1>9, <1>10, <1>12 DEF KInv

LEMMA Difference ==
  ASSUME NEW t \in Nat, NEW n \in Nat, n <= t
  PROVE  /\ t - n \in Nat /\ t - n \in 0 .. t /\ (t - n) + n = t
         /\ \A k \in 0 .. n : (t - n) + k <= t /\ t - (n - k) = (t - n) + k /\ n - k <= t
OBVIOUS

\* What a call of kmalloc works on: the list with the pages it took, and what is left
Asked(k, ns) ==
  /\ k \in 0 .. Len(more)
  /\ ns = nodes \o [i \in 1 .. k |-> Node(more[i], MoreSize - Hdr, TRUE)]

LEMMA AskedOK ==
  ASSUME KInv, ~kTorn, NEW k, NEW ns, Asked(k, ns), NEW m, m = SubSeq(more, k + 1, Len(more))
  PROVE  /\ Left(m) /\ Tiles(ns, Units(Len(MoreAt) - Len(m))) /\ Lent(ns, kLive)
<1>1. MoreAt \in Seq(Nat) /\ more \in Seq(Nat) /\ Len(more) <= Len(MoreAt)
      /\ \A j \in 1 .. Len(more) : more[j] = MoreAt[(Len(MoreAt) - Len(more)) + j]
  BY KSizesAssumption DEF KInv, Left
<1>2. PICK t, n \in Nat : t = Len(MoreAt) /\ n = Len(more) /\ n <= t
  BY <1>1
<1>3. PICK k0 \in Nat : k0 = t - n /\ k \in 0 .. n /\ k0 + k <= t /\ k0 + n = t
  <2>1. k \in 0 .. n
    BY <1>2 DEF Asked
  <2>2. t - n \in Nat /\ (t - n) + n = t /\ (t - n) + k <= t
    <3>1. t \in Nat /\ n \in Nat /\ n <= t
      BY <1>2
    <3> QED BY ONLY <2>1, <3>1, Difference
  <2> QED BY <2>1, <2>2
<1>4. \A j \in 1 .. n : more[j] = MoreAt[k0 + j] /\ more[j] \in Nat
  BY <1>1, <1>2, <1>3, ElementOfSeq
<1>5. Tiles(nodes, Units(k0)) /\ Lent(nodes, kLive)
  BY <1>2, <1>3 DEF KInv
<1>6. Grew(nodes, k0, k, ns)
  <2>1. ASSUME NEW i \in 1 .. k PROVE Node(more[i], MoreSize - Hdr, TRUE) = MoreBlock(k0 + i)
    <3>1. more[i] = MoreAt[k0 + i]
      BY <1>3, <1>4
    <3> QED BY <3>1 DEF MoreBlock
  <2>2. [i \in 1 .. k |-> Node(more[i], MoreSize - Hdr, TRUE)] = [i \in 1 .. k |-> MoreBlock(k0 + i)]
    BY <2>1, Zenon
  <2> QED BY <2>2, Zenon DEF Asked, Grew
<1>7. Tiles(ns, Units(k0 + k)) /\ Lent(ns, kLive)
  BY <1>2, <1>3, <1>5, <1>6, GrewOK
<1>8. m \in Seq(Nat) /\ Len(m) = n - k /\ \A j \in 1 .. n - k : m[j] = more[k + j]
  <2>1. k + 1 \in Int /\ n \in Int /\ \A j \in k + 1 .. n : more[j] \in Nat
    BY <1>2, <1>3, <1>4
  <2>2. /\ SubSeq(more, k + 1, n) \in Seq(Nat)
        /\ Len(SubSeq(more, k + 1, n)) = (IF k + 1 <= n THEN n - (k + 1) + 1 ELSE 0)
        /\ \A j \in 1 .. n - (k + 1) + 1 : SubSeq(more, k + 1, n)[j] = more[(k + 1) + j - 1]
    BY <2>1, SubSeqProperties
  <2>3. n - (k + 1) + 1 = n - k /\ (IF k + 1 <= n THEN n - k ELSE 0) = n - k /\ \A j \in 1 .. n - k : (k + 1) + j - 1 = k + j
    BY <1>2, <1>3
  <2> QED BY <1>2, <2>2, <2>3
<1>9. t - Len(m) = k0 + k /\ Len(m) <= t
  <2>1. t \in Nat /\ n \in Nat /\ n <= t /\ k \in 0 .. n
    BY <1>2, <1>3
  <2>2. t - (n - k) = (t - n) + k /\ n - k <= t
    BY ONLY <2>1, Difference
  <2> QED BY <1>3, <1>8, <2>2
<1>10. \A j \in 1 .. Len(m) : m[j] = MoreAt[(t - Len(m)) + j]
  <2>1. ASSUME NEW j \in 1 .. n - k PROVE m[j] = MoreAt[(k0 + k) + j]
    <3>1. k + j \in 1 .. n /\ k0 + (k + j) = (k0 + k) + j
      BY <1>2, <1>3
    <3> QED BY <1>4, <1>8, <3>1
  <2> QED BY <1>8, <1>9, <2>1
<1>11. Left(m)
  BY <1>2, <1>8, <1>9, <1>10 DEF Left
<1> QED BY <1>2, <1>7, <1>9, <1>11

LEMMA GrowthsAre == ASSUME KInv, NEW n PROVE Growths(n) \in 0 .. Len(more)
<1>1. more \in Seq(Nat)
  BY DEF KInv, Left
<1>2. Len(more) \in Nat /\ (more # << >> => Len(more) >= 1)
  BY <1>1, EmptySeq
<1> QED BY <1>2 DEF Growths

LEMMA KmallocKeeps ==
  ASSUME KInv, ~kTorn, NEW n \in Nat, Kmalloc(n)
  PROVE  KInv'
<1>1. PICK k : k = Growths(n) /\ k \in 0 .. Len(more)
  BY GrowthsAre
<1>2. PICK ns : ns = nodes \o [i \in 1 .. k |-> Node(more[i], MoreSize - Hdr, TRUE)]
  OBVIOUS
<1>3. PICK fit : fit = Fits(ns, n)
  OBVIOUS
<1>4. /\ IF n = 0 \/ fit = {}
         THEN /\ nodes' = IF n = 0 THEN nodes ELSE ns
              /\ kLast' = "none" /\ kLive' = kLive
         ELSE /\ nodes' = Carve(ns, Min(fit), n)
              /\ kLive' = [x \in DOMAIN kLive \cup {ns[Min(fit)].addr} |->
                             IF x = ns[Min(fit)].addr THEN n ELSE kLive[x]]
              /\ kLast' = "kmalloc"
      /\ more' = IF n = 0 THEN more ELSE SubSeq(more, k + 1, Len(more))
      /\ kTorn' = kTorn
  BY <1>1, <1>2, <1>3 DEF Kmalloc
<1>5. CASE n = 0
  <2>1. nodes' = nodes /\ kLast' = "none" /\ kLive' = kLive /\ more' = more
    BY <1>4, <1>5
  <2> QED BY <1>4, <2>1 DEF KInv
<1>6. CASE n # 0
  <2>1. PICK m : m = SubSeq(more, k + 1, Len(more))
    OBVIOUS
  <2>2. more' = m
    BY <1>4, <1>6, <2>1
  <2>3. Asked(k, ns)
    BY <1>1, <1>2 DEF Asked
  <2>4. PICK U : U = Units(Len(MoreAt) - Len(m))
    OBVIOUS
  <2>5. Left(m) /\ Tiles(ns, U) /\ Lent(ns, kLive)
    BY <2>1, <2>3, <2>4, AskedOK
  <2>6. CASE fit = {}
    <3>1. nodes' = ns /\ kLast' = "none" /\ kLive' = kLive
      BY <1>4, <1>6, <2>6
    <3> QED BY <1>4, <2>2, <2>4, <2>5, <3>1 DEF KInv
  <2>7. CASE fit # {}
    <3>1. PICK i : i = Min(fit)
      OBVIOUS
    <3>2. i \in fit
      <4>1. fit \in SUBSET Nat
        BY <1>3 DEF Fits
      <4> QED BY <2>7, <3>1, <4>1, LeastOne
    <3>3. /\ nodes' = Carve(ns, i, n) /\ kLast' = "kmalloc"
          /\ kLive' = [x \in DOMAIN kLive \cup {ns[i].addr} |-> IF x = ns[i].addr THEN n ELSE kLive[x]]
      BY <1>4, <1>6, <2>7, <3>1
    <3>4. Taken(ns, i, n, U, kLive, Carve(ns, i, n))
      BY <1>3, <2>5, <3>2, CarveOK
    <3>5. Tiles(nodes', U) /\ Lent(nodes', kLive')
      BY <3>3, <3>4 DEF Taken
    <3> QED BY <1>4, <2>2, <2>4, <2>5, <3>3, <3>5 DEF KInv
  <2> QED BY <2>6, <2>7
<1> QED BY <1>5, <1>6

LEMMA KfreeKeeps ==
  ASSUME KInv, ~kTorn, NEW a \in DOMAIN kLive, Kfree(a)
  PROVE  KInv'
<1>1. PICK r : r = [i \in 1 .. Len(nodes) |-> IF nodes[i].addr = a THEN [nodes[i] EXCEPT !.free = TRUE] ELSE nodes[i]]
  OBVIOUS
<1>2. PICK l : l = [x \in DOMAIN kLive \ {a} |-> kLive[x]]
  OBVIOUS
<1>3. nodes' = Join(r) /\ kLive' = l /\ kLast' = "kfree" /\ more' = more /\ kTorn' = JoinsApart(r)
  BY <1>1, <1>2 DEF Kfree
<1>4. PICK U : U = Units(Len(MoreAt) - Len(more))
  OBVIOUS
<1>5. Left(more) /\ Tiles(nodes, U) /\ Lent(nodes, kLive)
  BY <1>4 DEF KInv
<1>6. Tiles(r, U) /\ Lent(r, l)
  BY <1>1, <1>2, <1>5, GivenBack
<1>7. ~JoinsApart(r) => Tiles(Join(r), U) /\ Lent(Join(r), l) /\ NoTwoFree(Join(r))
  BY <1>6, JoinOK
<1> QED BY <1>3, <1>4, <1>5, <1>7 DEF KInv

LEMMA KStep == KInv /\ [KNext]_KVars => KInv'
<1> SUFFICES ASSUME KInv, [KNext]_KVars PROVE KInv'
  OBVIOUS
<1>1. ASSUME ~kTorn, NEW n \in KSizes, Kmalloc(n) PROVE KInv'
  <2>1. n \in Nat
    BY KSizesAssumption
  <2> QED BY <1>1, <2>1, KmallocKeeps
<1>2. ASSUME ~kTorn, NEW a \in DOMAIN kLive, Kfree(a) PROVE KInv'
  BY <1>2, KfreeKeeps
<1>3. CASE UNCHANGED KVars
  <2>1. nodes' = nodes /\ more' = more /\ kLive' = kLive /\ kLast' = kLast /\ kTorn' = kTorn
    BY <1>3 DEF KVars
  <2> QED BY <2>1 DEF KInv
<1> QED BY <1>1, <1>2, <1>3 DEF KNext

LEMMA KInvTiled == KInv => KTiled
<1> SUFFICES ASSUME KInv, ~kTorn PROVE KTiled
  BY DEF KTiled
<1>1. PICK t, n \in Nat : t = Len(MoreAt) /\ n = Len(more) /\ n <= t
  BY KSizesAssumption DEF KInv, Left
<1>2. PICK k \in 0 .. t : k = t - n
  <2>1. t \in Nat /\ n \in Nat /\ n <= t
    BY <1>1
  <2>2. t - n \in 0 .. t
    BY ONLY <2>1, Difference
  <2> QED BY <2>2
<1>4. Tiles(nodes, Units(k)) /\ Lent(nodes, kLive)
  BY <1>1, <1>2 DEF KInv
<1>5. HeapUnits = Units(k)
  BY <1>1, <1>2 DEF HeapUnits, Units
<1>7. UNION {Extent(nodes[i]) : i \in 1 .. Len(nodes)} = HeapUnits
  BY <1>4, <1>5 DEF Tiles, Cover
<1>8. \A i, j \in 1 .. Len(nodes) : i # j => Extent(nodes[i]) \cap Extent(nodes[j]) = {}
  BY <1>4 DEF Tiles
<1>9. ASSUME kLast = "kfree", DOMAIN kLive = {} PROVE Len(nodes) = 1
  <2>1. Len(nodes) \in Nat /\ Len(nodes) > 0
    BY <1>4 DEF Tiles
  <2>2. ASSUME Len(nodes) > 1 PROVE FALSE
    <3>1. 1 \in 1 .. Len(nodes) /\ 2 \in 1 .. Len(nodes) /\ 2 = 1 + 1
      BY <2>1, <2>2
    <3>2. nodes[1].free /\ nodes[2].free
      BY <1>4, <1>9, <3>1 DEF Lent
    <3>3. NoTwoFree(nodes)
      BY <1>9 DEF KInv
    <3> QED BY <3>1, <3>2, <3>3 DEF NoTwoFree
  <2>3. PICK z \in Nat : z = Len(nodes) /\ z > 0 /\ ~(z > 1)
    BY <2>1, <2>2
  <2>4. z = 1
    BY ONLY <2>3, z \in Nat
  <2> QED BY <2>3, <2>4
<1> QED BY <1>4, <1>7, <1>8, <1>9 DEF KTiled, Lent

\* The blocks of the kernel's heap tile its pages, every caller holds a block large enough, and kfree
\* puts the heap together again, for any sizes, any order of calls and any place of the pages the PMM
\* adds, until the first time that kfree joins two blocks that do not touch
THEOREM KernelHeapTiled == KSpec => []KTiled
<1>1. KInit => KInv
  BY KInitInv
<1>2. KInv /\ [KNext]_KVars => KInv'
  BY KStep
<1>3. KInv => KTiled
  BY KInvTiled
<1> QED BY <1>1, <1>2, <1>3, PTL DEF KSpec
=============================================================================
