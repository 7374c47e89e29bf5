--------------------------- MODULE UserHeapProofs ---------------------------
(***************************************************************************)
(* Proofs about UserHeap, for any sizes, pages, overhead and heap: the     *)
(* blocks tile the heap and their footers are right, the free list names   *)
(* exactly the free blocks, what is left when all is given back is one     *)
(* block, and spud_malloc fails only at the edge described there.          *)
(*                                                                         *)
(* The tiling is a matter of the set D of block addresses and of the       *)
(* function N that gives the address behind each block (Chain).  The loops *)
(* of spud_coalesce are followed by induction, as the least number of      *)
(* rounds after which something would fail.                                *)
(***************************************************************************)
EXTENDS UserHeap, FiniteSetTheorems, SequenceTheorems, WellFoundedInduction, TLAPS

LEMMA USizesAre ==
  /\ Ovh \in Nat /\ URest \in Nat /\ PageUnits \in Nat /\ Chunk \in Nat
  /\ Ovh >= 1 /\ URest >= 1 /\ PageUnits >= 1 /\ Chunk >= 1 /\ Ovh < Chunk
BY USizesAssumption

\* A set of numbers has a least one, which Min picks
LEMMA Least ==
  ASSUME NEW S \in SUBSET Nat, S # {}
  PROVE  Min(S) \in S /\ \A y \in S : Min(S) <= y
<1> DEFINE R == {p \in Nat \X Nat : p[1] < p[2]}
<1>1. IsWellFoundedOn(R, Nat)
  BY NatLessThanWellFounded, Zenon DEF OpToRel
<1> HIDE DEF R
<1>2. PICK x \in S : \A y \in S : ~(<<y, x>> \in R)
  BY <1>1, WFMin
<1>3. ASSUME NEW y \in S PROVE x <= y
  <2>1. x \in Nat /\ y \in Nat /\ <<y, x>> \in Nat \X Nat
    OBVIOUS
  <2>2. ~(<<y, x>>[1] < <<y, x>>[2])
    BY <1>2, <2>1, Zenon DEF R
  <2> QED BY <2>1, <2>2
<1> QED BY <1>3 DEF Min
-----------------------------------------------------------------------------
(* The tiling *)

\* From 0 to e, each block ends where the next one begins
Chain(D, N, e) ==
  /\ D \in SUBSET Nat /\ e \in Nat /\ N \in [D -> Nat] /\ 0 \in D \cup {e}
  /\ \A h \in D : h < N[h] /\ N[h] \in D \cup {e} /\ h < e
  /\ \A h \in D \cup {e} : h = 0 \/ \E g \in D : N[g] = h
  /\ \A g, h \in D : g < h => N[g] <= h

LEMMA ChainInj ==
  ASSUME NEW D, NEW N, NEW e, Chain(D, N, e), NEW g \in D, NEW h \in D, N[g] = N[h]
  PROVE  g = h
BY DEF Chain

\* A block is cut in two
LEMMA SplitChain ==
  ASSUME NEW D, NEW N, NEW e, Chain(D, N, e), NEW h \in D, NEW k \in Nat, h < k, k < N[h],
         NEW M, M = [x \in D \cup {k} |-> IF x = h THEN k ELSE IF x = k THEN N[h] ELSE N[x]]
  PROVE  k \notin D /\ Chain(D \cup {k}, M, e)
<1>1. D \in SUBSET Nat /\ e \in Nat /\ N \in [D -> Nat] /\ N[h] \in Nat /\ h \in Nat
  BY DEF Chain
<1>2. \A g, x \in D : g < x => N[g] <= x
  BY DEF Chain
<1>3. k \notin D
  BY <1>1, <1>2
<1>4. N[h] <= e
  BY <1>1 DEF Chain
<1>5. M[h] = k /\ M[k] = N[h] /\ \A x \in D : x # h => M[x] = N[x]
  BY <1>3
<1>6. M \in [D \cup {k} -> Nat]
  BY <1>1
<1>7. \A x \in D \cup {k} : x < M[x] /\ M[x] \in D \cup {k} \cup {e} /\ x < e
  BY <1>1, <1>4, <1>5 DEF Chain
<1>8. \A x \in D \cup {k} \cup {e} : x = 0 \/ \E g \in D \cup {k} : M[g] = x
  <2> SUFFICES ASSUME NEW x \in D \cup {k} \cup {e}, x # 0 PROVE \E g \in D \cup {k} : M[g] = x
    OBVIOUS
  <2>1. CASE x = k
    BY <1>5, <2>1
  <2>2. CASE x # k
    <3>1. PICK g \in D : N[g] = x
      BY <2>2 DEF Chain
    <3> QED BY <1>5, <3>1
  <2> QED BY <2>1, <2>2
<1>9. ASSUME NEW g \in D \cup {k}, NEW x \in D \cup {k}, g < x PROVE M[g] <= x
  <2>1. CASE g = h
    <3>1. x = k \/ N[h] <= x
      BY <1>2, <1>9, <2>1
    <3> QED BY <1>1, <1>5, <2>1, <3>1
  <2>2. CASE g = k
    <3>1. x \in D /\ h < x
      BY <1>1, <1>9, <2>2
    <3> QED BY <1>2, <1>5, <2>2, <3>1
  <2>3. CASE g \in D /\ g # h
    <3>1. M[g] = N[g]
      BY <1>5, <2>3
    <3>2. CASE x \in D
      BY <1>2, <1>9, <2>3, <3>1, <3>2
    <3>3. CASE x = k
      <4>1. g < h \/ h < g
        BY <1>1, <2>3
      <4>2. CASE g < h
        BY <1>1, <1>2, <2>3, <3>1, <3>3, <4>2
      <4>3. CASE h < g
        BY <1>1, <1>2, <1>9, <2>3, <3>3, <4>3
      <4> QED BY <4>1, <4>2, <4>3
    <3> QED BY <3>2, <3>3
  <2> QED BY <2>1, <2>2, <2>3
<1>10. 0 \in D \cup {k} \cup {e}
  BY DEF Chain
<1> QED BY <1>1, <1>3, <1>6, <1>7, <1>8, <1>9, <1>10 DEF Chain

\* A block takes in the next one
LEMMA MergeChain ==
  ASSUME NEW D, NEW N, NEW e, Chain(D, N, e), NEW h \in D, NEW k \in D, N[h] = k,
         NEW M, M = [x \in D \ {k} |-> IF x = h THEN N[k] ELSE N[x]]
  PROVE  Chain(D \ {k}, M, e) /\ h # k
<1>1. D \in SUBSET Nat /\ e \in Nat /\ N \in [D -> Nat] /\ N[h] \in Nat /\ N[k] \in Nat /\ h < k /\ k < N[k]
  BY DEF Chain
<1>2. \A g, x \in D : g < x => N[g] <= x
  BY DEF Chain
<1>3. h # k /\ h \in D \ {k} /\ M[h] = N[k] /\ \A x \in D \ {k} : x # h => M[x] = N[x]
  BY <1>1
<1>4. M \in [D \ {k} -> Nat]
  BY <1>1
<1>5. \A x \in D : N[x] = k => x = h
  BY ChainInj
<1>6. \A x \in D \ {k} : x < M[x] /\ M[x] \in (D \ {k}) \cup {e} /\ x < e
  BY <1>1, <1>3, <1>5 DEF Chain
<1>7. \A x \in (D \ {k}) \cup {e} : x = 0 \/ \E g \in D \ {k} : M[g] = x
  <2> SUFFICES ASSUME NEW x \in (D \ {k}) \cup {e}, x # 0 PROVE \E g \in D \ {k} : M[g] = x
    OBVIOUS
  <2>1. PICK g \in D : N[g] = x
    BY DEF Chain
  <2>2. CASE g = k
    BY <1>3, <2>1, <2>2
  <2>3. CASE g # k
    <3>1. g # h
      BY <1>1, <2>1 DEF Chain
    <3> QED BY <1>3, <2>1, <2>3, <3>1
  <2> QED BY <2>2, <2>3
<1>8. ASSUME NEW g \in D \ {k}, NEW x \in D \ {k}, g < x PROVE M[g] <= x
  <2>1. CASE g = h
    <3>1. k <= x
      BY <1>2, <1>8, <2>1
    <3>2. k < x
      BY <1>1, <1>8, <3>1
    <3> QED BY <1>2, <1>3, <2>1, <3>2
  <2>2. CASE g # h
    BY <1>2, <1>3, <1>8, <2>2
  <2> QED BY <2>1, <2>2
<1>9. 0 \in (D \ {k}) \cup {e}
  BY <1>1 DEF Chain
<1> QED BY <1>1, <1>3, <1>4, <1>6, <1>7, <1>8, <1>9 DEF Chain

\* A block is added at the end
LEMMA GrowChain ==
  ASSUME NEW D, NEW N, NEW e, Chain(D, N, e), NEW k \in Nat, e < k,
         NEW M, M = [x \in D \cup {e} |-> IF x = e THEN k ELSE N[x]]
  PROVE  e \notin D /\ Chain(D \cup {e}, M, k)
<1>1. D \in SUBSET Nat /\ e \in Nat /\ N \in [D -> Nat] /\ e \notin D
  BY DEF Chain
<1>2. M[e] = k /\ \A x \in D : M[x] = N[x]
  BY <1>1
<1>3. M \in [D \cup {e} -> Nat]
  BY <1>1
<1>4. \A x \in D \cup {e} : x < M[x] /\ M[x] \in D \cup {e} \cup {k} /\ x < k
  BY <1>1, <1>2 DEF Chain
<1>5. \A x \in D \cup {e} \cup {k} : x = 0 \/ \E g \in D \cup {e} : M[g] = x
  BY <1>1, <1>2 DEF Chain
<1>6. \A x \in D : N[x] <= e
  BY <1>1 DEF Chain
<1>7. \A g, x \in D \cup {e} : g < x => M[g] <= x
  BY <1>1, <1>2, <1>6 DEF Chain
<1>8. 0 \in D \cup {e} \cup {k}
  BY DEF Chain
<1> QED BY <1>1, <1>3, <1>4, <1>5, <1>7, <1>8 DEF Chain
-----------------------------------------------------------------------------
(* The free list *)

\* l names each member of S once
ListOf(l, S) ==
  /\ l \in Seq(Nat) /\ S = {l[i] : i \in 1 .. Len(l)}
  /\ \A i, j \in 1 .. Len(l) : l[i] = l[j] => i = j

LEMMA ConsList ==
  ASSUME NEW l, NEW S, ListOf(l, S), NEW x \in Nat, x \notin S
  PROVE  ListOf(<<x>> \o l, S \cup {x})
<1>1. PICK g : g = <<x>> \o l
  OBVIOUS
<1>2. l \in Seq(Nat) /\ Len(l) \in Nat
  BY DEF ListOf
<1>3. g \in Seq(Nat) /\ Len(g) = Len(l) + 1 /\ g[1] = x
  BY <1>1, <1>2
<1>4. \A i \in 1 .. Len(l) : g[i + 1] = l[i]
  BY <1>1, <1>2
<1>5. ASSUME NEW i \in 1 .. Len(g), i # 1 PROVE i - 1 \in 1 .. Len(l) /\ g[i] = l[i - 1]
  <2>1. i - 1 \in 1 .. Len(l) /\ (i - 1) + 1 = i
    BY <1>2, <1>3, <1>5
  <2> QED BY <1>4, <2>1
<1>6. \A i \in 1 .. Len(l) : i + 1 \in 1 .. Len(g)
  BY <1>2, <1>3
<1>7. 1 \in 1 .. Len(g)
  BY <1>2, <1>3
<1>8. ASSUME NEW y \in S \cup {x} PROVE \E i \in 1 .. Len(g) : y = g[i]
  <2>1. CASE y = x
    BY <1>3, <1>7, <2>1
  <2>2. CASE y \in S
    <3>1. PICK i \in 1 .. Len(l) : y = l[i]
      BY <2>2 DEF ListOf
    <3> QED BY <1>4, <1>6, <3>1
  <2> QED BY <2>1, <2>2
<1>9. \A i \in 1 .. Len(l) : l[i] \in S
  BY DEF ListOf
<1>10. ASSUME NEW i \in 1 .. Len(g) PROVE g[i] \in S \cup {x}
  BY <1>3, <1>5, <1>9
<1>11. \A i \in 1 .. Len(g) : i # 1 => g[i] # x
  BY <1>5, <1>9
<1>12. \A i, j \in 1 .. Len(g) : g[i] = g[j] => i = j
  <2> SUFFICES ASSUME NEW i \in 1 .. Len(g), NEW j \in 1 .. Len(g), g[i] = g[j] PROVE i = j
    OBVIOUS
  <2>1. CASE i = 1 \/ j = 1
    BY <1>3, <1>11, <2>1
  <2>2. CASE i # 1 /\ j # 1
    <3>1. i - 1 \in 1 .. Len(l) /\ j - 1 \in 1 .. Len(l) /\ l[i - 1] = l[j - 1]
      BY <1>5, <2>2
    <3>2. i - 1 = j - 1
      BY <3>1 DEF ListOf
    <3> QED BY <3>2
  <2> QED BY <2>1, <2>2
<1>13. PICK T : T = S \cup {x}
  OBVIOUS
<1>14. T = {g[i] : i \in 1 .. Len(g)}
  BY <1>8, <1>10, <1>13
<1>15. g \in Seq(Nat)
  BY <1>3
<1>16. ListOf(g, T)
  BY <1>12, <1>14, <1>15, Zenon DEF ListOf
<1> QED BY <1>1, <1>13, <1>16

LEMMA ReplaceList ==
  ASSUME NEW l, NEW S, ListOf(l, S), NEW i \in 1 .. Len(l), NEW y \in Nat, y \notin S
  PROVE  ListOf([l EXCEPT ![i] = y], (S \ {l[i]}) \cup {y})
<1>1. PICK g : g = [l EXCEPT ![i] = y]
  OBVIOUS
<1>2. l \in Seq(Nat) /\ Len(l) \in Nat
  BY DEF ListOf
<1>3. g \in Seq(Nat) /\ Len(g) = Len(l) /\ g[i] = y /\ \A j \in 1 .. Len(l) : j # i => g[j] = l[j]
  BY <1>1, <1>2
<1>4. \A j \in 1 .. Len(l) : l[j] \in S /\ l[j] # y /\ (l[j] = l[i] => j = i)
  BY DEF ListOf
<1>5. \A j, k \in 1 .. Len(g) : g[j] = g[k] => j = k
  BY <1>3, <1>4 DEF ListOf
<1>6. ASSUME NEW x \in (S \ {l[i]}) \cup {y} PROVE \E j \in 1 .. Len(g) : x = g[j]
  <2>1. CASE x = y
    BY <1>3, <2>1
  <2>2. CASE x \in S /\ x # l[i]
    <3>1. PICK j \in 1 .. Len(l) : x = l[j]
      BY <2>2 DEF ListOf
    <3> QED BY <1>3, <2>2, <3>1
  <2> QED BY <1>6, <2>1, <2>2
<1>7. ASSUME NEW j \in 1 .. Len(g) PROVE g[j] \in (S \ {l[i]}) \cup {y}
  BY <1>3, <1>4
<1> QED BY <1>1, <1>3, <1>5, <1>6, <1>7 DEF ListOf

LEMMA RemoveAtList ==
  ASSUME NEW l, NEW S, ListOf(l, S), NEW i \in 1 .. Len(l)
  PROVE  ListOf(RemoveAt(l, i), S \ {l[i]})
<1>1. PICK n \in Nat : n = Len(l) /\ i \in Nat /\ 1 <= i /\ i <= n
  BY DEF ListOf
<1>2. l \in Seq(Nat)
  BY DEF ListOf
<1>3. PICK a, b : a = SubSeq(l, 1, i - 1) /\ b = SubSeq(l, i + 1, n)
  OBVIOUS
<1>4. a \in Seq(Nat)
  BY <1>1, <1>2, <1>3
<1>5. Len(a) = i - 1
  BY <1>1, <1>2, <1>3
<1>6. \A j \in 1 .. i - 1 : a[j] = l[j]
  BY <1>1, <1>2, <1>3
<1>7. b \in Seq(Nat)
  <2>1. i + 1 \in Int /\ n \in Int /\ \A j \in i + 1 .. n : l[j] \in Nat
    BY <1>1, <1>2
  <2> QED BY <1>3, <2>1, SubSeqProperties
<1>8. Len(b) = n - i
  BY <1>1, <1>2, <1>3
<1>9. \A j \in 1 .. n - i : b[j] = l[j + i]
  BY <1>1, <1>2, <1>3
<1>10. PICK g : g = a \o b
  OBVIOUS
<1>11. RemoveAt(l, i) = g
  BY <1>1, <1>3, <1>10 DEF RemoveAt
<1>12. g \in Seq(Nat) /\ Len(g) = Len(a) + Len(b)
  BY <1>4, <1>7, <1>10
<1>13. Len(g) = n - 1
  BY <1>1, <1>5, <1>8, <1>12
<1>14. \A j \in 1 .. Len(a) + Len(b) : g[j] = IF j <= Len(a) THEN a[j] ELSE b[j - Len(a)]
  BY <1>4, <1>7, <1>10
<1>15. \A j \in 1 .. n - 1 : g[j] = IF j < i THEN a[j] ELSE b[j - (i - 1)]
  <2>1. Len(a) + Len(b) = n - 1 /\ \A j \in 1 .. n - 1 : j <= Len(a) <=> j < i
    BY <1>1, <1>5, <1>8
  <2> QED BY <1>5, <1>14, <2>1
<1>16. \A j \in 1 .. n - 1 : g[j] = IF j < i THEN l[j] ELSE l[j + 1]
  <2> SUFFICES ASSUME NEW j \in 1 .. n - 1 PROVE g[j] = IF j < i THEN l[j] ELSE l[j + 1]
    OBVIOUS
  <2>1. CASE j < i
    <3>1. j \in 1 .. i - 1
      BY <1>1, <2>1
    <3> QED BY <1>6, <1>15, <2>1, <3>1
  <2>2. CASE ~(j < i)
    <3>1. j - (i - 1) \in 1 .. n - i /\ (j - (i - 1)) + i = j + 1
      BY <1>1, <2>2
    <3> QED BY <1>9, <1>15, <2>2, <3>1
  <2> QED BY <2>1, <2>2
<1>17. \A j \in 1 .. n - 1 : j \in 1 .. n /\ j + 1 \in 1 .. n
  BY <1>1
<1>18. \A j, k \in 1 .. n : l[j] = l[k] => j = k
  BY <1>1 DEF ListOf
<1>19. \A j, k \in 1 .. Len(g) : g[j] = g[k] => j = k
  <2> SUFFICES ASSUME NEW j \in 1 .. n - 1, NEW k \in 1 .. n - 1, g[j] = g[k] PROVE j = k
    BY <1>13
  <2>1. PICK p \in 1 .. n, q \in 1 .. n : p = (IF j < i THEN j ELSE j + 1) /\ q = (IF k < i THEN k ELSE k + 1)
    BY <1>17
  <2>2. l[p] = l[q]
    BY <1>16, <2>1
  <2>3. p = q
    BY <1>18, <2>2
  <2> QED BY <1>1, <2>1, <2>3
<1>20. ASSUME NEW j \in 1 .. Len(g) PROVE g[j] \in S \ {l[i]}
  <2>1. j \in 1 .. n - 1
    BY <1>13
  <2>2. PICK p \in 1 .. n : p = (IF j < i THEN j ELSE j + 1)
    BY <1>17, <2>1
  <2>3. g[j] = l[p] /\ p # i
    BY <1>1, <1>16, <2>1, <2>2
  <2> QED BY <1>1, <1>18, <2>3 DEF ListOf
<1>21. ASSUME NEW x \in S, x # l[i] PROVE \E j \in 1 .. Len(g) : x = g[j]
  <2>1. PICK p \in 1 .. n : x = l[p]
    BY <1>1 DEF ListOf
  <2>2. p # i
    BY <1>21, <2>1
  <2>3. CASE p < i
    <3>1. p \in 1 .. n - 1 /\ g[p] = x
      BY <1>1, <1>16, <2>1, <2>3
    <3> QED BY <1>13, <3>1
  <2>4. CASE i < p
    <3>1. PICK j \in 1 .. n - 1 : j = p - 1 /\ ~(j < i) /\ j + 1 = p
      BY <1>1, <2>4
    <3>2. g[j] = x
      BY <1>16, <2>1, <3>1
    <3> QED BY <1>13, <3>2
  <2> QED BY <1>1, <2>2, <2>3, <2>4
<1>22. S \ {l[i]} = {g[j] : j \in 1 .. Len(g)}
  BY <1>20, <1>21
<1>23. g \in Seq(Nat)
  BY <1>12
<1>24. PICK T : T = S \ {l[i]}
  OBVIOUS
<1>25. ListOf(g, T)
  BY <1>19, <1>22, <1>23, <1>24, Zenon DEF ListOf
<1> QED BY <1>11, <1>24, <1>25

\* spud_unlink
LEMMA UnlinkList ==
  ASSUME NEW l, NEW S, ListOf(l, S), NEW x \in S
  PROVE  ListOf(RemoveFirst(l, x), S \ {x})
<1> DEFINE I == {i \in 1 .. Len(l) : l[i] = x}
<1>1. I # {} /\ I \in SUBSET Nat
  BY DEF ListOf
<1>2. RemoveFirst(l, x) = RemoveAt(l, Min(I))
  BY <1>1 DEF RemoveFirst, SelectInSeq
<1>3. Min(I) \in I
  BY <1>1, Least
<1>4. PICK i \in 1 .. Len(l) : i = Min(I) /\ l[i] = x
  BY <1>3
<1> QED BY <1>2, <1>4, RemoveAtList

\* A list without repetition is as long as its set
LEMMA ListLength ==
  ASSUME NEW l, NEW S, ListOf(l, S)
  PROVE  Len(l) = Cardinality(S)
<1>1. l \in Seq(Nat) /\ Len(l) \in Nat /\ DOMAIN l = 1 .. Len(l)
  BY DEF ListOf
<1>2. PICK g : g = [i \in 1 .. Len(l) |-> l[i]]
  OBVIOUS
<1>3. g \in Bijection(1 .. Len(l), S)
  BY <1>2 DEF Bijection, Injection, Surjection, IsInjective, ListOf
<1>4. ExistsBijection(1 .. Len(l), S)
  BY <1>3 DEF ExistsBijection
<1> QED BY <1>1, <1>4, FS_CountingElements
-----------------------------------------------------------------------------
(* The memory of the heap *)

Nexts(b) == [h \in DOMAIN b |-> NextOf(b, h)]
FreeOf(b) == {h \in DOMAIN b : b[h].free}
Used(b) == {h \in DOMAIN b : ~b[h].free}
Blocks(b) ==
  /\ IsFiniteSet(DOMAIN b)
  /\ \A h \in DOMAIN b : b[h].size \in Nat /\ b[h].size >= 1 /\ b[h].free \in BOOLEAN
Feet(b, f) == \A h \in DOMAIN b : NextOf(b, h) \in DOMAIN f /\ f[NextOf(b, h)] = b[h].size
Heap(b, e, f) == Blocks(b) /\ Chain(DOMAIN b, Nexts(b), e) /\ Feet(b, f)
MemOK(m) ==
  /\ m = [blk |-> m.blk, foot |-> m.foot, fl |-> m.fl, end |-> m.end]
  /\ Heap(m.blk, m.end, m.foot) /\ ListOf(m.fl, FreeOf(m.blk))

\* The blocks in use of b are in c as they are, and S are the new ones
Kept(b, c, S) == Used(c) = Used(b) \cup S /\ \A x \in Used(b) : c[x] = b[x]

\* g is f with v at x
IsPut(g, f, x, v) == DOMAIN g = DOMAIN f \cup {x} /\ g[x] = v /\ \A y \in DOMAIN f : y # x => g[y] = f[y]

LEMMA PutIs ==
  ASSUME NEW f, NEW x, NEW v
  PROVE  IsPut(Put(f, x, v), f, x, v)
BY DEF Put, IsPut

LEMMA BlockIs ==
  ASSUME NEW s, NEW f
  PROVE  Block(s, f).size = s /\ Block(s, f).free = f
BY DEF Block

\* spud_alloc_locked cuts the block h of b, with the footers f, after n units: v is the header of the
\* first part, u at k that of the rest, t is where the rest ends; p and q are on the way to c and g
IsCut(b, e, f, h, n, k, rest, u, v, p, c, t, q, g) ==
  /\ Heap(b, e, f) /\ h \in DOMAIN b /\ b[h].free
  /\ n \in Nat /\ n >= 1 /\ rest \in Nat /\ rest >= 1 /\ b[h].size = n + Ovh + rest
  /\ k = h + Ovh + n /\ t = k + Ovh + rest
  /\ u.size = rest /\ u.free = TRUE /\ v.size = n /\ v.free = FALSE
  /\ IsPut(p, b, k, u) /\ IsPut(c, p, h, v) /\ IsPut(q, f, t, rest) /\ IsPut(g, q, k, n)

LEMMA CutBlocks ==
  ASSUME NEW b, NEW e, NEW f, NEW h, NEW n, NEW k, NEW rest, NEW u, NEW v, NEW p, NEW c, NEW t, NEW q, NEW g,
         IsCut(b, e, f, h, n, k, rest, u, v, p, c, t, q, g)
  PROVE  /\ Heap(c, e, g) /\ FreeOf(c) = (FreeOf(b) \ {h}) \cup {k} /\ k \notin FreeOf(b) /\ k \in Nat
         /\ Kept(b, c, {h}) /\ c[h].size = n
<1> USE DEF IsCut, Heap
<1>1. h \in Nat /\ k \in Nat /\ h < k /\ Ovh \in Nat /\ Ovh >= 1
  BY USizesAre DEF Chain
<1>2. NextOf(b, h) = k + Ovh + rest /\ Nexts(b)[h] = k + Ovh + rest
  BY <1>1 DEF NextOf, Nexts
<1>3. PICK M : M = [x \in DOMAIN b \cup {k} |->
                      IF x = h THEN k ELSE IF x = k THEN Nexts(b)[h] ELSE Nexts(b)[x]]
  OBVIOUS
<1>4. k \notin DOMAIN b /\ Chain(DOMAIN b \cup {k}, M, e)
  <2>1. k < Nexts(b)[h]
    BY <1>1, <1>2
  <2> QED BY <1>1, <1>3, <2>1, SplitChain
<1>5. /\ DOMAIN c = DOMAIN b \cup {k} /\ c[h] = v /\ c[k] = u
      /\ \A x \in DOMAIN b : x # h => c[x] = b[x]
  <2>1. DOMAIN p = DOMAIN b \cup {k} /\ p[k] = u /\ \A x \in DOMAIN b : x # k => p[x] = b[x]
    BY DEF IsPut
  <2>2. DOMAIN c = DOMAIN p \cup {h} /\ c[h] = v /\ \A x \in DOMAIN p : x # h => c[x] = p[x]
    BY DEF IsPut
  <2> QED BY <1>1, <1>4, <2>1, <2>2
<1>6. c[h].size = n /\ c[h].free = FALSE /\ c[k].size = rest /\ c[k].free = TRUE
  BY <1>5
<1>7. NextOf(c, h) = k /\ NextOf(c, k) = Nexts(b)[h] /\ \A x \in DOMAIN b : x # h => NextOf(c, x) = NextOf(b, x)
  BY <1>2, <1>5, <1>6 DEF NextOf
<1>8. Nexts(c) = M
  BY <1>3, <1>5, <1>7 DEF Nexts
<1>9. Blocks(c)
  <2>1. IsFiniteSet(DOMAIN c)
    BY <1>5, FS_AddElement DEF Blocks
  <2>2. \A x \in DOMAIN c : c[x].size \in Nat /\ c[x].size >= 1 /\ c[x].free \in BOOLEAN
    BY <1>5, <1>6 DEF Blocks
  <2> QED BY <1>5, <2>1, <2>2 DEF Blocks
<1>10. Feet(c, g)
  <2>2. k < t
    BY <1>1
  <2>3. /\ DOMAIN g = DOMAIN f \cup {t, k} /\ g[k] = n /\ g[t] = rest
        /\ \A x \in DOMAIN f : x # t /\ x # k => g[x] = f[x]
    <3>1. DOMAIN q = DOMAIN f \cup {t} /\ q[t] = rest /\ \A x \in DOMAIN f : x # t => q[x] = f[x]
      BY DEF IsPut
    <3>2. DOMAIN g = DOMAIN q \cup {k} /\ g[k] = n /\ \A x \in DOMAIN q : x # k => g[x] = q[x]
      BY DEF IsPut
    <3> QED BY <1>1, <2>2, <3>1, <3>2
  <2> SUFFICES ASSUME NEW x \in DOMAIN c PROVE NextOf(c, x) \in DOMAIN g /\ g[NextOf(c, x)] = c[x].size
    BY DEF Feet
  <2>4. CASE x = h
    BY <1>6, <1>7, <2>3, <2>4
  <2>5. CASE x = k
    BY <1>2, <1>6, <1>7, <2>3, <2>5
  <2>6. CASE x \in DOMAIN b /\ x # h
    <3>1. NextOf(c, x) = NextOf(b, x) /\ c[x] = b[x]
      BY <1>5, <1>7, <2>6
    <3>2. NextOf(b, x) \in DOMAIN f /\ f[NextOf(b, x)] = b[x].size
      BY <2>6 DEF Feet
    <3>3. M[x] = NextOf(b, x) /\ M[h] = k /\ M[k] = t
      BY <1>1, <1>2, <1>3, <1>4, <2>6 DEF Nexts
    <3>4. M[x] # M[h] /\ M[x] # M[k]
      BY <1>4, <2>6, ChainInj
    <3> QED BY <2>3, <3>1, <3>2, <3>3, <3>4
  <2> QED BY <1>5, <2>4, <2>5, <2>6
<1>11. FreeOf(c) = (FreeOf(b) \ {h}) \cup {k} /\ k \notin FreeOf(b)
  BY <1>4, <1>5, <1>6 DEF FreeOf
<1>12. Kept(b, c, {h})
  BY <1>4, <1>5, <1>6 DEF Kept, Used
<1> QED BY <1>1, <1>4, <1>5, <1>6, <1>8, <1>9, <1>10, <1>11, <1>12

\* Only the free flag of a block changes
IsFlagged(b, e, f, h, v, c) ==
  Heap(b, e, f) /\ h \in DOMAIN b /\ v.size = b[h].size /\ v.free \in BOOLEAN /\ IsPut(c, b, h, v)

LEMMA FlagBlocks ==
  ASSUME NEW b, NEW e, NEW f, NEW h, NEW v, NEW c, IsFlagged(b, e, f, h, v, c)
  PROVE  Heap(c, e, f) /\ DOMAIN c = DOMAIN b /\ c[h] = v /\ \A x \in DOMAIN b : x # h => c[x] = b[x]
<1> USE DEF IsFlagged, Heap
<1>1. /\ DOMAIN c = DOMAIN b /\ c[h] = v /\ \A x \in DOMAIN b : x # h => c[x] = b[x]
  BY DEF IsPut
<1>2. c[h].size = b[h].size /\ c[h].free \in BOOLEAN
  BY <1>1
<1>3. \A x \in DOMAIN b : NextOf(c, x) = NextOf(b, x) /\ c[x].size = b[x].size
  BY <1>1, <1>2 DEF NextOf
<1>4. Nexts(c) = Nexts(b)
  BY <1>1, <1>3 DEF Nexts
<1>5. Blocks(c)
  BY <1>1, <1>2 DEF Blocks
<1>6. Feet(c, f)
  BY <1>1, <1>3 DEF Feet
<1> QED BY <1>1, <1>2, <1>4, <1>5, <1>6

\* g is f without x
IsDrop(g, f, x) == DOMAIN g = DOMAIN f \ {x} /\ \A y \in DOMAIN g : g[y] = f[y]

LEMMA DropIs ==
  ASSUME NEW f, NEW x
  PROVE  IsDrop(Drop(f, {x}), f, x)
BY DEF Drop, IsDrop

\* The free block h takes in the free block k behind it: v is the new header, t the end
IsMerged(b, e, f, h, k, s, v, p, c, t, q, g) ==
  /\ Heap(b, e, f) /\ h \in DOMAIN b /\ b[h].free /\ k \in DOMAIN b /\ b[k].free /\ NextOf(b, h) = k
  /\ s = b[h].size + Ovh + b[k].size /\ t = h + Ovh + s /\ v.size = s /\ v.free = TRUE
  /\ IsPut(p, b, h, v) /\ IsDrop(c, p, k) /\ IsDrop(q, f, k) /\ IsPut(g, q, t, s)

MergedTo(b, e, h, k, c, g) ==
  /\ Heap(c, e, g) /\ DOMAIN c = DOMAIN b \ {k} /\ h \in FreeOf(c)
  /\ FreeOf(c) = FreeOf(b) \ {k} /\ Kept(b, c, {}) /\ NextOf(c, h) = NextOf(b, k)

LEMMA MergeBlocks ==
  ASSUME NEW b, NEW e, NEW f, NEW h, NEW k, NEW s, NEW v, NEW p, NEW c, NEW t, NEW q, NEW g,
         IsMerged(b, e, f, h, k, s, v, p, c, t, q, g)
  PROVE  MergedTo(b, e, h, k, c, g)
<1> USE DEF IsMerged, Heap
<1>1. h \in Nat /\ k \in Nat /\ Ovh \in Nat /\ b[h].size \in Nat /\ b[k].size \in Nat /\ b[h].size >= 1
  BY USizesAre DEF Chain, Blocks
<1>2. k = h + Ovh + b[h].size /\ NextOf(b, k) = t /\ Nexts(b)[h] = k /\ Nexts(b)[k] = t /\ s \in Nat /\ s >= 1
  <2>1. k = h + Ovh + b[h].size
    BY DEF NextOf
  <2>2. s \in Nat /\ s >= 1
    BY <1>1
  <2>3. NextOf(b, k) = t
    BY <1>1, <2>1 DEF NextOf
  <2> QED BY <2>1, <2>2, <2>3 DEF Nexts
<1>3. PICK M : M = [x \in DOMAIN b \ {k} |-> IF x = h THEN Nexts(b)[k] ELSE Nexts(b)[x]]
  OBVIOUS
<1>4. Chain(DOMAIN b \ {k}, M, e) /\ h # k
  BY <1>2, <1>3, MergeChain
<1>5. /\ DOMAIN c = DOMAIN b \ {k} /\ c[h] = v /\ \A x \in DOMAIN c : x # h => c[x] = b[x]
      /\ h \in DOMAIN c
  BY <1>4 DEF IsPut, IsDrop
<1>6. c[h].size = s /\ c[h].free = TRUE
  BY <1>5
<1>7. NextOf(c, h) = t /\ \A x \in DOMAIN c : x # h => NextOf(c, x) = NextOf(b, x)
  BY <1>5, <1>6 DEF NextOf
<1>8. Nexts(c) = M
  BY <1>2, <1>3, <1>5, <1>7 DEF Nexts
<1>9. Blocks(c)
  <2>1. IsFiniteSet(DOMAIN c)
    BY <1>5, FS_RemoveElement DEF Blocks
  <2>2. \A x \in DOMAIN c : c[x].size \in Nat /\ c[x].size >= 1 /\ c[x].free \in BOOLEAN
    BY <1>2, <1>5, <1>6 DEF Blocks
  <2> QED BY <2>1, <2>2 DEF Blocks
<1>10. Feet(c, g)
  <2>1. DOMAIN g = (DOMAIN f \ {k}) \cup {t} /\ g[t] = s /\ \A x \in DOMAIN f : x # t /\ x # k => g[x] = f[x]
    BY DEF IsPut, IsDrop
  <2> SUFFICES ASSUME NEW x \in DOMAIN c PROVE NextOf(c, x) \in DOMAIN g /\ g[NextOf(c, x)] = c[x].size
    BY DEF Feet
  <2>2. CASE x = h
    BY <1>6, <1>7, <2>1, <2>2
  <2>3. CASE x # h
    <3>1. x \in DOMAIN b /\ x # k /\ NextOf(c, x) = NextOf(b, x) /\ c[x] = b[x]
      BY <1>5, <1>7, <2>3
    <3>2. NextOf(b, x) \in DOMAIN f /\ f[NextOf(b, x)] = b[x].size
      BY <3>1 DEF Feet
    <3>3. Nexts(b)[x] = NextOf(b, x)
      BY <3>1 DEF Nexts
    <3>4. NextOf(b, x) # k /\ NextOf(b, x) # t
      BY <1>2, <2>3, <3>1, <3>3, ChainInj
    <3> QED BY <2>1, <3>1, <3>2, <3>4
  <2> QED BY <2>2, <2>3
<1>11. FreeOf(c) = FreeOf(b) \ {k} /\ h \in FreeOf(c)
  BY <1>5, <1>6 DEF FreeOf
<1>12. Kept(b, c, {})
  BY <1>5, <1>6 DEF Kept, Used
<1> QED BY <1>2, <1>4, <1>5, <1>7, <1>8, <1>9, <1>10, <1>11, <1>12 DEF MergedTo

\* spud_grow adds a block of s units at the end e
IsGrown(b, e, f, s, v, c, t, g) ==
  /\ Heap(b, e, f) /\ s \in Nat /\ s >= 1 /\ t = e + Ovh + s /\ v.size = s /\ v.free = TRUE
  /\ IsPut(c, b, e, v) /\ IsPut(g, f, t, s)

LEMMA GrowBlocks ==
  ASSUME NEW b, NEW e, NEW f, NEW s, NEW v, NEW c, NEW t, NEW g, IsGrown(b, e, f, s, v, c, t, g)
  PROVE  /\ Heap(c, t, g) /\ c[e] = v
         /\ e \in Nat /\ e \notin DOMAIN b /\ FreeOf(c) = FreeOf(b) \cup {e} /\ Kept(b, c, {})
<1> USE DEF IsGrown, Heap
<1>1. e \in Nat /\ Ovh \in Nat /\ t \in Nat /\ e < t
  BY USizesAre DEF Chain
<1>2. PICK M : M = [x \in DOMAIN b \cup {e} |-> IF x = e THEN t ELSE Nexts(b)[x]]
  OBVIOUS
<1>3. e \notin DOMAIN b /\ Chain(DOMAIN b \cup {e}, M, t)
  BY <1>1, <1>2, GrowChain
<1>4. DOMAIN c = DOMAIN b \cup {e} /\ c[e] = v /\ \A x \in DOMAIN b : c[x] = b[x]
  BY <1>3 DEF IsPut
<1>5. c[e].size = s /\ c[e].free = TRUE
  BY <1>4
<1>6. NextOf(c, e) = t /\ \A x \in DOMAIN b : NextOf(c, x) = NextOf(b, x)
  BY <1>4, <1>5 DEF NextOf
<1>7. Nexts(c) = M
  BY <1>2, <1>3, <1>4, <1>6 DEF Nexts
<1>8. Blocks(c)
  <2>1. IsFiniteSet(DOMAIN c)
    BY <1>4, FS_AddElement DEF Blocks
  <2>2. \A x \in DOMAIN c : c[x].size \in Nat /\ c[x].size >= 1 /\ c[x].free \in BOOLEAN
    BY <1>4, <1>5 DEF Blocks
  <2> QED BY <2>1, <2>2 DEF Blocks
<1>9. Feet(c, g)
  <2>1. DOMAIN g = DOMAIN f \cup {t} /\ g[t] = s /\ \A x \in DOMAIN f : x # t => g[x] = f[x]
    BY DEF IsPut
  <2> SUFFICES ASSUME NEW x \in DOMAIN c PROVE NextOf(c, x) \in DOMAIN g /\ g[NextOf(c, x)] = c[x].size
    BY DEF Feet
  <2>2. CASE x = e
    BY <1>5, <1>6, <2>1, <2>2
  <2>3. CASE x \in DOMAIN b
    <3>1. NextOf(c, x) = NextOf(b, x) /\ c[x] = b[x] /\ Nexts(b)[x] = NextOf(b, x)
      BY <1>4, <1>6, <2>3 DEF Nexts
    <3>2. NextOf(b, x) \in DOMAIN f /\ f[NextOf(b, x)] = b[x].size
      BY <2>3 DEF Feet
    <3>3. NextOf(b, x) # t
      BY <1>1, <2>3, <3>1 DEF Chain
    <3> QED BY <2>1, <3>1, <3>2, <3>3
  <2> QED BY <1>4, <2>2, <2>3
<1>10. FreeOf(c) = FreeOf(b) \cup {e}
  BY <1>3, <1>4, <1>5 DEF FreeOf
<1>11. Kept(b, c, {})
  BY <1>3, <1>4, <1>5 DEF Kept, Used
<1> QED BY <1>1, <1>3, <1>4, <1>7, <1>8, <1>9, <1>10, <1>11
-----------------------------------------------------------------------------
(* Growing *)

LEMMA DivIs ==
  ASSUME NEW a \in Int, NEW p \in Nat, p >= 1
  PROVE  a \div p \in Int /\ a % p \in Nat /\ a % p < p /\ a = (p * (a \div p)) + (a % p)
OBVIOUS

LEMMA TimesBelowZero ==
  ASSUME NEW a \in Int, NEW p \in Nat, a <= -1
  PROVE  p * a <= 0 - p
<1>1. PICK c \in Nat : c = (0 - a) - 1
  OBVIOUS
<1>2. p * c \in Nat
  OBVIOUS
<1>3. p * a = 0 - p - (p * c)
  BY <1>1
<1> QED BY <1>2, <1>3

\* A remainder is the least of its class that is not negative
LEMMA ModLeast ==
  ASSUME NEW n \in Int, NEW p \in Nat, p >= 1, NEW q \in Int, (p * q) - n >= 0
  PROVE  (0 - n) % p <= (p * q) - n
<1>1. PICK a \in Int : a = 0 - n
  OBVIOUS
<1>2. PICK d \in Int, r \in Nat : d = a \div p /\ r = a % p /\ r < p /\ a = (p * d) + r
  BY DivIs
<1>3. (p * q) - n = (p * (q + d)) + r
  BY <1>1, <1>2
<1>4. CASE q + d <= -1
  <2>1. p * (q + d) <= 0 - p
    BY <1>4, TimesBelowZero
  <2>2. PICK z \in Int : z = p * (q + d)
    OBVIOUS
  <2> QED BY <1>2, <1>3, <2>1, <2>2
<1>5. CASE q + d >= 0
  <2>1. p * (q + d) >= 0
    BY <1>5
  <2>2. PICK z \in Int : z = p * (q + d)
    OBVIOUS
  <2> QED BY <1>1, <1>2, <1>3, <2>1, <2>2
<1> QED BY <1>4, <1>5

\* spud_grow maps at least a chunk; the new block is too small only at the edge
LEMMA GrowUnitsIs ==
  ASSUME NEW n \in Nat
  PROVE  /\ GrowUnits(n) \in Nat /\ GrowUnits(n) >= Chunk
         /\ GrowUnits(n) - Ovh < n => n > Chunk - Ovh /\ (0 - n) % PageUnits < Ovh
<1>1. PICK w \in Nat : w = (IF n < Chunk THEN Chunk ELSE n) /\ w >= n /\ w >= Chunk
  BY USizesAre
<1>2. PICK a \in Nat : a = w + PageUnits - 1
  BY USizesAre
<1>3. PICK q \in Int, r \in Nat : q = a \div PageUnits /\ r < PageUnits /\ a = (PageUnits * q) + r
  BY DivIs, USizesAre
<1>4. PICK z \in Int : z = PageUnits * q
  BY USizesAre
<1>5. GrowUnits(n) = z
  BY <1>1, <1>2, <1>3, <1>4 DEF GrowUnits
<1>6. z >= w
  BY <1>2, <1>3, <1>4, USizesAre
<1>7. ASSUME z - Ovh < n PROVE (0 - n) % PageUnits < Ovh
  <2>1. (0 - n) % PageUnits <= z - n
    <3>1. (PageUnits * q) - n >= 0
      BY <1>1, <1>4, <1>6
    <3>2. (0 - n) % PageUnits <= (PageUnits * q) - n
      <4>1. n \in Int /\ PageUnits \in Nat /\ PageUnits >= 1
        BY USizesAre
      <4> QED BY <3>1, <4>1, ModLeast, Zenon
    <3> QED BY <1>4, <3>2
  <2>2. (0 - n) % PageUnits \in Nat
    BY DivIs, USizesAre
  <2>3. PICK y \in Nat : y = (0 - n) % PageUnits
    BY <2>2
  <2> QED BY <1>7, <2>1, <2>3, USizesAre
<1>8. z - Ovh < n => n > Chunk - Ovh
  BY <1>1, <1>6, USizesAre
<1>9. z \in Nat /\ z >= Chunk
  BY <1>1, <1>6, USizesAre
<1> QED BY <1>5, <1>7, <1>8, <1>9

LEMMA GrowKeeps ==
  ASSUME NEW m, MemOK(m), NEW n \in Nat, NEW t, t = Grow(m, n)
  PROVE  /\ MemOK(t) /\ Kept(m.blk, t.blk, {})
         /\ t.fl[1] = m.end /\ Len(t.fl) >= 1 /\ t.blk[m.end].size = GrowUnits(n) - Ovh
<1>1. PICK s \in Nat : s = GrowUnits(n) - Ovh /\ s >= 1
  BY GrowUnitsIs, USizesAre
<1>2. PICK v : v = Block(s, TRUE)
  OBVIOUS
<1>3. v.size = s /\ v.free = TRUE
  BY <1>2, BlockIs
<1>4. PICK y : y = m.end + Ovh + s
  OBVIOUS
<1>5. PICK b, f, l, e : b = m.blk /\ f = m.foot /\ l = m.fl /\ e = m.end
  OBVIOUS
<1>6. PICK c : c = Put(b, e, v)
  OBVIOUS
<1>7. PICK g : g = Put(f, y, s)
  OBVIOUS
<1>8. t = [blk |-> c, foot |-> g, fl |-> <<e>> \o l, end |-> y]
  BY <1>1, <1>2, <1>4, <1>5, <1>6, <1>7 DEF Grow
<1>9. Heap(b, e, f) /\ ListOf(l, FreeOf(b))
  BY <1>5 DEF MemOK
<1>10. IsPut(c, b, e, v) /\ IsPut(g, f, y, s)
  BY <1>6, <1>7, PutIs
<1>11. /\ Heap(c, y, g) /\ c[e] = v
       /\ e \in Nat /\ e \notin DOMAIN b /\ FreeOf(c) = FreeOf(b) \cup {e} /\ Kept(b, c, {})
  <2>1. y = e + Ovh + s
    BY <1>4, <1>5
  <2>2. IsGrown(b, e, f, s, v, c, y, g)
    BY <1>1, <1>3, <1>9, <1>10, <2>1 DEF IsGrown
  <2> QED BY <2>2, GrowBlocks
<1>12. e \notin FreeOf(b)
  BY <1>11 DEF FreeOf
<1>13. ListOf(<<e>> \o l, FreeOf(c))
  BY <1>9, <1>11, <1>12, ConsList
<1>14. (<<e>> \o l)[1] = e /\ Len(<<e>> \o l) >= 1
  <2>1. l \in Seq(Nat) /\ e \in Nat
    BY <1>9, <1>11 DEF ListOf
  <2> QED BY <2>1
<1>15. PICK ll : ll = <<e>> \o l
  OBVIOUS
<1>16. t.blk = c /\ t.foot = g /\ t.fl = ll /\ t.end = y /\ t = [blk |-> t.blk, foot |-> t.foot, fl |-> t.fl, end |-> t.end]
  BY <1>8, <1>15
<1>17. MemOK(t)
  BY <1>11, <1>13, <1>15, <1>16 DEF MemOK
<1> QED BY <1>1, <1>3, <1>5, <1>11, <1>14, <1>15, <1>16, <1>17
-----------------------------------------------------------------------------
(* Taking a block *)

LEMMA FoundIs ==
  ASSUME NEW m, MemOK(m), NEW n, Found(m, n) # {}
  PROVE  /\ Min(Found(m, n)) \in 1 .. Len(m.fl) /\ m.fl[Min(Found(m, n))] \in FreeOf(m.blk)
         /\ m.blk[m.fl[Min(Found(m, n))]].size >= n
<1>1. Len(m.fl) \in Nat
  BY DEF MemOK, ListOf
<1>2. Found(m, n) \in SUBSET Nat
  BY <1>1 DEF Found
<1>3. Min(Found(m, n)) \in Found(m, n)
  BY <1>2, Least
<1>4. PICK i : i = Min(Found(m, n))
  OBVIOUS
<1>5. i \in 1 .. Len(m.fl) /\ m.blk[m.fl[i]].size >= n
  <2>1. i \in Found(m, n)
    BY <1>3, <1>4
  <2> QED BY <2>1, Zenon DEF Found
<1>6. m.fl[i] \in FreeOf(m.blk)
  BY <1>5 DEF MemOK, ListOf
<1> QED BY <1>4, <1>5, <1>6

LEMMA TakeKeeps ==
  ASSUME NEW m, MemOK(m), NEW n \in Nat, n >= 1, Found(m, n) # {},
         NEW t, t = Take(m, n), NEW h, h = m.fl[Min(Found(m, n))]
  PROVE  MemOK(t) /\ h \in FreeOf(m.blk) /\ Kept(m.blk, t.blk, {h}) /\ t.blk[h].size >= n
<1>1. PICK i : i = Min(Found(m, n))
  OBVIOUS
<1>2. i \in 1 .. Len(m.fl) /\ h = m.fl[i] /\ h \in FreeOf(m.blk) /\ m.blk[h].size >= n
  BY <1>1, FoundIs
<1>3. PICK b, f, l, e : b = m.blk /\ f = m.foot /\ l = m.fl /\ e = m.end
  OBVIOUS
<1>4. m = [blk |-> b, foot |-> f, fl |-> l, end |-> e] /\ Heap(b, e, f) /\ ListOf(l, FreeOf(b))
  BY <1>3 DEF MemOK
<1>5. i \in 1 .. Len(l) /\ h = l[i] /\ h \in DOMAIN b /\ b[h].free /\ b[h].size >= n /\ h \in FreeOf(b)
  BY <1>2, <1>3 DEF FreeOf
<1>6. b[h].size \in Nat /\ h \in Nat
  BY <1>4, <1>5 DEF Heap, Blocks, Chain
<1>7. CASE b[h].size >= n + Ovh + URest
  <2>1. PICK rest \in Nat : rest = b[h].size - n - Ovh /\ rest >= 1
    BY <1>6, <1>7, USizesAre
  <2>2. PICK k : k = h + Ovh + n
    OBVIOUS
  <2>3. PICK y : y = k + Ovh + rest
    OBVIOUS
  <2>4. PICK u : u = Block(rest, TRUE)
    OBVIOUS
  <2>5. PICK v : v = Block(n, FALSE)
    OBVIOUS
  <2>6. u.size = rest /\ u.free = TRUE /\ v.size = n /\ v.free = FALSE
    BY <2>4, <2>5, BlockIs
  <2>7. PICK p : p = Put(b, k, u)
    OBVIOUS
  <2>8. PICK c : c = Put(p, h, v)
    OBVIOUS
  <2>9. PICK q : q = Put(f, y, rest)
    OBVIOUS
  <2>10. PICK g : g = Put(q, k, n)
    OBVIOUS
  <2>11. IsPut(p, b, k, u) /\ IsPut(c, p, h, v) /\ IsPut(q, f, y, rest) /\ IsPut(g, q, k, n)
    BY <2>7, <2>8, <2>9, <2>10, PutIs
  <2>12. b[h].size = n + Ovh + rest
    BY <1>6, <2>1, USizesAre
  <2>13. IsCut(b, e, f, h, n, k, rest, u, v, p, c, y, q, g)
    BY <1>4, <1>5, <2>1, <2>2, <2>3, <2>6, <2>11, <2>12 DEF IsCut
  <2>14. /\ Heap(c, e, g) /\ FreeOf(c) = (FreeOf(b) \ {h}) \cup {k} /\ k \notin FreeOf(b) /\ k \in Nat
         /\ Kept(b, c, {h}) /\ c[h].size = n
    BY ONLY <2>13, CutBlocks
  <2>15. PICK z : z = [l EXCEPT ![i] = k]
    OBVIOUS
  <2>16. ListOf(z, FreeOf(c))
    <3>1. ListOf([l EXCEPT ![i] = k], (FreeOf(b) \ {l[i]}) \cup {k})
      BY <1>4, <1>5, <2>14, ReplaceList, Zenon
    <3> QED BY <1>5, <2>14, <2>15, <3>1, Zenon
  <2>17. Cut(m, h, n) = [blk |-> c, foot |-> g, fl |-> l, end |-> e]
    <3>1. Cut(m, h, n) = [m EXCEPT !.blk = Put(Put(@, k, Block(rest, TRUE)), h, Block(n, FALSE)),
                                   !.foot = Put(Put(@, k + Ovh + rest, rest), k, n)]
      BY <1>3, <2>1, <2>2 DEF Cut
    <3>2. Cut(m, h, n) = [m EXCEPT !.blk = c, !.foot = g]
      BY <1>3, <2>3, <2>4, <2>5, <2>7, <2>8, <2>9, <2>10, <3>1
    <3> QED BY <1>4, <3>2
  <2>18. t = [Cut(m, h, n) EXCEPT !.fl = [@ EXCEPT ![i] = k]]
    BY <1>1, <1>2, <1>3, <1>7, <2>2 DEF Take
  <2>19. t = [blk |-> c, foot |-> g, fl |-> z, end |-> e]
    BY <2>15, <2>17, <2>18
  <2>20. MemOK(t)
    BY <2>14, <2>16, <2>19 DEF MemOK
  <2> QED BY <1>2, <1>3, <1>6, <2>14, <2>19, <2>20
<1>8. CASE ~(b[h].size >= n + Ovh + URest)
  <2>1. PICK v : v = Block(b[h].size, FALSE)
    OBVIOUS
  <2>2. v.size = b[h].size /\ v.free = FALSE
    BY <2>1, BlockIs
  <2>3. PICK c : c = Put(b, h, v)
    OBVIOUS
  <2>4. IsPut(c, b, h, v)
    BY <2>3, PutIs
  <2>5. IsFlagged(b, e, f, h, v, c)
    BY <1>4, <1>5, <2>2, <2>4 DEF IsFlagged
  <2>6. Heap(c, e, f) /\ DOMAIN c = DOMAIN b /\ c[h] = v /\ \A x \in DOMAIN b : x # h => c[x] = b[x]
    BY <2>5, FlagBlocks
  <2>7. FreeOf(c) = FreeOf(b) \ {h} /\ Kept(b, c, {h})
    BY <1>5, <2>2, <2>6 DEF FreeOf, Used, Kept
  <2>8. PICK z : z = RemoveAt(l, i)
    OBVIOUS
  <2>9. ListOf(z, FreeOf(c))
    BY <1>4, <1>5, <2>7, <2>8, RemoveAtList
  <2>10. t = [m EXCEPT !.blk = Put(@, h, Block(m.blk[h].size, FALSE)), !.fl = RemoveAt(@, i)]
    BY <1>1, <1>2, <1>3, <1>8 DEF Take
  <2>11. t = [m EXCEPT !.blk = c, !.fl = z]
    BY <1>3, <2>1, <2>3, <2>8, <2>10
  <2>12. t = [blk |-> c, foot |-> f, fl |-> z, end |-> e]
    BY <1>4, <2>11
  <2>13. MemOK(t)
    BY <2>6, <2>9, <2>12 DEF MemOK
  <2> QED BY <1>2, <1>3, <1>5, <2>2, <2>6, <2>7, <2>12, <2>13
<1> QED BY <1>7, <1>8
-----------------------------------------------------------------------------
(* Joining *)

LEMMA AbsorbKeeps ==
  ASSUME NEW m, MemOK(m), NEW h, h \in FreeOf(m.blk), NEW k, k \in FreeOf(m.blk), NextOf(m.blk, h) = k,
         NEW t, t = Absorb(m, h, k)
  PROVE  /\ MemOK(t) /\ Kept(m.blk, t.blk, {}) /\ DOMAIN t.blk = DOMAIN m.blk \ {k} /\ h \in FreeOf(t.blk)
         /\ t.end = m.end /\ NextOf(t.blk, h) = NextOf(m.blk, k)
<1>1. PICK b, f, l, e : b = m.blk /\ f = m.foot /\ l = m.fl /\ e = m.end
  OBVIOUS
<1>2. m = [blk |-> b, foot |-> f, fl |-> l, end |-> e] /\ Heap(b, e, f) /\ ListOf(l, FreeOf(b))
  BY <1>1 DEF MemOK
<1>3. h \in DOMAIN b /\ b[h].free /\ k \in DOMAIN b /\ b[k].free /\ NextOf(b, h) = k /\ k \in FreeOf(b)
  BY <1>1 DEF FreeOf
<1>4. PICK s : s = b[h].size + Ovh + b[k].size
  OBVIOUS
<1>5. PICK y : y = h + Ovh + s
  OBVIOUS
<1>6. PICK v : v = Block(s, TRUE)
  OBVIOUS
<1>7. v.size = s /\ v.free = TRUE
  BY <1>6, BlockIs
<1>8. PICK p : p = Put(b, h, v)
  OBVIOUS
<1>9. PICK c : c = Drop(p, {k})
  OBVIOUS
<1>10. PICK q : q = Drop(f, {k})
  OBVIOUS
<1>11. PICK g : g = Put(q, y, s)
  OBVIOUS
<1>12. IsPut(p, b, h, v) /\ IsDrop(c, p, k) /\ IsDrop(q, f, k) /\ IsPut(g, q, y, s)
  BY <1>8, <1>9, <1>10, <1>11, PutIs, DropIs
<1>13. IsMerged(b, e, f, h, k, s, v, p, c, y, q, g)
  BY <1>2, <1>3, <1>4, <1>5, <1>7, <1>12 DEF IsMerged
<1>14. /\ Heap(c, e, g) /\ DOMAIN c = DOMAIN b \ {k} /\ h \in FreeOf(c)
       /\ FreeOf(c) = FreeOf(b) \ {k} /\ Kept(b, c, {}) /\ NextOf(c, h) = NextOf(b, k)
  <2>1. MergedTo(b, e, h, k, c, g)
    BY ONLY <1>13, MergeBlocks
  <2> QED BY ONLY <2>1 DEF MergedTo
<1>15. PICK z : z = RemoveFirst(l, k)
  OBVIOUS
<1>16. ListOf(z, FreeOf(c))
  BY <1>2, <1>3, <1>14, <1>15, UnlinkList
<1>17. t = [blk |-> c, foot |-> g, fl |-> z, end |-> e]
  <2>1. t = [m EXCEPT !.blk = Drop(Put(@, h, Block(s, TRUE)), {k}),
                      !.foot = Put(Drop(@, {k}), h + Ovh + s, s), !.fl = RemoveFirst(@, k)]
    BY <1>1, <1>4 DEF Absorb
  <2>2. t = [m EXCEPT !.blk = c, !.foot = g, !.fl = z]
    BY <1>1, <1>5, <1>6, <1>8, <1>9, <1>10, <1>11, <1>15, <2>1
  <2> QED BY <1>2, <2>2
<1>18. /\ t.blk = c /\ t.foot = g /\ t.fl = z /\ t.end = e
       /\ t = [blk |-> t.blk, foot |-> t.foot, fl |-> t.fl, end |-> t.end]
  BY <1>17
<1>19. MemOK(t)
  BY <1>14, <1>16, <1>18 DEF MemOK
<1> QED BY <1>1, <1>14, <1>18, <1>19

\* What the loops of spud_coalesce work on, and when each has nothing more to join
Joining(c) == c = [h |-> c.h, mem |-> c.mem] /\ MemOK(c.mem) /\ c.h \in FreeOf(c.mem.blk)
NextStuck(c) == NextOf(c.mem.blk, c.h) = c.mem.end \/ NextOf(c.mem.blk, c.h) \in Used(c.mem.blk)
PrevStuck(c) == c.h = 0 \/ \E g \in Used(c.mem.blk) : NextOf(c.mem.blk, g) = c.h
Count(c) == Cardinality(DOMAIN c.mem.blk)

LEMMA NextIs ==
  ASSUME NEW m, MemOK(m), NEW h, h \in DOMAIN m.blk
  PROVE  /\ h \in Nat /\ m.end \in Nat /\ h < m.end /\ NextOf(m.blk, h) \in Nat /\ h < NextOf(m.blk, h)
         /\ NextOf(m.blk, h) <= m.end /\ NextOf(m.blk, h) \in DOMAIN m.blk \cup {m.end}
         /\ NextOf(m.blk, h) = m.end <=> NextOf(m.blk, h) \notin DOMAIN m.blk
<1>1. PICK D, N, e : D = DOMAIN m.blk /\ N = Nexts(m.blk) /\ e = m.end
  OBVIOUS
<1>2. Chain(D, N, e)
  BY <1>1 DEF MemOK, Heap
<1>3. h \in D /\ N[h] = NextOf(m.blk, h)
  <2>1. Nexts(m.blk)[h] = NextOf(m.blk, h)
    BY DEF Nexts
  <2> QED BY <1>1, <2>1
<1>4. h \in Nat /\ e \in Nat /\ h < e /\ N[h] \in Nat /\ h < N[h] /\ N[h] \in D \cup {e} /\ e \notin D
  <2>1. h \in D
    BY <1>3
  <2> QED BY ONLY <1>2, <2>1 DEF Chain
<1>5. N[h] <= e
  <2>1. \A x \in D : x \in Nat /\ x < e
    BY ONLY <1>2 DEF Chain
  <2> QED BY ONLY <1>4, <2>1
<1> QED BY <1>1, <1>3, <1>4, <1>5

LEMMA FreeOrUsed ==
  ASSUME NEW b, NEW h \in DOMAIN b
  PROVE  /\ h \in FreeOf(b) <=> b[h].free
         /\ h \in Used(b) <=> ~b[h].free
BY DEF FreeOf, Used

LEMMA CountIs ==
  ASSUME NEW c, Joining(c)
  PROVE  Count(c) \in Nat /\ Count(c) >= 1
<1>1. IsFiniteSet(DOMAIN c.mem.blk) /\ DOMAIN c.mem.blk # {}
  BY DEF Joining, MemOK, Heap, Blocks, FreeOf
<1>2. Count(c) \in Nat /\ Count(c) # 0
  BY <1>1, FS_CardinalityType, FS_EmptySet DEF Count
<1> QED BY <1>2

LEMMA CountFalls ==
  ASSUME NEW c, Joining(c), NEW d, NEW k \in DOMAIN c.mem.blk, DOMAIN d.mem.blk = DOMAIN c.mem.blk \ {k}
  PROVE  Count(d) = Count(c) - 1
<1>1. IsFiniteSet(DOMAIN c.mem.blk)
  BY DEF Joining, MemOK, Heap, Blocks
<1> QED BY <1>1, FS_RemoveElement DEF Count

LEMMA JoinNextKeeps ==
  ASSUME NEW c, Joining(c), NEW d, d = JoinNext(c)
  PROVE  /\ Joining(d) /\ Kept(c.mem.blk, d.mem.blk, {})
         /\ (NextStuck(c) /\ d = c) \/ (~NextStuck(c) /\ Count(d) = Count(c) - 1)
<1>1. PICK m, h : m = c.mem /\ h = c.h
  OBVIOUS
<1>2. c = [h |-> h, mem |-> m] /\ MemOK(m) /\ h \in FreeOf(m.blk) /\ h \in DOMAIN m.blk
  BY <1>1 DEF Joining, FreeOf
<1>3. PICK k : k = NextOf(m.blk, h)
  OBVIOUS
<1>4. /\ h \in Nat /\ m.end \in Nat /\ k \in Nat /\ k <= m.end /\ k \in DOMAIN m.blk \cup {m.end}
      /\ k = m.end <=> k \notin DOMAIN m.blk
  BY <1>2, <1>3, NextIs
<1>5. d = IF k >= m.end \/ ~m.blk[k].free THEN c ELSE [h |-> h, mem |-> Absorb(m, h, k)]
  BY <1>1, <1>3 DEF JoinNext
<1>6. CASE k = m.end \/ ~m.blk[k].free
  <2>1. d = c
    BY <1>4, <1>5, <1>6
  <2>2. k = m.end \/ k \in Used(m.blk)
    BY <1>4, <1>6 DEF Used
  <2>3. NextStuck(c)
    BY <1>1, <1>3, <2>2 DEF NextStuck
  <2>4. Kept(c.mem.blk, c.mem.blk, {})
    BY DEF Kept
  <2> QED BY <2>1, <2>3, <2>4
<1>7. CASE ~(k = m.end \/ ~m.blk[k].free)
  <2>1. PICK t : t = Absorb(m, h, k)
    OBVIOUS
  <2>2. d = [h |-> h, mem |-> t]
    BY <1>4, <1>5, <1>7, <2>1
  <2>3. k \in DOMAIN m.blk /\ k \in FreeOf(m.blk)
    BY <1>4, <1>7 DEF FreeOf
  <2>4. MemOK(t) /\ Kept(m.blk, t.blk, {}) /\ DOMAIN t.blk = DOMAIN m.blk \ {k} /\ h \in FreeOf(t.blk)
    BY <1>2, <1>3, <2>1, <2>3, AbsorbKeeps
  <2>5. d.h = h /\ d.mem = t /\ d = [h |-> d.h, mem |-> d.mem]
    BY <2>2
  <2>6. Joining(d)
    BY <2>4, <2>5 DEF Joining
  <2>7. Count(d) = Count(c) - 1
    BY <1>1, <2>3, <2>4, <2>5, CountFalls
  <2>8. ~NextStuck(c)
    <3>1. k # m.end /\ k \notin Used(m.blk)
      BY <1>7 DEF Used
    <3> QED BY <1>1, <1>3, <3>1 DEF NextStuck
  <2> QED BY <1>1, <2>4, <2>5, <2>6, <2>7, <2>8
<1> QED BY <1>6, <1>7

\* The footers lead to the block before h
LEMMA PrevIs ==
  ASSUME NEW m, MemOK(m), NEW h, h \in DOMAIN m.blk, h # 0, ~NoPrev(m, h)
  PROVE  PrevOf(m, h) \in FreeOf(m.blk) /\ NextOf(m.blk, PrevOf(m, h)) = h
<1>1. PICK b, f, e : b = m.blk /\ f = m.foot /\ e = m.end
  OBVIOUS
<1>2. Heap(b, e, f) /\ h \in DOMAIN b
  BY <1>1 DEF MemOK
<1>3. PICK g \in DOMAIN b : NextOf(b, g) = h
  <2>1. PICK g \in DOMAIN b : Nexts(b)[g] = h
    BY <1>2 DEF Heap, Chain
  <2> QED BY <2>1 DEF Nexts
<1>4. g \in Nat /\ b[g].size \in Nat /\ h \in Nat /\ Ovh \in Nat
  BY <1>2, <1>3, USizesAre DEF Heap, Chain, Blocks
<1>5. f[h] = b[g].size /\ h = g + Ovh + b[g].size
  BY <1>2, <1>3 DEF Heap, Feet, NextOf
<1>6. PrevOf(m, h) = g
  <2>1. PrevOf(m, h) = h - Ovh - f[h]
    BY <1>1 DEF PrevOf
  <2> QED BY <1>4, <1>5, <2>1
<1>7. b[g].free
  BY <1>1, <1>6 DEF NoPrev
<1> QED BY <1>1, <1>3, <1>6, <1>7 DEF FreeOf

\* If spud_coalesce stops at h, the block before h is in use, or there is none
LEMMA NoPrevIs ==
  ASSUME NEW m, MemOK(m), NEW h, h \in DOMAIN m.blk, NoPrev(m, h)
  PROVE  h = 0 \/ \E g \in Used(m.blk) : NextOf(m.blk, g) = h
<1> SUFFICES ASSUME h # 0 PROVE \E g \in Used(m.blk) : NextOf(m.blk, g) = h
  OBVIOUS
<1>1. PICK b, f, e : b = m.blk /\ f = m.foot /\ e = m.end
  OBVIOUS
<1>2. Heap(b, e, f) /\ h \in DOMAIN b
  BY <1>1 DEF MemOK
<1>3. PICK g \in DOMAIN b : NextOf(b, g) = h
  <2>1. PICK g \in DOMAIN b : Nexts(b)[g] = h
    BY <1>2 DEF Heap, Chain
  <2> QED BY <2>1 DEF Nexts
<1>4. g \in Nat /\ b[g].size \in Nat /\ b[g].size >= 1 /\ h \in Nat /\ Ovh \in Nat
  BY <1>2, <1>3, USizesAre DEF Heap, Chain, Blocks
<1>5. f[h] = b[g].size /\ h = g + Ovh + b[g].size
  BY <1>2, <1>3 DEF Heap, Feet, NextOf
<1>6. PrevOf(m, h) = g
  <2>1. PrevOf(m, h) = h - Ovh - f[h]
    BY <1>1 DEF PrevOf
  <2> QED BY <1>4, <1>5, <2>1
<1>7. \/ h <= 0 \/ f[h] = 0 \/ f[h] > h
      \/ g < 0 \/ ~b[g].free \/ b[g].size # f[h]
  BY <1>1, <1>6 DEF NoPrev
<1>8. ~(h <= 0 \/ f[h] = 0 \/ f[h] > h \/ g < 0 \/ b[g].size # f[h])
  BY <1>4, <1>5
<1>9. g \in Used(b)
  BY <1>7, <1>8 DEF Used
<1> QED BY <1>1, <1>3, <1>9

LEMMA JoinPrevKeeps ==
  ASSUME NEW c, Joining(c), NEW d, d = JoinPrev(c)
  PROVE  /\ Joining(d) /\ Kept(c.mem.blk, d.mem.blk, {}) /\ (NextStuck(c) => NextStuck(d))
         /\ (PrevStuck(c) /\ d = c) \/ (~PrevStuck(c) /\ Count(d) = Count(c) - 1)
<1>1. PICK m, h : m = c.mem /\ h = c.h
  OBVIOUS
<1>2. c = [h |-> h, mem |-> m] /\ MemOK(m) /\ h \in FreeOf(m.blk) /\ h \in DOMAIN m.blk
  BY <1>1 DEF Joining, FreeOf
<1>3. d = IF NoPrev(m, h) THEN c ELSE [h |-> PrevOf(m, h), mem |-> Absorb(m, PrevOf(m, h), h)]
  BY <1>1 DEF JoinPrev
<1>4. CASE NoPrev(m, h)
  <2>1. d = c
    BY <1>3, <1>4
  <2>2. h = 0 \/ \E g \in Used(m.blk) : NextOf(m.blk, g) = h
    BY <1>2, <1>4, NoPrevIs
  <2>3. PrevStuck(c)
    BY <1>1, <2>2 DEF PrevStuck
  <2>4. Kept(c.mem.blk, c.mem.blk, {})
    BY DEF Kept
  <2> QED BY <2>1, <2>3, <2>4
<1>5. CASE ~NoPrev(m, h)
  <2>1. PICK g : g = PrevOf(m, h)
    OBVIOUS
  <2>2. h # 0
    BY <1>2, <1>5 DEF NoPrev
  <2>3. g \in FreeOf(m.blk) /\ NextOf(m.blk, g) = h
    BY <1>2, <1>5, <2>1, <2>2, PrevIs
  <2>4. PICK t : t = Absorb(m, g, h)
    OBVIOUS
  <2>5. d = [h |-> g, mem |-> t]
    BY <1>3, <1>5, <2>1, <2>4
  <2>6. /\ MemOK(t) /\ Kept(m.blk, t.blk, {}) /\ DOMAIN t.blk = DOMAIN m.blk \ {h} /\ g \in FreeOf(t.blk)
        /\ t.end = m.end /\ NextOf(t.blk, g) = NextOf(m.blk, h)
    BY <1>2, <2>3, <2>4, AbsorbKeeps
  <2>7. d.h = g /\ d.mem = t /\ d = [h |-> d.h, mem |-> d.mem]
    BY <2>5
  <2>8. Joining(d)
    BY <2>6, <2>7 DEF Joining
  <2>9. Count(d) = Count(c) - 1
    BY <1>1, <1>2, <2>6, <2>7, CountFalls
  <2>10. Used(t.blk) = Used(m.blk)
    BY <2>6 DEF Kept
  <2>11. NextStuck(c) => NextStuck(d)
    BY <1>1, <2>6, <2>7, <2>10 DEF NextStuck
  <2>12. ~PrevStuck(c)
    <3>1. ASSUME NEW x \in Used(m.blk), NextOf(m.blk, x) = h PROVE FALSE
      <4>1. PICK b, e : b = m.blk /\ e = m.end
        OBVIOUS
      <4>2. Chain(DOMAIN b, Nexts(b), e)
        BY <1>2, <4>1 DEF MemOK, Heap
      <4>3. x \in DOMAIN b /\ ~b[x].free /\ g \in DOMAIN b /\ b[g].free
        BY <2>3, <4>1 DEF Used, FreeOf
      <4>4. Nexts(b)[x] = Nexts(b)[g]
        BY <2>3, <3>1, <4>1, <4>3 DEF Nexts
      <4>5. x = g
        BY ONLY <4>2, <4>3, <4>4, ChainInj
      <4> QED BY <4>3, <4>5
    <3> QED BY <1>1, <2>2, <3>1 DEF PrevStuck
  <2> QED BY <1>1, <2>6, <2>7, <2>8, <2>9, <2>11, <2>12
<1> QED BY <1>4, <1>5
-----------------------------------------------------------------------------
(* The loops of spud_coalesce *)

\* g holds what the first N rounds make of c, if the second loop starts after n rounds
RunOf(c, n, N, g) ==
  g = [k \in 0 .. N |-> IF k = 0 THEN c ELSE IF k <= n THEN JoinNext(g[k - 1]) ELSE JoinPrev(g[k - 1])]

LEMMA RunGrows ==
  ASSUME NEW c, NEW n \in Nat, NEW N \in Nat, NEW g, RunOf(c, n, N, g)
  PROVE  \E f : RunOf(c, n, N + 1, f)
<1>1. PICK M \in Nat : M = N + 1 /\ M # 0 /\ M - 1 = N
  OBVIOUS
<1>2. PICK last : last = IF M <= n THEN JoinNext(g[N]) ELSE JoinPrev(g[N])
  OBVIOUS
<1>3. PICK f : f = [k \in 0 .. M |-> IF k = M THEN last ELSE g[k]]
  OBVIOUS
<1>4. \A k \in 0 .. N : g[k] = IF k = 0 THEN c ELSE IF k <= n THEN JoinNext(g[k - 1]) ELSE JoinPrev(g[k - 1])
  BY DEF RunOf
<1>5. ASSUME NEW k \in 0 .. M
      PROVE  f[k] = IF k = 0 THEN c ELSE IF k <= n THEN JoinNext(f[k - 1]) ELSE JoinPrev(f[k - 1])
  <2>1. CASE k = M
    <3>1. f[k] = last /\ N \in 0 .. M /\ N # M
      BY <1>1, <1>3, <2>1
    <3>2. f[N] = g[N]
      BY <1>3, <3>1
    <3> QED BY <1>1, <1>2, <2>1, <3>1, <3>2
  <2>2. CASE k # M /\ k # 0
    <3>1. k \in 0 .. N /\ k - 1 \in 0 .. M /\ k - 1 # M
      BY <1>1, <2>2
    <3>2. f[k] = g[k] /\ f[k - 1] = g[k - 1]
      BY <1>3, <2>2, <3>1
    <3> QED BY <1>4, <2>2, <3>1, <3>2
  <2>3. CASE k # M /\ k = 0
    <3>1. 0 \in 0 .. N
      OBVIOUS
    <3> QED BY <1>3, <1>4, <2>3, <3>1
  <2> QED BY <2>1, <2>2, <2>3
<1>6. f = [k \in 0 .. M |-> IF k = 0 THEN c ELSE IF k <= n THEN JoinNext(f[k - 1]) ELSE JoinPrev(f[k - 1])]
  BY <1>3, <1>5
<1>7. RunOf(c, n, M, f)
  BY <1>6 DEF RunOf
<1> QED BY <1>1, <1>7

LEMMA RunExists ==
  ASSUME NEW c, NEW n \in Nat
  PROVE  \A N \in Nat : \E g : RunOf(c, n, N, g)
<1> DEFINE Bad == {N \in Nat : ~\E g : RunOf(c, n, N, g)}
<1>1. SUFFICES ASSUME Bad # {} PROVE FALSE
  OBVIOUS
<1>2. PICK N \in Nat : N \in Bad /\ \A y \in Bad : N <= y
  <2>1. Bad \in SUBSET Nat
    OBVIOUS
  <2> HIDE DEF Bad
  <2> QED BY <1>1, <2>1, Least
<1>3. CASE N = 0
  <2>1. PICK g : g = [k \in 0 .. 0 |-> c]
    OBVIOUS
  <2>2. \A k \in 0 .. 0 : k = 0
    OBVIOUS
  <2>3. RunOf(c, n, 0, g)
    BY <2>1, <2>2 DEF RunOf
  <2> QED BY <1>2, <1>3, <2>3
<1>4. CASE N # 0
  <2>1. PICK L \in Nat : N = L + 1
    <3>1. N - 1 \in Nat /\ N = (N - 1) + 1
      BY <1>4
    <3> QED BY <3>1
  <2>2. L \notin Bad
    BY <1>2, <2>1
  <2>3. PICK g : RunOf(c, n, L, g)
    BY <2>2
  <2> QED BY <1>2, <2>1, <2>3, RunGrows
<1> QED BY <1>3, <1>4

\* After k rounds, of n that each loop may take
Round(c, n, k, d) ==
  /\ Joining(d) /\ Kept(c.mem.blk, d.mem.blk, {}) /\ Count(d) <= n
  /\ k <= n => NextStuck(d) \/ Count(d) + k <= n
  /\ n <= k => NextStuck(d) /\ (PrevStuck(d) \/ (Count(d) + k) - n <= n)

LEMMA KeptTwice ==
  ASSUME NEW a, NEW b, NEW c, Kept(a, b, {}), Kept(b, c, {})
  PROVE  Kept(a, c, {})
BY DEF Kept

LEMMA RoundStarts ==
  ASSUME NEW c, Joining(c)
  PROVE  Round(c, Count(c), 0, c)
<1>1. Count(c) \in Nat /\ Count(c) >= 1
  BY CountIs
<1>2. Kept(c.mem.blk, c.mem.blk, {})
  BY DEF Kept
<1> QED BY <1>1, <1>2 DEF Round

LEMMA RoundNext ==
  ASSUME NEW c, NEW n \in Nat, NEW k \in Nat, NEW x, Round(c, n, k, x), k + 1 <= n, NEW d, d = JoinNext(x)
  PROVE  Round(c, n, k + 1, d)
<1>1. Joining(x) /\ Kept(c.mem.blk, x.mem.blk, {}) /\ Count(x) <= n /\ (NextStuck(x) \/ Count(x) + k <= n)
  BY DEF Round
<1>2. /\ Joining(d) /\ Kept(x.mem.blk, d.mem.blk, {})
      /\ (NextStuck(x) /\ d = x) \/ (~NextStuck(x) /\ Count(d) = Count(x) - 1)
  BY <1>1, JoinNextKeeps
<1>3. Kept(c.mem.blk, d.mem.blk, {})
  BY <1>1, <1>2, KeptTwice
<1>4. Count(x) \in Nat /\ Count(d) \in Nat /\ Count(d) >= 1
  BY <1>1, <1>2, CountIs
<1>5. Count(d) <= n /\ (NextStuck(d) \/ Count(d) + (k + 1) <= n)
  <2>1. CASE NextStuck(x) /\ d = x
    BY <1>1, <2>1
  <2>2. CASE Count(d) = Count(x) - 1 /\ Count(x) + k <= n
    BY <1>1, <1>4, <2>2
  <2> QED BY <1>1, <1>2, <2>1, <2>2
<1>6. n <= k + 1 => NextStuck(d) /\ (PrevStuck(d) \/ (Count(d) + (k + 1)) - n <= n)
  BY <1>4, <1>5
<1> QED BY <1>2, <1>3, <1>5, <1>6 DEF Round

LEMMA RoundPrev ==
  ASSUME NEW c, NEW n \in Nat, NEW k \in Nat, NEW x, Round(c, n, k, x), n <= k, NEW d, d = JoinPrev(x)
  PROVE  Round(c, n, k + 1, d)
<1>1. /\ Joining(x) /\ Kept(c.mem.blk, x.mem.blk, {}) /\ Count(x) <= n
      /\ NextStuck(x) /\ (PrevStuck(x) \/ (Count(x) + k) - n <= n)
  BY DEF Round
<1>2. /\ Joining(d) /\ Kept(x.mem.blk, d.mem.blk, {}) /\ NextStuck(d)
      /\ (PrevStuck(x) /\ d = x) \/ (~PrevStuck(x) /\ Count(d) = Count(x) - 1)
  BY <1>1, JoinPrevKeeps
<1>3. Kept(c.mem.blk, d.mem.blk, {})
  BY <1>1, <1>2, KeptTwice
<1>4. Count(x) \in Nat /\ Count(d) \in Nat
  BY <1>1, <1>2, CountIs
<1>5. Count(d) <= n /\ (PrevStuck(d) \/ (Count(d) + (k + 1)) - n <= n)
  <2>1. CASE PrevStuck(x) /\ d = x
    BY <1>1, <2>1
  <2>2. CASE Count(d) = Count(x) - 1 /\ (Count(x) + k) - n <= n
    BY <1>1, <1>4, <2>2
  <2> QED BY <1>1, <1>2, <2>1, <2>2
<1> QED BY <1>2, <1>3, <1>5 DEF Round

LEMMA RunKeeps ==
  ASSUME NEW c, Joining(c), NEW n, n = Count(c), NEW g, RunOf(c, n, 2 * n, g)
  PROVE  Round(c, n, 2 * n, g[2 * n])
<1>1. n \in Nat /\ n >= 1 /\ 2 * n \in Nat
  BY CountIs
<1>2. \A k \in 0 .. 2 * n : g[k] = IF k = 0 THEN c ELSE IF k <= n THEN JoinNext(g[k - 1]) ELSE JoinPrev(g[k - 1])
  BY DEF RunOf
<1> DEFINE Bad == {k \in 0 .. 2 * n : ~Round(c, n, k, g[k])}
<1>3. SUFFICES ASSUME Bad # {} PROVE FALSE
  BY <1>1
<1>4. PICK k \in 0 .. 2 * n : k \in Bad /\ \A y \in Bad : k <= y
  <2>1. Bad \in SUBSET Nat /\ Bad \subseteq 0 .. 2 * n
    BY <1>1
  <2> HIDE DEF Bad
  <2> QED BY <1>3, <2>1, Least
<1>5. k # 0
  <2>1. g[0] = c
    BY <1>1, <1>2
  <2>2. Round(c, n, 0, c)
    BY RoundStarts
  <2> QED BY <1>4, <2>1, <2>2
<1>6. PICK j \in Nat : k = j + 1 /\ k - 1 = j /\ j \in 0 .. 2 * n
  <2>1. k - 1 \in Nat /\ k = (k - 1) + 1 /\ k - 1 \in 0 .. 2 * n
    BY <1>1, <1>5
  <2> QED BY <2>1
<1>7. Round(c, n, j, g[j])
  BY <1>1, <1>4, <1>6
<1>8. CASE k <= n
  <2>1. g[k] = JoinNext(g[j]) /\ j + 1 <= n
    BY <1>2, <1>5, <1>6, <1>8
  <2>2. Round(c, n, j + 1, g[k])
    BY <1>1, <1>7, <2>1, RoundNext
  <2> QED BY <1>4, <1>6, <2>2
<1>9. CASE ~(k <= n)
  <2>1. g[k] = JoinPrev(g[j]) /\ n <= j
    BY <1>1, <1>2, <1>5, <1>6, <1>9
  <2>2. Round(c, n, j + 1, g[k])
    BY <1>1, <1>7, <2>1, RoundPrev
  <2> QED BY <1>4, <1>6, <2>2
<1> QED BY <1>8, <1>9

\* Where neither loop has more to join and no block is in use, one block is left
LEMMA StuckAlone ==
  ASSUME NEW d, Joining(d), NextStuck(d), PrevStuck(d), Used(d.mem.blk) = {}
  PROVE  DOMAIN d.mem.blk = {d.h}
<1>1. PICK b, e, h : b = d.mem.blk /\ e = d.mem.end /\ h = d.h
  OBVIOUS
<1>2. Chain(DOMAIN b, Nexts(b), e) /\ h \in DOMAIN b
  BY <1>1 DEF Joining, MemOK, Heap, FreeOf
<1>3. NextOf(b, h) = e /\ h = 0
  BY <1>1 DEF NextStuck, PrevStuck
<1>4. Nexts(b)[h] = e
  BY <1>2, <1>3 DEF Nexts
<1>5. ASSUME NEW x \in DOMAIN b, x # h PROVE FALSE
  <2>1. x \in Nat /\ e \in Nat /\ x < e /\ h < x
    BY <1>2, <1>3, <1>5 DEF Chain
  <2>2. Nexts(b)[h] <= x
    BY <1>2, <2>1 DEF Chain
  <2> QED BY <1>4, <2>1, <2>2
<1> QED BY <1>1, <1>2, <1>5

LEMMA CoalesceKeeps ==
  ASSUME NEW c, Joining(c), NEW d, d = Coalesce(c)
  PROVE  /\ Joining(d) /\ Kept(c.mem.blk, d.mem.blk, {})
         /\ Used(d.mem.blk) = {} => Cardinality(DOMAIN d.mem.blk) = 1
<1>1. PICK n : n = Count(c)
  OBVIOUS
<1>2. n \in Nat /\ n >= 1 /\ 2 * n \in Nat
  BY <1>1, CountIs
<1>3. \E g : RunOf(c, n, 2 * n, g)
  BY <1>2, RunExists
<1>4. PICK g : g = CHOOSE f : RunOf(c, n, 2 * n, f)
  OBVIOUS
<1>5. RunOf(c, n, 2 * n, g)
  BY <1>3, <1>4, Zenon
<1>6. d = g[2 * n]
  BY <1>1, <1>4 DEF Coalesce, Count, RunOf
<1>7. Round(c, n, 2 * n, d)
  BY <1>1, <1>5, <1>6, RunKeeps
<1>8. Joining(d) /\ Kept(c.mem.blk, d.mem.blk, {}) /\ NextStuck(d) /\ (PrevStuck(d) \/ (Count(d) + (2 * n)) - n <= n)
  BY <1>2, <1>7 DEF Round
<1>9. Count(d) \in Nat /\ Count(d) >= 1
  BY <1>8, CountIs
<1>10. PrevStuck(d)
  BY <1>2, <1>8, <1>9
<1>11. ASSUME Used(d.mem.blk) = {} PROVE Cardinality(DOMAIN d.mem.blk) = 1
  BY <1>8, <1>10, <1>11, StuckAlone, FS_Singleton
<1> QED BY <1>8, <1>11
-----------------------------------------------------------------------------
(* The invariant: what the program holds are the blocks in use, and each is as large as was asked *)

HeldOK(held, b) ==
  /\ DOMAIN held = Used(b) /\ \A h \in DOMAIN held : held[h] \in Nat /\ b[h].size >= held[h]
UInv == MemOK(Memory) /\ HeldOK(uLive, blk)

LEMMA HeldKept ==
  ASSUME NEW held, NEW b, NEW c, HeldOK(held, b), Kept(b, c, {})
  PROVE  HeldOK(held, c)
BY DEF HeldOK, Kept

LEMMA HeldMore ==
  ASSUME NEW held, NEW b, NEW c, NEW h, HeldOK(held, b), Kept(b, c, {h}), h \in FreeOf(b),
         NEW n \in Nat, c[h].size >= n
  PROVE  HeldOK(Put(held, h, n), c)
<1>1. PICK p : p = Put(held, h, n)
  OBVIOUS
<1>2. DOMAIN p = DOMAIN held \cup {h} /\ p[h] = n /\ \A y \in DOMAIN held : y # h => p[y] = held[y]
  <2>1. IsPut(p, held, h, n)
    BY <1>1, PutIs
  <2> QED BY <2>1 DEF IsPut
<1>3. h \notin DOMAIN held
  BY DEF HeldOK, Used, FreeOf
<1>4. HeldOK(p, c)
  BY <1>2, <1>3 DEF HeldOK, Kept
<1> QED BY <1>1, <1>4

LEMMA UInitInv ==
  ASSUME UInit
  PROVE  UInv /\ URejoined /\ FailsOnlyAtEdge
<1>1. DOMAIN blk = {} /\ DOMAIN foot = {} /\ DOMAIN uLive = {} /\ heapEnd = 0
  BY DEF UInit
<1>2. Heap(blk, heapEnd, foot)
  <2>1. IsFiniteSet(DOMAIN blk)
    BY <1>1, FS_EmptySet
  <2>2. Blocks(blk)
    BY <1>1, <2>1 DEF Blocks
  <2>3. Chain(DOMAIN blk, Nexts(blk), heapEnd)
    BY <1>1 DEF Chain, Nexts
  <2> QED BY <1>1, <2>2, <2>3 DEF Heap, Feet
<1>3. ListOf(fl, FreeOf(blk))
  <2>1. fl \in Seq(Nat) /\ Len(fl) = 0
    BY DEF UInit
  <2>2. FreeOf(blk) = {}
    BY <1>1 DEF FreeOf
  <2> QED BY <2>1, <2>2 DEF ListOf
<1>4. MemOK(Memory)
  <2>1. /\ Memory.blk = blk /\ Memory.foot = foot /\ Memory.fl = fl /\ Memory.end = heapEnd
        /\ Memory = [blk |-> Memory.blk, foot |-> Memory.foot, fl |-> Memory.fl, end |-> Memory.end]
    BY DEF Memory
  <2> QED BY <1>2, <1>3, <2>1 DEF MemOK
<1>5. HeldOK(uLive, blk)
  BY <1>1 DEF HeldOK, Used
<1>6. uLast.call = "init"
  BY DEF UInit
<1> QED BY <1>4, <1>5, <1>6 DEF UInv, URejoined, FailsOnlyAtEdge

\* After the heap has grown, a size that still does not fit is at the edge
LEMMA GrowEdge ==
  ASSUME NEW m, MemOK(m), NEW n \in Nat, NEW t, t = Grow(m, n), Found(t, n) = {}
  PROVE  n > Chunk - Ovh /\ (0 - n) % PageUnits < Ovh
<1>1. t.fl[1] = m.end /\ Len(t.fl) >= 1 /\ t.blk[m.end].size = GrowUnits(n) - Ovh
  BY GrowKeeps
<1>2. MemOK(t)
  BY GrowKeeps
<1>3. Len(t.fl) \in Nat
  BY <1>2 DEF MemOK, ListOf
<1>4. 1 \in 1 .. Len(t.fl)
  BY <1>1, <1>3
<1>5. ~(t.blk[t.fl[1]].size >= n)
  BY <1>4, Zenon DEF Found
<1>6. ~(GrowUnits(n) - Ovh >= n)
  BY <1>1, <1>5
<1>7. GrowUnits(n) - Ovh < n
  BY <1>6, GrowUnitsIs, USizesAre
<1> QED BY <1>7, GrowUnitsIs

LEMMA MemorySet ==
  ASSUME NEW m, MemOK(m), SetMemory(m)
  PROVE  MemOK(Memory') /\ blk' = m.blk
<1>1. Memory' = m
  BY DEF SetMemory, Memory, MemOK
<1> QED BY <1>1 DEF SetMemory

LEMMA MallocInv ==
  ASSUME UInv, NEW n \in Nat, n >= 1, NEW ok \in BOOLEAN, Malloc(n, ok)
  PROVE  UInv' /\ URejoined' /\ FailsOnlyAtEdge'
<1>1. PICK old : old = Memory
  OBVIOUS
<1>2. MemOK(old) /\ old.blk = blk
  BY <1>1 DEF UInv, Memory
<1>3. PICK m : m = IF Found(old, n) = {} /\ ok THEN Grow(old, n) ELSE old
  OBVIOUS
<1>4. PICK t : t = IF Found(m, n) # {} THEN Take(m, n) ELSE m
  OBVIOUS
<1>5. PICK h : h = m.fl[Min(Found(m, n))]
  OBVIOUS
<1>6. /\ Found(old, n) = {} \/ ok
      /\ SetMemory(t)
      /\ uLive' = IF Found(m, n) # {} THEN Put(uLive, h, n) ELSE uLive
      /\ uLast' = [call |-> IF Found(m, n) # {} THEN "malloc" ELSE "none",
                   n |-> IF Found(m, n) # {} THEN 0 ELSE n, grown |-> ok]
  BY <1>1, <1>3, <1>4, <1>5 DEF Malloc
<1>7. /\ MemOK(m) /\ Kept(blk, m.blk, {})
      /\ Found(m, n) = {} => ~ok \/ (n > Chunk - Ovh /\ (0 - n) % PageUnits < Ovh)
  <2>1. CASE Found(old, n) = {} /\ ok
    <3>1. m = Grow(old, n)
      BY <1>3, <2>1
    <3> QED BY <1>2, <3>1, GrowKeeps, GrowEdge
  <2>2. CASE ~(Found(old, n) = {} /\ ok)
    <3>1. m = old
      BY <1>3, <2>2
    <3>2. Kept(blk, blk, {})
      BY DEF Kept
    <3>3. Found(m, n) = {} => ~ok
      BY <2>2, <3>1
    <3> QED BY <1>2, <3>1, <3>2, <3>3
  <2> QED BY <2>1, <2>2
<1>8. HeldOK(uLive, m.blk)
  BY <1>7, HeldKept DEF UInv
<1>9. CASE Found(m, n) # {}
  <2>1. t = Take(m, n)
    BY <1>4, <1>9
  <2>2. MemOK(t) /\ h \in FreeOf(m.blk) /\ Kept(m.blk, t.blk, {h}) /\ t.blk[h].size >= n
    BY <1>5, <1>7, <1>9, <2>1, TakeKeeps
  <2>3. MemOK(Memory') /\ blk' = t.blk
    BY <1>6, <2>2, MemorySet
  <2>4. HeldOK(Put(uLive, h, n), t.blk)
    BY <1>8, <2>2, HeldMore
  <2>5. UInv'
    BY <1>6, <1>9, <2>3, <2>4 DEF UInv
  <2>6. uLast'.call = "malloc"
    BY <1>6, <1>9
  <2> QED BY <2>5, <2>6 DEF URejoined, FailsOnlyAtEdge
<1>10. CASE Found(m, n) = {}
  <2>1. t = m
    BY <1>4, <1>10
  <2>2. MemOK(Memory') /\ blk' = m.blk
    BY <1>6, <1>7, <2>1, MemorySet
  <2>3. UInv'
    BY <1>6, <1>8, <1>10, <2>2 DEF UInv
  <2>4. uLast'.call = "none" /\ uLast'.n = n /\ uLast'.grown = ok
    BY <1>6, <1>10
  <2> QED BY <1>7, <1>10, <2>3, <2>4 DEF URejoined, FailsOnlyAtEdge
<1> QED BY <1>9, <1>10

LEMMA FreeInv ==
  ASSUME UInv, NEW h \in DOMAIN uLive, Free(h)
  PROVE  UInv' /\ URejoined' /\ FailsOnlyAtEdge'
<1>1. PICK b, f, l, e : b = blk /\ f = foot /\ l = fl /\ e = heapEnd
  OBVIOUS
<1>2. Memory = [blk |-> b, foot |-> f, fl |-> l, end |-> e]
  BY <1>1 DEF Memory
<1>3. Heap(b, e, f) /\ ListOf(l, FreeOf(b)) /\ HeldOK(uLive, b)
  <2>1. MemOK(Memory) /\ HeldOK(uLive, b)
    BY <1>1 DEF UInv
  <2> QED BY <1>2, <2>1 DEF MemOK
<1>4. h \in DOMAIN b /\ ~b[h].free /\ h \in Nat /\ h \notin FreeOf(b)
  BY <1>3 DEF HeldOK, Used, FreeOf, Heap, Chain
<1>5. PICK v : v = Block(b[h].size, TRUE)
  OBVIOUS
<1>6. v.size = b[h].size /\ v.free = TRUE
  BY <1>5, BlockIs
<1>7. PICK p : p = Put(b, h, v)
  OBVIOUS
<1>8. IsFlagged(b, e, f, h, v, p)
  BY <1>3, <1>4, <1>6, <1>7, PutIs DEF IsFlagged
<1>9. Heap(p, e, f) /\ DOMAIN p = DOMAIN b /\ p[h] = v /\ \A x \in DOMAIN b : x # h => p[x] = b[x]
  BY <1>8, FlagBlocks
<1>10. FreeOf(p) = FreeOf(b) \cup {h} /\ Used(p) = Used(b) \ {h}
  BY <1>4, <1>6, <1>9 DEF FreeOf, Used
<1>11. PICK z : z = <<h>> \o l
  OBVIOUS
<1>12. ListOf(z, FreeOf(p))
  BY <1>3, <1>4, <1>10, <1>11, ConsList
<1>13. PICK m : m = [blk |-> p, foot |-> f, fl |-> z, end |-> e]
  OBVIOUS
<1>14. [Memory EXCEPT !.blk = Put(@, h, Block(@[h].size, TRUE)), !.fl = <<h>> \o @] = m
  <2>1. [Memory EXCEPT !.blk = Put(@, h, Block(@[h].size, TRUE)), !.fl = <<h>> \o @] = [Memory EXCEPT !.blk = p, !.fl = z]
    <3>1. Memory.blk = b /\ Memory.fl = l
      BY <1>2
    <3> QED BY <1>5, <1>7, <1>11, <3>1
  <2>2. [Memory EXCEPT !.blk = p, !.fl = z] = [blk |-> p, foot |-> f, fl |-> z, end |-> e]
    <3>1. PICK old : old = Memory
      OBVIOUS
    <3>2. old = [blk |-> b, foot |-> f, fl |-> l, end |-> e]
      BY <1>2, <3>1
    <3>3. PICK new : new = [old EXCEPT !.blk = p, !.fl = z]
      OBVIOUS
    <3>4. new = [blk |-> p, foot |-> f, fl |-> z, end |-> e]
      BY <3>2, <3>3
    <3> QED BY <3>1, <3>3, <3>4
  <2> QED BY <1>13, <2>1, <2>2, Zenon
<1>15. PICK c : c = [h |-> h, mem |-> m]
  OBVIOUS
<1>16. PICK d : d = Coalesce(c)
  OBVIOUS
<1>17. SetMemory(d.mem) /\ uLive' = Drop(uLive, {h}) /\ uLast' = [call |-> "free", n |-> 0, grown |-> TRUE]
  BY <1>14, <1>15, <1>16 DEF Free
<1>18. /\ m.blk = p /\ m.foot = f /\ m.fl = z /\ m.end = e
       /\ m = [blk |-> m.blk, foot |-> m.foot, fl |-> m.fl, end |-> m.end]
  BY <1>13
<1>19. MemOK(m)
  BY <1>9, <1>12, <1>18 DEF MemOK
<1>20. c.h = h /\ c.mem = m /\ c = [h |-> c.h, mem |-> c.mem]
  BY <1>15
<1>21. h \in FreeOf(p)
  BY <1>10
<1>22. Joining(c)
  BY <1>18, <1>19, <1>20, <1>21 DEF Joining
<1>23. /\ Joining(d) /\ Kept(c.mem.blk, d.mem.blk, {})
       /\ Used(d.mem.blk) = {} => Cardinality(DOMAIN d.mem.blk) = 1
  BY <1>16, <1>22, CoalesceKeeps
<1>24. MemOK(Memory') /\ blk' = d.mem.blk
  BY <1>17, <1>23, MemorySet DEF Joining
<1>25. PICK q : q = d.mem.blk
  OBVIOUS
<1>26. Kept(p, q, {})
  BY <1>18, <1>20, <1>23, <1>25
<1>27. DOMAIN uLive' = DOMAIN uLive \ {h} /\ \A x \in DOMAIN uLive \ {h} : uLive'[x] = uLive[x]
  BY <1>17 DEF Drop
<1>28. Used(q) = Used(b) \ {h} /\ \A x \in Used(b) : x # h => q[x] = b[x]
  <2>1. Used(q) = Used(p) /\ \A x \in Used(p) : q[x] = p[x]
    BY <1>26 DEF Kept
  <2>2. \A x \in Used(b) : x \in DOMAIN b
    BY DEF Used
  <2> QED BY <1>9, <1>10, <2>1, <2>2
<1>29. HeldOK(uLive', q)
  BY <1>3, <1>27, <1>28 DEF HeldOK
<1>30. UInv'
  BY <1>24, <1>25, <1>29 DEF UInv
<1>31. URejoined'
  <2>1. DOMAIN uLive' = {} => Used(blk') = {}
    BY <1>24, <1>25, <1>29 DEF HeldOK
  <2> QED BY <1>23, <1>24, <2>1 DEF URejoined
<1>32. uLast'.call = "free"
  BY <1>17
<1> QED BY <1>30, <1>31, <1>32 DEF FailsOnlyAtEdge

LEMMA UNextInv ==
  ASSUME UInv /\ URejoined /\ FailsOnlyAtEdge, [UNext]_UVars
  PROVE  UInv' /\ URejoined' /\ FailsOnlyAtEdge'
<1>1. ASSUME NEW n \in USizes, NEW ok \in BOOLEAN, Malloc(IF n = 0 THEN 1 ELSE n, ok)
      PROVE  UInv' /\ URejoined' /\ FailsOnlyAtEdge'
  <2>1. PICK a \in Nat : a = (IF n = 0 THEN 1 ELSE n) /\ a >= 1
    BY USizesAssumption
  <2>2. Malloc(a, ok)
    BY <1>1, <2>1
  <2> QED BY <2>1, <2>2, MallocInv
<1>2. ASSUME NEW h \in DOMAIN uLive, Free(h)
      PROVE  UInv' /\ URejoined' /\ FailsOnlyAtEdge'
  BY <1>2, FreeInv
<1>3. CASE UNCHANGED UVars
  BY <1>3 DEF UVars, UInv, Memory, URejoined, FailsOnlyAtEdge
<1> QED BY <1>1, <1>2, <1>3 DEF UNext

LEMMA UInvariant == USpec => [](UInv /\ URejoined /\ FailsOnlyAtEdge)
<1>1. UInit => UInv /\ URejoined /\ FailsOnlyAtEdge
  BY UInitInv
<1>2. (UInv /\ URejoined /\ FailsOnlyAtEdge) /\ [UNext]_UVars => (UInv /\ URejoined /\ FailsOnlyAtEdge)'
  BY UNextInv
<1> QED BY <1>1, <1>2, PTL DEF USpec
-----------------------------------------------------------------------------
(* The theorems *)

\* However a program allocates and gives back, the blocks cut up the heap without overlap or gap, every
\* footer repeats its header's size and no block is smaller than what was asked for it: spud_coalesce may
\* rely on what it reads behind and before a block
THEOREM HeapStaysTiled == USpec => []UTiled
<1>1. UInv => UTiled
  <2> SUFFICES ASSUME UInv PROVE UTiled
    OBVIOUS
  <2>1. Heap(blk, heapEnd, foot) /\ HeldOK(uLive, blk)
    BY DEF UInv, MemOK, Memory
  <2>2. Chain(DOMAIN blk, Nexts(blk), heapEnd) /\ \A h \in DOMAIN blk : Nexts(blk)[h] = NextOf(blk, h)
    BY <2>1 DEF Heap, Nexts
  <2>3. (DOMAIN blk \cup {heapEnd}) = {0} \cup {NextOf(blk, h) : h \in DOMAIN blk}
    <3>1. ASSUME NEW x \in DOMAIN blk \cup {heapEnd}, x # 0 PROVE \E h \in DOMAIN blk : x = NextOf(blk, h)
      BY <2>2, <3>1 DEF Chain
    <3>2. 0 \in DOMAIN blk \cup {heapEnd} /\ \A h \in DOMAIN blk : NextOf(blk, h) \in DOMAIN blk \cup {heapEnd}
      BY <2>2 DEF Chain
    <3> QED BY <3>1, <3>2
  <2>4. \A h \in DOMAIN blk : foot[NextOf(blk, h)] = blk[h].size
    BY <2>1 DEF Heap, Feet
  <2>5. \A g, h \in DOMAIN blk : g < h => NextOf(blk, g) <= h
    BY <2>2 DEF Chain
  <2>6. \A h \in DOMAIN uLive : h \in DOMAIN blk /\ ~blk[h].free /\ blk[h].size >= uLive[h]
    BY <2>1 DEF HeldOK, Used
  <2> QED BY <2>3, <2>4, <2>5, <2>6 DEF UTiled
<1> QED BY <1>1, UInvariant, PTL

\* The free list names every block the program does not hold, once, and no other: spud_malloc, spud_free
\* and spud_coalesce lose no block and give none out twice
THEOREM FreeListStaysExact == USpec => []FreeListExact
<1>1. UInv => FreeListExact
  <2> SUFFICES ASSUME UInv PROVE FreeListExact
    OBVIOUS
  <2>1. ListOf(fl, FreeOf(blk)) /\ HeldOK(uLive, blk)
    BY DEF UInv, MemOK, Memory
  <2>2. Len(fl) = Cardinality(FreeOf(blk))
    BY <2>1, ListLength
  <2>3. ToSet(fl) = FreeOf(blk)
    <3>1. DOMAIN fl = 1 .. Len(fl)
      BY <2>1 DEF ListOf
    <3>2. FreeOf(blk) = {fl[i] : i \in 1 .. Len(fl)}
      BY <2>1 DEF ListOf
    <3> QED BY <3>1, <3>2 DEF ToSet
  <2>4. FreeOf(blk) = DOMAIN blk \ DOMAIN uLive
    BY <2>1 DEF FreeOf, HeldOK, Used
  <2>5. FreeOf(blk) = {h \in DOMAIN blk : blk[h].free}
    BY DEF FreeOf
  <2> QED BY <2>2, <2>3, <2>4, <2>5 DEF FreeListExact
<1> QED BY <1>1, UInvariant, PTL

\* When the last block in use is given back, one block is left: the two loops of spud_coalesce join all
\* that can be joined, in whatever order the blocks were freed
THEOREM HeapRejoins == USpec => []URejoined
BY UInvariant, PTL

\* spud_malloc fails only if SYS_MMAP does, or for a size within the overhead of a whole number of pages
THEOREM MallocFailsOnlyAtEdge == USpec => []FailsOnlyAtEdge
BY UInvariant, PTL
=============================================================================
