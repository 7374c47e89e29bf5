------------------------------ MODULE UserHeap ------------------------------
(***************************************************************************)
(* The allocator of ring-3 programs, spud_malloc and spud_free of spud.h:  *)
(* one contiguous heap that SYS_MMAP extends (MmapAllOrNothing of Oikos),  *)
(* blocks with a header before and a footer after the payload, a list of   *)
(* the free ones, newest first, and joining through the footers.  Sizes    *)
(* and addresses count units of 16 bytes, to which spud_malloc rounds.     *)
(***************************************************************************)
EXTENDS Integers, FiniteSets, Sequences, SequencesExt, TLC

CONSTANTS
  Ovh,       \* SPUD_HDRSZ + SPUD_RBLK, header and footer
  URest,     \* the least payload a split leaves over
  PageUnits, \* a page
  Chunk,     \* SPUD_HEAP_CHUNK, the least growth
  UserTop,   \* bound of the heap in the model
  USizes     \* sizes asked for

ASSUME USizesAssumption ==
  {Ovh, URest, PageUnits, Chunk} \subseteq Nat \ {0} /\ USizes \subseteq Nat /\ Ovh < Chunk

VARIABLES
  blk,     \* the headers in memory: address to [size, free]
  foot,    \* the footers: address after the footer to the size written there
  fl,      \* spud_fl, the addresses of the free list
  heapEnd, \* spud_heap_end; spud_heap_va is 0
  uLive,   \* what the program holds: address of the block, and the size it asked for
  uLast    \* the last call: [call, n, grown], grown FALSE when SYS_MMAP failed
UVars == <<blk, foot, fl, heapEnd, uLive, uLast>>

NextOf(b, h) == h + Ovh + b[h].size
Block(size, free) == [size |-> size, free |-> free]
Put(f, x, v) == [y \in DOMAIN f \cup {x} |-> IF y = x THEN v ELSE f[y]]
Drop(f, S) == [x \in DOMAIN f \ S |-> f[x]]

UInit ==
  /\ blk = << >> /\ foot = << >> /\ fl = << >> /\ uLive = << >>
  /\ heapEnd = 0
  /\ uLast = [call |-> "init", n |-> 0, grown |-> TRUE]

\* Faulty variant: the pages are rounded down
GrowUnitsDown(n) == LET want == IF n < Chunk THEN Chunk ELSE n
                    IN  PageUnits * (want \div PageUnits)

\* spud_grow: whole pages, at least a chunk; the overhead of the new block is not added
GrowUnits(n) == LET want == IF n < Chunk THEN Chunk ELSE n
                IN  PageUnits * ((want + PageUnits - 1) \div PageUnits)

\* m is [blk, foot, fl, end]
Memory == [blk |-> blk, foot |-> foot, fl |-> fl, end |-> heapEnd]
Grow(m, n) ==
  LET size == GrowUnits(n) - Ovh
  IN  [blk |-> Put(m.blk, m.end, Block(size, TRUE)),
       foot |-> Put(m.foot, m.end + Ovh + size, size),
       fl |-> <<m.end>> \o m.fl,
       end |-> m.end + Ovh + size]

\* spud_alloc_locked finds the first block of the list that is large enough
Found(m, n) == {i \in 1 .. Len(m.fl) : m.blk[m.fl[i]].size >= n}

\* The block h is cut after n units: the first part is in use, the second free
Cut(m, h, n) ==
  LET nk == h + Ovh + n
      rest == m.blk[h].size - n - Ovh
  IN  [m EXCEPT !.blk = Put(Put(@, nk, Block(rest, TRUE)), h, Block(n, FALSE)),
                !.foot = Put(Put(@, nk + Ovh + rest, rest), nk, n)]

\* Faulty variant: the rest of a split block is not put into the free list
TakeForgets(m, n) ==
  LET i == Min(Found(m, n)) IN [Cut(m, m.fl[i], n) EXCEPT !.fl = RemoveAt(@, i)]

\* spud_alloc_locked takes it, and leaves the rest in its place in the list
Take(m, n) ==
  LET i == Min(Found(m, n))
      h == m.fl[i]
  IN  IF m.blk[h].size >= n + Ovh + URest
      THEN [Cut(m, h, n) EXCEPT !.fl = [@ EXCEPT ![i] = h + Ovh + n]]
      ELSE [m EXCEPT !.blk = Put(@, h, Block(m.blk[h].size, FALSE)), !.fl = RemoveAt(@, i)]

SetMemory(m) == blk' = m.blk /\ foot' = m.foot /\ fl' = m.fl /\ heapEnd' = m.end

\* spud_malloc(n); SYS_MMAP may refuse (ok)
Malloc(n, ok) ==
  LET mem == Memory
      grows == Found(mem, n) = {}
      m == IF grows /\ ok THEN Grow(mem, n) ELSE mem
      found == Found(m, n) # {}
      t == IF found THEN Take(m, n) ELSE m
  IN  /\ m.end <= UserTop
      /\ grows \/ ok
      /\ SetMemory(t)
      /\ uLive' = IF found THEN Put(uLive, m.fl[Min(Found(m, n))], n) ELSE uLive
      /\ uLast' = [call |-> IF found THEN "malloc" ELSE "none", n |-> IF found THEN 0 ELSE n, grown |-> ok]

\* The block h takes in the block nx behind it, which leaves the list (spud_unlink)
Absorb(m, h, nx) ==
  LET size == m.blk[h].size + Ovh + m.blk[nx].size
  IN  [m EXCEPT !.blk = Drop(Put(@, h, Block(size, TRUE)), {nx}),
                !.foot = Put(Drop(@, {nx}), h + Ovh + size, size),
                !.fl = RemoveFirst(@, nx)]

\* spud_coalesce, first loop: c is [h, mem]; the block after h joins h
JoinNext(c) ==
  LET nx == NextOf(c.mem.blk, c.h)
  IN  IF nx >= c.mem.end \/ ~c.mem.blk[nx].free THEN c ELSE [h |-> c.h, mem |-> Absorb(c.mem, c.h, nx)]

\* The block before h, found through its footer
PrevOf(m, h) == h - Ovh - m.foot[h]
NoPrev(m, h) ==
  \/ h <= 0 \/ m.foot[h] = 0 \/ m.foot[h] > h
  \/ PrevOf(m, h) < 0 \/ ~m.blk[PrevOf(m, h)].free \/ m.blk[PrevOf(m, h)].size # m.foot[h]

\* Faulty variant: the footer of the joined block is not written
JoinPrevStale(c) ==
  IF NoPrev(c.mem, c.h) THEN c
  ELSE LET pr == PrevOf(c.mem, c.h)
       IN  [h |-> pr, mem |-> [Absorb(c.mem, pr, c.h) EXCEPT !.foot = Drop(c.mem.foot, {c.h})]]

\* spud_coalesce, second loop: h joins the block before it
JoinPrev(c) ==
  IF NoPrev(c.mem, c.h) THEN c
  ELSE LET pr == PrevOf(c.mem, c.h) IN [h |-> pr, mem |-> Absorb(c.mem, pr, c.h)]

\* Faulty variant: a block joins at most one block on each side
CoalesceOnce(c) == JoinPrev(JoinNext(c))

\* spud_coalesce: each loop runs until it joins nothing more
Coalesce(c) ==
  LET n == Cardinality(DOMAIN c.mem.blk)
      run[k \in 0 .. 2 * n] ==
        IF k = 0 THEN c ELSE IF k <= n THEN JoinNext(run[k - 1]) ELSE JoinPrev(run[k - 1])
  IN  run[2 * n]

\* spud_free of a block in use
Free(h) ==
  LET m == [Memory EXCEPT !.blk = Put(@, h, Block(@[h].size, TRUE)), !.fl = <<h>> \o @]
  IN  /\ SetMemory(Coalesce([h |-> h, mem |-> m]).mem)
      /\ uLive' = Drop(uLive, {h})
      /\ uLast' = [call |-> "free", n |-> 0, grown |-> TRUE]

UNext ==
  \/ \E n \in USizes, ok \in BOOLEAN : Malloc(IF n = 0 THEN 1 ELSE n, ok)
  \/ \E h \in DOMAIN uLive : Free(h)
USpec == UInit /\ [][UNext]_UVars
-----------------------------------------------------------------------------
\* The blocks cut up the heap without overlap or gap, every footer repeats the header's size, and the
\* program still holds what it was given: spud_coalesce finds its neighbours by these facts alone
UTiled ==
  /\ (DOMAIN blk \cup {heapEnd}) = {0} \cup {NextOf(blk, h) : h \in DOMAIN blk}
  /\ \A h \in DOMAIN blk : foot[NextOf(blk, h)] = blk[h].size
  /\ \A g, h \in DOMAIN blk : g < h => NextOf(blk, g) <= h
  /\ \A h \in DOMAIN uLive : h \in DOMAIN blk /\ ~blk[h].free /\ blk[h].size >= uLive[h]

\* The free list names every block that is not in use, once, and no other: none is lost to the
\* program and none is given out twice
FreeListExact ==
  /\ ToSet(fl) = {h \in DOMAIN blk : blk[h].free} /\ ToSet(fl) = DOMAIN blk \ DOMAIN uLive
  /\ Len(fl) = Cardinality(ToSet(fl))

\* When the last block in use has been given back, one block is left, however often the heap grew
URejoined == uLast.call = "free" /\ DOMAIN uLive = {} => Cardinality(DOMAIN blk) = 1

\* spud_malloc fails only if SYS_MMAP does, or at one edge: it grows by the pages of the payload and
\* leaves out header and footer, so a size within Ovh units of a whole number of pages does not fit
\* into the pages just mapped
FailsOnlyAtEdge ==
  uLast.call = "none" => \/ ~uLast.grown
                         \/ uLast.n > Chunk - Ovh /\ (0 - uLast.n) % PageUnits < Ovh
=============================================================================
