----------------------------- MODULE KernelHeap -----------------------------
(***************************************************************************)
(* The kernel's heap, kmalloc and kfree of util.c: a list of blocks, first *)
(* fit, blocks split on allocation and joined when one is given back, and  *)
(* more pages from the PMM at the end of the list.  Sizes and addresses    *)
(* count units of 16 bytes, to which kmalloc rounds; a header is Hdr of    *)
(* them.  The calls are steps: ring 0 makes them with interrupts off, but  *)
(* where MaskedUntilLeak of Kinesis says that a tick may come.             *)
(*                                                                         *)
(* kfree joins neighbours of the list without looking where they lie.      *)
(* When two that do not touch are joined, the block covers memory that is  *)
(* not its own; what the next split writes there is beyond this model,     *)
(* which ends (kTorn).                                                     *)
(***************************************************************************)
EXTENDS Integers, FiniteSets, Sequences, FiniteSetsExt, Loops

CONSTANTS
  Hdr,       \* sizeof(heap_node_t)
  MinSplit,  \* the least a split leaves over, beside a header
  FirstAt,   \* where heap_init's pages lie
  FirstSize, \* what heap_init takes
  MoreSize,  \* what kmalloc takes when nothing fits
  MoreAt,    \* where the PMM's successive answers lie, until it has none left
  KSizes     \* sizes asked for

ASSUME KSizesAssumption ==
  /\ {Hdr, MinSplit, FirstSize, MoreSize} \subseteq Nat \ {0} /\ Hdr <= FirstSize /\ Hdr <= MoreSize
  /\ FirstAt \in Nat /\ MoreAt \in Seq(Nat) /\ KSizes \subseteq Nat

FirstUnits == FirstAt .. FirstAt + FirstSize - 1
MoreUnits(i) == MoreAt[i] .. MoreAt[i] + MoreSize - 1

\* The PMM gives no page twice (FramesExclusive of Oikos), but its answers may lie anywhere
ASSUME MoreAtAssumption ==
  \A i \in 1 .. Len(MoreAt) :
    MoreUnits(i) \cap FirstUnits = {} /\ \A j \in 1 .. Len(MoreAt) : j < i => MoreUnits(i) \cap MoreUnits(j) = {}

VARIABLES
  nodes,  \* the list from heap_head: [addr, size, free]
  more,   \* what is left of MoreAt
  kLive,  \* what callers hold: address of the block, and the size they asked for
  kLast,  \* the last call
  kTorn   \* kfree joined two blocks that do not touch
KVars == <<nodes, more, kLive, kLast, kTorn>>

Node(a, size, free) == [addr |-> a, size |-> size, free |-> free]
Fits(ns, n) == {i \in 1 .. Len(ns) : ns[i].free /\ ns[i].size >= n}

\* heap_init
KInit ==
  /\ nodes = <<Node(FirstAt, FirstSize - Hdr, TRUE)>>
  /\ more = MoreAt
  /\ kLive = << >>
  /\ kLast = "init" /\ kTorn = FALSE

\* Faulty variant: the rest is counted without the header it needs
CarveNoHeader(ns, i, n) ==
  LET b == ns[i]
  IN  IF b.size < n + Hdr + MinSplit THEN [ns EXCEPT ![i].free = FALSE]
      ELSE SubSeq(ns, 1, i - 1)
             \o <<Node(b.addr, n, FALSE), Node(b.addr + Hdr + n, b.size - n, TRUE)>>
             \o SubSeq(ns, i + 1, Len(ns))

\* kmalloc takes block i, and splits it when enough is left for another one
Carve(ns, i, n) ==
  LET b == ns[i]
  IN  IF b.size < n + Hdr + MinSplit THEN [ns EXCEPT ![i].free = FALSE]
      ELSE SubSeq(ns, 1, i - 1)
             \o <<Node(b.addr, n, FALSE), Node(b.addr + Hdr + n, b.size - n - Hdr, TRUE)>>
             \o SubSeq(ns, i + 1, Len(ns))

\* How often kmalloc calls itself again after it took pages: once, or, when not even the new block
\* is large enough, until the PMM has none
Growths(n) == IF Fits(nodes, n) # {} THEN 0
              ELSE IF more # << >> /\ n <= MoreSize - Hdr THEN 1 ELSE Len(more)

\* kmalloc(n); n = 0 gets nothing
Kmalloc(n) ==
  LET k == Growths(n)
      ns == nodes \o [i \in 1 .. k |-> Node(more[i], MoreSize - Hdr, TRUE)]
      fit == Fits(ns, n)
  IN  /\ IF n = 0 \/ fit = {}
         THEN /\ nodes' = IF n = 0 THEN nodes ELSE ns
              /\ kLast' = "none" /\ UNCHANGED kLive
         ELSE /\ nodes' = Carve(ns, Min(fit), n)
              /\ kLive' = [x \in DOMAIN kLive \cup {ns[Min(fit)].addr} |->
                             IF x = ns[Min(fit)].addr THEN n ELSE kLive[x]]
              /\ kLast' = "kmalloc"
      /\ more' = IF n = 0 THEN more ELSE SubSeq(more, k + 1, Len(more))
      /\ UNCHANGED kTorn

\* kfree's pass over the list: a free block takes in the free blocks that follow it in the list
TakeIn(out, b) ==
  IF out # << >> /\ out[Len(out)].free /\ b.free
  THEN [out EXCEPT ![Len(out)].size = @ + Hdr + b.size]
  ELSE Append(out, b)
Join(ns) == Iterate(LAMBDA out, i : TakeIn(out, ns[i]), << >>, Len(ns))

\* The pass joins two blocks that do not touch
JoinsApart(ns) ==
  \E i, j \in 1 .. Len(ns) :
    j = i + 1 /\ ns[i].free /\ ns[j].free /\ ns[i].addr + Hdr + ns[i].size # ns[j].addr

\* kfree of a block in use
Kfree(a) ==
  LET ns == [i \in 1 .. Len(nodes) |->
               IF nodes[i].addr = a THEN [nodes[i] EXCEPT !.free = TRUE] ELSE nodes[i]]
  IN  /\ nodes' = Join(ns)
      /\ kLive' = [x \in DOMAIN kLive \ {a} |-> kLive[x]]
      /\ kLast' = "kfree"
      /\ kTorn' = JoinsApart(ns)
      /\ UNCHANGED more

KNext == ~kTorn /\ ((\E n \in KSizes : Kmalloc(n)) \/ (\E a \in DOMAIN kLive : Kfree(a)))
KSpec == KInit /\ [][KNext]_KVars
-----------------------------------------------------------------------------
\* The units of pages the heap got from the PMM
HeapUnits == FirstUnits \cup UNION {MoreUnits(i) : i \in 1 .. Len(MoreAt) - Len(more)}
Extent(b) == b.addr .. b.addr + Hdr + b.size - 1

\* Every block of the list, header and all, lies in pages that pmm_alloc gave to the heap
BlocksInHeapPages == \A i \in 1 .. Len(nodes) : Extent(nodes[i]) \subseteq HeapUnits

\* Splitting and joining in any order, wherever the PMM's answers lie: until kfree first joins two
\* blocks that do not touch, the blocks of the list cut up the pages of the heap without overlap or
\* gap, each caller still holds a block of its own that is as large as it asked, and when the last
\* block in use has been given back kfree has put the heap together again
KTiled ==
  ~kTorn =>
    /\ UNION {Extent(nodes[i]) : i \in 1 .. Len(nodes)} = HeapUnits
    /\ \A i, j \in 1 .. Len(nodes) : i # j => Extent(nodes[i]) \cap Extent(nodes[j]) = {}
    /\ \A i \in 1 .. Len(nodes) : nodes[i].free <=> nodes[i].addr \notin DOMAIN kLive
    /\ \A a \in DOMAIN kLive : \E i \in 1 .. Len(nodes) : nodes[i].addr = a /\ nodes[i].size >= kLive[a]
    /\ kLast = "kfree" /\ DOMAIN kLive = {} => Len(nodes) = 1
=============================================================================
