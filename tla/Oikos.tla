------------------------------- MODULE Oikos -------------------------------
(***************************************************************************)
(* Physical pages and address spaces: the bitmap of util.c, the page       *)
(* tables of paging.c, and every kernel path that takes or gives back      *)
(* pages: boot, process creation (elf.c, proc.c), SYS_MMAP, SYS_DEV_MAP,   *)
(* SYS_V2P and the collection of dead processes.  Each is one step: none   *)
(* of these calls hashes a password, so they run with interrupts off until *)
(* they return, unless r12 was lost or the shell of ring 0 makes them      *)
(* (MaskedUntilLeak of Kinesis says when a tick may cut one in two).       *)
(*                                                                         *)
(* A virtual address is the number of its page.  The table of level k that *)
(* covers page va is <<k, va \div Fan^k>>; level Levels is the PML4.       *)
(***************************************************************************)
EXTENDS Integers, FiniteSets, Sequences, FiniteSetsExt, Loops

CONSTANTS
  Procs,      \* slots of the process table
  Drivers,    \* the ones whose process holds CAP_DEV_IO
  PageSize,   \* bytes of a page
  MemMap,     \* the boot loader's memory map: a sequence of [base, size, avail], in bytes
  Held,       \* kernel image, framebuffer and boot information: [base, size], in bytes
  BitmapMax,  \* pages the fixed bitmap can describe
  LowTop,     \* the first megabyte, in bytes
  HeapPages,  \* pages heap_init takes
  Levels,     \* levels of the page table
  Fan,        \* entries of a table
  UserBase,   \* USER_VADDR_BASE, as a page
  DevBase,    \* USER_DEVIO_BASE, as a page
  KernelBase, \* first page of the higher half
  Guard,      \* unmapped pages before the stack and before the heap
  StackPages, \* USER_STACK_SIZE
  UmapMax,    \* regions a process may have
  Images,     \* programs: [valid, segs], segs a sequence of [base, pages]
  CodeSizes,  \* sizes in pages of the programs of apps.c
  MmapSizes,  \* pages a process asks for; SYS_MMAP takes 0 for 1
  MmapMax,    \* most pages SYS_MMAP gives at once
  DevFrames,  \* device pages a driver maps
  Probes,     \* pages a driver asks SYS_V2P about
  DevMax      \* most pages SYS_DEV_MAP maps at once

ASSUME SizesAssumption ==
  /\ {PageSize, BitmapMax, LowTop, HeapPages, Levels, Fan, StackPages, UmapMax} \subseteq Nat \ {0}
  /\ {Guard, MmapMax, DevMax} \cup CodeSizes \cup MmapSizes \cup DevFrames \subseteq Nat
  /\ Levels > 1 /\ UmapMax > 1
ASSUME VaAssumption ==
  /\ {UserBase, DevBase, KernelBase} \subseteq Nat
  /\ UserBase < DevBase /\ DevBase < KernelBase /\ Fan ^ (Levels - 1) <= UserBase
ASSUME MapAssumption == MemMap # << >> /\ MemMap \in Seq([base : Nat, size : Nat, avail : BOOLEAN])
ASSUME ImagesAssumption == Images \subseteq [valid : BOOLEAN, segs : Seq([base : Nat, pages : Nat \ {0}])]

\* userspace.ld: a program lies low in user space, and no page belongs to two of its segments
LaidOut(segs) ==
  /\ \A i \in 1 .. Len(segs) : \/ segs[i].base >= KernelBase
                              \/ segs[i].base + segs[i].pages + Guard + StackPages <= DevBase
  /\ \A i, j \in 1 .. Len(segs) : i < j =>
       (segs[i].base .. segs[i].base + segs[i].pages - 1)
         \cap (segs[j].base .. segs[j].base + segs[j].pages - 1) = {}
AllLaidOut ==
  /\ \A img \in Images : LaidOut(img.segs)
  /\ \A n \in CodeSizes : LaidOut(<<[base |-> UserBase, pages |-> n]>>)
ASSUME LayoutAssumption == AllLaidOut

VARIABLES
  pmm,     \* [bits, used]: pages marked in pmm_bitmap, and pmm_pages_used
  kern,    \* pages the kernel itself holds: reserved ones, its heap, its tables
  status,  \* "none", "live" or "dead" (present and PROC_TERMINATED) for each slot
  space,   \* ctx.cr3 and the page tables under it: [cr3, tables, leaf]
  umap,    \* umap_base and umap_size: the regions of the process
  heap,    \* umap_heap, 0 for none
  devUsed, \* umap_devio_used, in pages
  booted,  \* the boot is over
  ret      \* the last call: [call, who, code, ignored]; ignored says that a creation ignored a
           \* failure of paging_map_user

procVars == <<status, space, umap, heap, devUsed>>
vars == <<pmm, kern, procVars, booted, ret>>

NoSpace == [cr3 |-> 0, tables |-> << >>, leaf |-> << >>]
Ret(call, p, code) == [call |-> call, who |-> p, code |-> code, ignored |-> FALSE]
With(f, x, v) == [y \in DOMAIN f \cup {x} |-> IF y = x THEN v ELSE f[y]]
Without(f, x) == [y \in DOMAIN f \ {x} |-> f[y]]
-----------------------------------------------------------------------------
(* The page bitmap *)

Entries == 1 .. Len(MemMap)

\* pmm_pages_total: one page more than the map's last byte, cut at the bitmap's size
Total == LET top == Max({MemMap[i].base + MemMap[i].size : i \in Entries}) \div PageSize + 1
         IN  IF top > BitmapMax THEN BitmapMax ELSE top
Pages == 0 .. Total - 1
Avail == {i \in Entries : MemMap[i].avail}

\* pmm_reserve: every page the bytes touch
Touched(base, size) ==
  IF size = 0 THEN {}
  ELSE (base \div PageSize) .. ((base + size + PageSize - 1) \div PageSize - 1)

\* The pages of an available region: its start rounded up, its length rounded down
Usable(r) == LET first == (r.base + PageSize - 1) \div PageSize
             IN  first .. first + r.size \div PageSize - 1

\* pmm_init: the first megabyte stays with the firmware when the map's first region says less
LowUsed ==
  LET first == IF Avail = {} THEN 0 ELSE MemMap[Min(Avail)].base
  IN  IF first = 0 \/ first > LowTop THEN LowTop ELSE first

\* pmm_init: everything is taken but the available regions, less what is reserved in them
Reserved ==
  (Pages \ UNION {Usable(MemMap[i]) : i \in Avail})
    \cup (Pages \cap (Touched(0, LowUsed) \cup UNION {Touched(h.base, h.size) : h \in Held}))

\* Faulty variant: the counter moves by one page only
PmmAllocCountsOne(m, n) ==
  LET runs == {i \in Pages : i + n <= Total /\ m.bits \cap (i .. i + n - 1) = {}}
  IN  IF n = 0 \/ runs = {} THEN [pmm |-> m, frame |-> 0]
      ELSE [pmm |-> [bits |-> m.bits \cup Min(runs) .. Min(runs) + n - 1, used |-> m.used + 1],
            frame |-> Min(runs)]

\* pmm_alloc: the first run of n free pages; frame 0 is the failure
PmmAlloc(m, n) ==
  LET runs == {i \in Pages : i + n <= Total /\ m.bits \cap (i .. i + n - 1) = {}}
  IN  IF n = 0 \/ runs = {} THEN [pmm |-> m, frame |-> 0]
      ELSE [pmm |-> [bits |-> m.bits \cup Min(runs) .. Min(runs) + n - 1, used |-> m.used + n],
            frame |-> Min(runs)]

\* pmm_free of every page of S: counts the marked ones, ignores page 0 and unmanaged pages
PmmFree(m, S) ==
  LET freed == Cardinality(m.bits \cap (S \ {0}))
  IN  [bits |-> m.bits \ (S \ {0}), used |-> IF freed > m.used THEN 0 ELSE m.used - freed]

\* pmm_free_mem
PmmFreeMem == Total - pmm.used
-----------------------------------------------------------------------------
(* Page tables; w is a half-built address space: [pmm, cr3, tables, leaf, ok, ignored, err, done] *)

Table(k, va) == <<k, va \div Fan ^ k>>

\* paging_ensure_table
EnsureTable(w, t) ==
  LET a == PmmAlloc(w.pmm, 1)
  IN  IF ~w.ok \/ t \in DOMAIN w.tables THEN w
      ELSE IF a.frame = 0 THEN [w EXCEPT !.ok = FALSE]
      ELSE [w EXCEPT !.pmm = a.pmm, !.tables = With(@, t, a.frame)]

\* The tables of va from the PML4 down; those made on the way stay when a later one cannot be had
Walk(w, va) == Iterate(LAMBDA x, i : EnsureTable(x, Table(Levels - i, va)), w, Levels - 1)

\* paging_map_user
MapUser(w, va, frame, mmio) ==
  LET t == Walk(w, va)
  IN  IF t.ok THEN [t EXCEPT !.leaf = With(@, va, [frame |-> frame, mmio |-> mmio])] ELSE t

\* The loops of process creation, which map n pages and ignore what paging_map_user returns
MapIgnoring(w, va, frame) ==
  LET m == MapUser(w, va, frame, FALSE) IN [m EXCEPT !.ok = TRUE, !.ignored = @ \/ ~m.ok]
MapPages(w, base, n, frame) ==
  Iterate(LAMBDA x, i : MapIgnoring(x, base + (i - 1), frame + (i - 1)), w, n)

\* The walk of paging_unmap_user and paging_phys_of_user reaches a leaf
Mapped(s, va) == va \in DOMAIN s.leaf /\ \A k \in 1 .. Levels - 1 : Table(k, va) \in DOMAIN s.tables

\* paging_unmap_user, and pmm_free of the page it returns
Unmap(w, va) ==
  IF Mapped(w, va)
  THEN [w EXCEPT !.pmm = PmmFree(@, {w.leaf[va].frame}), !.leaf = Without(@, va)]
  ELSE w

\* paging_free_address_space and paging_free_subtree: the pages they give back
SpaceFrames(s) ==
  {s.cr3} \cup {s.tables[t] : t \in DOMAIN s.tables}
    \cup {s.leaf[va].frame : va \in {v \in DOMAIN s.leaf : ~s.leaf[v].mmio}}

Work(m, s, err) == [pmm |-> m, cr3 |-> s.cr3, tables |-> s.tables, leaf |-> s.leaf,
                    ok |-> TRUE, ignored |-> FALSE, err |-> err, done |-> 0]
SpaceOf(w) == [cr3 |-> w.cr3, tables |-> w.tables, leaf |-> w.leaf]

\* paging_new_address_space
NewSpace(m) == LET a == PmmAlloc(m, 1)
               IN  Work(a.pmm, [NoSpace EXCEPT !.cr3 = a.frame], IF a.frame = 0 THEN -3 ELSE 0)
-----------------------------------------------------------------------------
(* Boot *)

\* pmm_init, heap_init
Init ==
  LET m == [bits |-> Reserved, used |-> Cardinality(Reserved)]
      h == PmmAlloc(m, HeapPages)
  IN  /\ pmm = h.pmm
      /\ kern = h.pmm.bits
      /\ status = [p \in Procs |-> "none"]
      /\ space = [p \in Procs |-> NoSpace]
      /\ umap = [p \in Procs |-> << >>]
      /\ heap = [p \in Procs |-> 0]
      /\ devUsed = [p \in Procs |-> 0]
      /\ booted = FALSE
      /\ ret = Ret("boot", 0, 0)

\* pml4_map_device makes what it lacks of the two tables above a device's large page
DeviceTables(m) == PmmAlloc(PmmAlloc(m, 1).pmm, 1).pmm

\* xhci_init maps a controller above 4 GB in the kernel's own tables (paging_map_device_identity),
\* and init gets its PML4; no other process is there yet
Boot(high) ==
  /\ ~booted
  /\ pmm' = PmmAlloc(IF high THEN DeviceTables(pmm) ELSE pmm, 1).pmm
  /\ kern' = pmm'.bits
  /\ booted' = TRUE
  /\ UNCHANGED <<procVars, ret>>
-----------------------------------------------------------------------------
(* Process creation *)

\* The loop of proc_create_user_regions over the segments of the program
LoadSegment(w, s) ==
  LET a == PmmAlloc(w.pmm, s.pages)
  IN  IF w.err # 0 THEN w
      ELSE IF s.base < UserBase THEN [w EXCEPT !.err = -10]
      ELSE IF a.frame = 0 THEN [w EXCEPT !.err = -11]
      ELSE MapPages([w EXCEPT !.pmm = a.pmm], s.base, s.pages, a.frame)

LoadSegments(w, segs) == Iterate(LAMBDA x, i : LoadSegment(x, segs[i]), w, Len(segs))

\* proc_create_user_args copies its code to pages of its own
LoadCode(w, n) ==
  LET a == PmmAlloc(w.pmm, n)
  IN  IF w.err # 0 THEN w
      ELSE IF a.frame = 0 THEN [w EXCEPT !.err = -4]
      ELSE MapPages([w EXCEPT !.pmm = a.pmm], UserBase, n, a.frame)

\* The end of the highest region
Top(regions) == Max({regions[i].base + regions[i].pages : i \in 1 .. Len(regions)})

\* proc_enter_user: the stack goes above the program
EnterUser(w, regions) ==
  LET a == PmmAlloc(w.pmm, StackPages)
  IN  IF w.err # 0 THEN w
      ELSE IF a.frame = 0 THEN [w EXCEPT !.err = -5]
      ELSE MapPages([w EXCEPT !.pmm = a.pmm], Top(regions) + Guard, StackPages, a.frame)

\* Faulty variant: what was loaded of the program is not given back
AbandonKeeps(w) == w.pmm

\* The failed creation: only the two failures of the segment loop give the pages back, the
\* others free the kernel stack alone
Abandon(w) == IF w.err \in {-10, -11} THEN PmmFree(w.pmm, SpaceFrames(w)) ELSE w.pmm

\* find_free: a slot that is not present, or of a process that exited and was not collected
FreeSlot(p) == status[p] # "live"

\* A creation that failed after find_free leaves the slot not present: proc_gc_run skips it, and what
\* an exited process still had there is not given back
GiveUp(p) ==
  /\ status' = [status EXCEPT ![p] = "none"]
  /\ space' = [space EXCEPT ![p] = NoSpace]
  /\ umap' = [umap EXCEPT ![p] = << >>]
  /\ heap' = [heap EXCEPT ![p] = 0]
  /\ UNCHANGED devUsed

\* The new process, or the error; regions are the ones of its program
Finish(p, call, w, regions) ==
  /\ ret' = [Ret(call, p, w.err) EXCEPT !.ignored = w.ignored]
  /\ IF w.err # 0
     THEN pmm' = Abandon(w) /\ GiveUp(p)
     ELSE /\ pmm' = w.pmm
          /\ status' = [status EXCEPT ![p] = "live"]
          /\ space' = [space EXCEPT ![p] = SpaceOf(w)]
          /\ umap' = [umap EXCEPT ![p] =
                        Append(regions, [base |-> Top(regions) + Guard, pages |-> StackPages])]
          /\ heap' = [heap EXCEPT ![p] = 0]
          /\ UNCHANGED devUsed

\* exec_elf_core: the headers are checked, at most UmapMax - 1 segments are loaded, the rest is cut
\* off; then proc_create_user_regions.  A kernel stack may be missing too (kstack)
ExecElf(p, img, kstack) ==
  LET segs == SubSeq(img.segs, 1, IF Len(img.segs) < UmapMax THEN Len(img.segs) ELSE UmapMax - 1)
  IN  /\ booted /\ FreeSlot(p)
      /\ IF ~img.valid \/ segs = << >> \/ \E i \in 1 .. Len(segs) : segs[i].base >= KernelBase
         THEN ret' = Ret("exec", p, -1) /\ UNCHANGED <<pmm, procVars>>
         ELSE IF ~kstack
         THEN ret' = Ret("exec", p, -2) /\ GiveUp(p) /\ UNCHANGED pmm
         ELSE Finish(p, "exec", EnterUser(LoadSegments(NewSpace(pmm), segs), segs), segs)
  /\ UNCHANGED <<kern, booted>>

\* proc_create_user_args
CreateArgs(p, n, kstack) ==
  LET code == <<[base |-> UserBase, pages |-> n]>>
  IN  /\ booted /\ FreeSlot(p)
      /\ IF ~kstack
         THEN ret' = Ret("app", p, -2) /\ GiveUp(p) /\ UNCHANGED pmm
         ELSE Finish(p, "app", EnterUser(LoadCode(NewSpace(pmm), n), code), code)
  /\ UNCHANGED <<kern, booted>>
-----------------------------------------------------------------------------
(* System calls on memory *)

\* One page of SYS_MMAP; the first failure ends the loop
MmapPage(w, va) ==
  LET a == PmmAlloc(w.pmm, 1)
      m == MapUser([w EXCEPT !.pmm = a.pmm], va, a.frame, FALSE)
  IN  IF ~w.ok THEN w
      ELSE IF a.frame = 0 THEN [w EXCEPT !.ok = FALSE]
      ELSE IF m.ok THEN [m EXCEPT !.done = @ + 1]
      ELSE [m EXCEPT !.pmm = PmmFree(@, {a.frame})]

MmapPages(w, base, n) == Iterate(LAMBDA x, i : MmapPage(x, base + (i - 1)), w, n)

\* Faulty variant: the pages are given back but stay mapped
RollbackMapped(w, base) ==
  [w EXCEPT !.pmm = PmmFree(@, {w.leaf[va].frame : va \in base .. base + w.done - 1})]

\* Faulty variant: the rollback misses the page mapped last
RollbackShort(w, base) == Iterate(LAMBDA x, i : Unmap(x, base + (i - 1)), w, IF w.done = 0 THEN 0 ELSE w.done - 1)

\* SYS_MMAP's rollback
Rollback(w, base) == Iterate(LAMBDA x, i : Unmap(x, base + (i - 1)), w, w.done)

\* SYS_MMAP's base: the end of the heap, or, for the first call, above all regions
MmapBase(p) == IF heap[p] # 0 THEN umap[p][heap[p]].base + umap[p][heap[p]].pages
               ELSE Top(umap[p]) + Guard

\* Faulty variant: a process may have any number of regions
UmapFullNever(p) == FALSE

\* SYS_MMAP needs an entry of the umap for the first region of a heap
UmapFull(p) == heap[p] = 0 /\ Len(umap[p]) >= UmapMax

\* Faulty variant: the region grows although its pages could not be had
GrownEarly(p, n, ok) ==
  IF heap[p] # 0 THEN [umap[p] EXCEPT ![heap[p]].pages = @ + n]
  ELSE Append(umap[p], [base |-> MmapBase(p), pages |-> n])

\* The regions of p after SYS_MMAP; the entry taken for a new heap is given back on failure
Grown(p, n, ok) ==
  IF ~ok THEN umap[p]
  ELSE IF heap[p] # 0 THEN [umap[p] EXCEPT ![heap[p]].pages = @ + n]
  ELSE Append(umap[p], [base |-> MmapBase(p), pages |-> n])

\* SYS_MMAP; DevBase bounds the heap in the model
SysMmap(p, n) ==
  LET base == MmapBase(p)
      w == MmapPages(Work(pmm, space[p], 0), base, n)
      r == IF w.ok THEN w ELSE Rollback(w, base)
      refused == n > MmapMax \/ UmapFull(p)
  IN  /\ status[p] = "live" /\ base + n <= DevBase
      /\ IF refused THEN UNCHANGED <<pmm, space, umap, heap>>
         ELSE /\ pmm' = r.pmm /\ space' = [space EXCEPT ![p] = SpaceOf(r)]
              /\ umap' = [umap EXCEPT ![p] = Grown(p, n, w.ok)]
              /\ heap' = [heap EXCEPT ![p] = IF w.ok /\ @ = 0 THEN Len(umap'[p]) ELSE @]
      /\ ret' = Ret("mmap", p, IF refused \/ ~w.ok THEN -1 ELSE base)
      /\ UNCHANGED <<kern, status, devUsed, booted>>

\* The loop of SYS_DEV_MAP
DevPage(w, va, frame) == IF w.ok THEN MapUser(w, va, frame, TRUE) ELSE w
DevPages(w, va, frame, n) == Iterate(LAMBDA x, i : DevPage(x, va + (i - 1), frame + (i - 1)), w, n)

\* SYS_DEV_MAP: after a failure the pages mapped so far stay, but the next call starts there again
SysDevMap(p, frame, n) ==
  LET va == DevBase + devUsed[p]
      w == DevPages(Work(pmm, space[p], 0), va, frame, n)
      refused == p \notin Drivers \/ n > DevMax
  IN  /\ status[p] = "live" /\ va + n <= KernelBase
      /\ IF refused THEN UNCHANGED <<pmm, space>>
         ELSE pmm' = w.pmm /\ space' = [space EXCEPT ![p] = SpaceOf(w)]
      /\ devUsed' = IF refused \/ ~w.ok THEN devUsed ELSE [devUsed EXCEPT ![p] = @ + n]
      /\ ret' = Ret("devmap", p, IF refused \/ ~w.ok THEN -1 ELSE va)
      /\ UNCHANGED <<kern, status, umap, heap, booted>>

\* SYS_V2P, paging_phys_of_user
SysV2p(p, va) ==
  /\ status[p] = "live"
  /\ ret' = Ret("v2p", p, IF p \in Drivers /\ Mapped(space[p], va) THEN space[p].leaf[va].frame ELSE -1)
  /\ UNCHANGED <<pmm, kern, procVars, booted>>

\* user_ptr_ok: a region of the caller holds the whole range
UserPtrOk(p, va, n) ==
  n = 0 \/ \E i \in 1 .. Len(umap[p]) :
             umap[p][i].base <= va /\ va + n <= umap[p][i].base + umap[p][i].pages

\* proc_exit
Exit(p) ==
  /\ status[p] = "live"
  /\ status' = [status EXCEPT ![p] = "dead"]
  /\ ret' = Ret("exit", p, 0)
  /\ UNCHANGED <<pmm, kern, space, umap, heap, devUsed, booted>>

\* proc_gc_run, in any process that lives.  The regions of a free slot are not read before the next
\* creation writes them, and are forgotten here; umap_devio_used is never reset
Gc ==
  LET dead == {p \in Procs : status[p] = "dead"}
  IN  /\ dead # {}
      /\ pmm' = PmmFree(pmm, UNION {SpaceFrames(space[p]) : p \in dead})
      /\ status' = [p \in Procs |-> IF p \in dead THEN "none" ELSE status[p]]
      /\ space' = [p \in Procs |-> IF p \in dead THEN NoSpace ELSE space[p]]
      /\ umap' = [p \in Procs |-> IF p \in dead THEN << >> ELSE umap[p]]
      /\ heap' = [p \in Procs |-> IF p \in dead THEN 0 ELSE heap[p]]
      /\ ret' = Ret("gc", 0, 0)
      /\ UNCHANGED <<kern, devUsed, booted>>

Next ==
  \/ \E high \in BOOLEAN : Boot(high)
  \/ Gc
  \/ \E p \in Procs :
       \/ \E k \in BOOLEAN, img \in Images : ExecElf(p, img, k)
       \/ \E k \in BOOLEAN, n \in CodeSizes : CreateArgs(p, n, k)
       \/ \E n \in MmapSizes : SysMmap(p, IF n = 0 THEN 1 ELSE n)
       \/ \E f \in DevFrames, n \in 1 .. DevMax + 1 : SysDevMap(p, f, n)
       \/ \E va \in Probes : SysV2p(p, va)
       \/ Exit(p)

Spec == Init /\ [][Next]_vars
-----------------------------------------------------------------------------
(* Properties *)

TypeOK ==
  /\ pmm.bits \subseteq Pages /\ pmm.used \in 0 .. Total /\ kern \subseteq Pages
  /\ status \in [Procs -> {"none", "live", "dead"}]
  /\ \A p \in Procs :
       /\ status[p] # "none" => space[p].cr3 \in Pages \ {0}
       /\ \A t \in DOMAIN space[p].tables : t[1] \in 1 .. Levels - 1 /\ space[p].tables[t] \in Pages
       /\ \A va \in DOMAIN space[p].leaf : va \in UserBase .. KernelBase - 1
       /\ Len(umap[p]) <= UmapMax /\ heap[p] \in 0 .. Len(umap[p])
  /\ devUsed \in [Procs -> Nat] /\ booted \in BOOLEAN

\* pmm_free_mem tells the truth: the counter of util.c, moved by runs in pmm_alloc and page by page
\* in pmm_free, is the number of pages marked in the bitmap
UsedCounted == pmm.used = Cardinality(pmm.bits) /\ PmmFreeMem = Cardinality(Pages \ pmm.bits)

Alive == {p \in Procs : status[p] # "none"}

\* No page serves twice: PML4, tables and pages of a process are all different, marked in the bitmap,
\* and belong to no other process and not to the kernel, through any order of creation, growth,
\* rollback and collection; what the boot took stays taken, the device pages that drivers map and
\* leave behind included (paging_free_subtree)
FramesExclusive ==
  /\ kern \subseteq pmm.bits
  /\ \A p \in Alive :
       LET s == space[p] IN
       /\ Cardinality(SpaceFrames(s)) = 1 + Cardinality(DOMAIN s.tables)
                                          + Cardinality({v \in DOMAIN s.leaf : ~s.leaf[v].mmio})
       /\ SpaceFrames(s) \subseteq pmm.bits \ kern
  /\ \A p, q \in Alive : p # q => SpaceFrames(space[p]) \cap SpaceFrames(space[q]) = {}

\* Pages that nobody can give back any more
Orphans == pmm.bits \ (kern \cup UNION {SpaceFrames(space[p]) : p \in Alive})

\* The pages user_ptr_ok accepts and the page tables do not have
Holes(p) == {va \in UserBase .. KernelBase - 1 : UserPtrOk(p, va, 1) /\ ~Mapped(space[p], va)}

\* What an exited process left in its slot
Uncollected(p) == IF status[p] = "dead" THEN SpaceFrames(space[p]) ELSE {}

\* Pages get lost only in a creation: exactly the pages of an exited process when its slot is taken
\* before proc_gc_run collects it (find_free), and more only when proc_enter_user or
\* proc_create_user_args finds no pages (they give nothing back) or a page was not mapped for want
\* of a table.  A refused segment, a rollback of SYS_MMAP, a mapping of devices and a collection
\* lose nothing
LossAccounted ==
  [][booted /\ Orphans' # Orphans =>
       /\ ret'.call \in {"exec", "app"}
       /\ Orphans' = Orphans \cup Uncollected(ret'.who) \/ ret'.code \in {-4, -5} \/ ret'.ignored]_vars

\* user_ptr_ok vouches for pages the kernel then reads and writes without looking: no system call
\* adds a page to them that is not mapped, and a new process has one only after an ignored failure
NoNewHoles ==
  [][\A p \in Procs : status'[p] = "live" =>
       \/ status[p] = "live" /\ Holes(p)' \subseteq Holes(p)
       \/ status[p] # "live" /\ (Holes(p)' = {} \/ ret'.ignored)]_vars

\* SYS_MMAP gives all the pages, right where the heap ended, or leaves regions and mappings as they
\* were (the rollback of syscall.c, "Rollback total" in docs/SYSCALL-ABI.md)
MmapAllOrNothing ==
  [][ret'.call = "mmap" /\ ret' # ret =>
       LET p == ret'.who IN
       IF ret'.code = -1
       THEN umap'[p] = umap[p] /\ heap'[p] = heap[p] /\ space'[p].leaf = space[p].leaf
       ELSE LET r == umap'[p][heap'[p]] IN
            /\ ret'.code \in r.base .. r.base + r.pages - 1
            /\ \A va \in r.base .. r.base + r.pages - 1 : va < ret'.code => va \in DOMAIN space[p].leaf
            /\ \A va \in ret'.code .. r.base + r.pages - 1 :
                 va \in DOMAIN space'[p].leaf \ DOMAIN space[p].leaf]_vars
=============================================================================
