# Siath OS: a TLA+ development

Models, model-checking runs and machine-checked proofs about the Siath OS kernel
and its user-space services. Paths below are relative to the repository, which is
`src/` (so the kernel is `src/src/kernel`).

## The system and its parts

Siath OS is a single-CPU x86-64 system: a kernel with a preemptive round-robin
scheduler, ring-3 programs with an address space each, message passing between
them, and services (authentication, files, consent, keyboard) that run either in
the kernel or as ring-3 servers.

| Part | Source | State it keeps | Operations | What makes it correct |
|---|---|---|---|---|
| Kinesis | `proc.c`, `ctxswitch.asm`, `idt.asm`, `isr.c`, `init.c` | process table, saved contexts, current process, `tss.rsp0`, IF | create, yield, preempt, block, wake up, exit, waitpid, collect zombies | one process runs; nobody is resumed on freed memory; nothing is freed twice; a ready process runs; waitpid tells the truth |
| IPC | `ipc.c` | table of mailboxes, a ring of messages each | send, reply, receive without blocking | a FIFO queue per process |
| Service registry | `svc.c` | name to pid table | register, query | a name leads to a live server |
| RPC library | `spud.h` | requests in flight | request, retry, give up, fall back; serve | a reply answers the request it is taken for; an operation is done once |
| Oikos | `util.c`, `paging.c`, `proc.c`, `syscall.c` | page bitmap, heap list, page tables, the user mappings of a process | allocate, free, map, unmap, tear down | no page has two owners, nothing leaks when a call fails half way |
| Heap of programs | `spud.h` | list of blocks, list of free blocks | `spud_malloc`, `spud_free`, growth by `SYS_MMAP` | the blocks tile the heap, what is freed can be used again |
| Sessions | `auth.c`, `authd.c`, `cap.c`, `spoudazo.c`, `praxia.c`, `shell.c` | accounts (one store in the kernel, one in authd), tickets, rights | create, log in, issue and redeem tickets, grant | rights come from a login; a ticket works once |
| Synallagma | `synallagma.c`, `synd.c` | contracts, consents, audit ring | consent, revoke, record | no access without consent; the audit keeps the latest records |
| Files | `fs.c`, `vfs.c`, `fsd.c` | node table, store of the server | create, write, copy, move, delete | the tree stays a tree, a move loses nothing |
| Keyboard | `keyboard.c`, `odigos_pliktrologiou.c` | two decoders (shift, dead key, queued character) | poll the controller, answer the driver's clients, read | keys arrive once and in order |
| Devices, console, boot, crypto | `xhci.c`, `fb.c`, `boot/`, `crypto.c`, ... | hardware registers, pixels | | out of scope: their other side is hardware, firmware or text |

How the parts meet. A system call enters through an interrupt gate and runs with
interrupts off until it returns or gives up the CPU, with one exception:
`auth_hash_password` ends with `enable_interrupts()` whatever IF was (`auth.c:60`),
so a call that hashes a password (`SYS_AUTH_*`) goes on with interrupts on, and so
does everything init does in its ring-0 session after the first login. Ring 3 runs with
interrupts on, so any two programs interleave at every instruction. `do_send` calls
`sched_wakeup`; `SYS_READ` sends to and receives from the keyboard server with
the mailbox of the caller; every service call is a registry query, a send and a
polling receive. Process creation takes pages and heap blocks, `proc_gc_run`
gives them back, from the timer or from init's `sched_yield`.

What is hard here: the two ways a context is saved and resumed (by a C call and
by the interrupt stub) and their mixing; ticks between any two steps of init where
interrupts are on; a parent, its children and the collector racing over one
`wait_pid` field; slots, stacks and mailboxes reused or not reused; replies that
come late; operations that fail half way. `PROJECT.json` lists each with its line.

## Modules

- `Kinesis`: the scheduler. One variable per PCB field that the control depends
  on (`present`, `pid`, `state`, `parent`, `waitPid`, `waitCode`, `stack`, `cr3`),
  the saved context as its kind (`ctx`: never run, parked in C, parked by an
  interrupt) and the stack it points into (`frame`), the CPU (`current`, `tss`,
  `iflag`), what is allocated (`heap`, `spaces`), and init's program counter.
  A kernel stack and an address space are named by the pid they were allocated
  for, which makes a dangling pointer visible. Actions: `Tick` is the whole timer
  interrupt (collection, choice, park, resume); `SysExec`, `SysExit`, `SysWait`,
  `SysSend` are system calls; `WaitBegin` and `WaitResume` are one round of the loop of
  `proc_waitpid` after a wake-up; `InitFind` ... `InitYield` are init's steps, cut where
  an interrupt may come while IF is set in ring 0. `InitLogin` and `InitShell` are the
  ring-0 session init falls back to: each login and each `passwd` or `useradd` hashes a
  password and so sets IF (`HashPassword`), `praxia` creates a process, and every command
  ends with `sched_yield`, collection included. IF may also be set in ring 0 by the stub:
  its path `.resume_c` does not reload r12, where the compiler keeps `if_was` of
  `sched_switch`, so `ResumedFlag` lets a process parked in C go on with either value.
  `leaked` records that one of the two has happened. Three stretches of code must not be cut by a
  tick (`Section`): a process half built, a zombie half collected, a round of
  `proc_waitpid`. A tick inside one (`TickInSection`) sets `cut` and ends the
  behaviour, because what runs next uses a context never written or memory given back.
  That no tick does so before something leaked is a result (`MaskedUntilLeak`). So is what
  ticks outside the sections find, before and after that (`NoDoubleFree`, `FramesLive`).
  The dereference of a NULL `kid` in `proc_waitpid` is a choice (`NullKid`).
- `Ipc`: the mailbox table. `MailFifo`: what it promises, a bounded queue per pid.
- `Rpc`: services in user space. It composes the registry (`svc`), the queues of
  `MailFifo` (`mail`), the server loop of `spud_svc_serve` (`Register`, `Take`,
  `Reply`, `Exit`), the clients of `spud.h` (`Call`, `Query`, `Send`, `Accept`,
  `Reject` and the ways to give up) and `SYS_READ` (`ReadService`, `ReadDirect`).
  `SYS_READ` gives the program the first byte of whatever message it finds: `got` is a
  key's number, or `Stray` for a byte of a reply of authd or fsd.
  The three `*_rpc` functions are the same code with another name. A retry loop is
  a step that may be the last try whenever it fails: the budgets are times, and
  which of two processes is faster is not known; `Patient` takes the giving up
  away. A process without a mailbox never gets one (mailboxes are not given
  back), so the ones that found the table full are a constant, `Boxless`. What a
  fallback does in the kernel's own store belongs to other components: here it
  ends the call. No server of the repository exits once registered; `Mortal` ones
  do, because `svc_query` provides for it.
- `Oikos`: physical pages and address spaces. `pmm` is the set of pages marked in
  the bitmap and the counter kept beside it, `kern` the pages of the kernel itself;
  `space` has the tables of a process as a function from `<<level, index>>` to the
  page that holds the table, and its leaves; `umap` is the PCB's list of regions,
  which is full sooner than the address space. `Init` reads the firmware's map and
  `Boot` takes what the kernel takes; `ExecElf` and `CreateArgs` create a process and
  fail at each allocation, `SysMmap` and `SysDevMap` are system calls, `Exit` and
  `Gc` end a process and collect it. A creation takes an empty slot or one whose process has
  exited and was not collected (`FreeSlot`); what that process had is then out of reach, whether
  the creation succeeds or gives up (`GiveUp`). Each action is one step: none of these calls hashes a
  password, so they run with interrupts off unless r12 was lost or the ring-0 shell makes
  them (`MaskedUntilLeak` of `Kinesis` says when a tick may cut one in two). A loop of the code works on a record `w`, the
  bitmap with the address space under construction. Where the code ignores the failure of
  `paging_map_user`, the model goes on too and `ret.ignored` keeps the fact.
- `KernelHeap`: `kmalloc` and `kfree` on the list of blocks, in bytes scaled down to
  units, with growth by pages at addresses the PMM chooses (`FirstAt`, `MoreAt`), before,
  behind or apart from the others. When `kfree` joins two blocks that do not touch,
  `kTorn` ends the behaviour: what the next split writes there is beyond the model.
- `UserHeap`: `spud_malloc` and `spud_free`, in units of 16 bytes: headers and
  footers in memory, the free list, growth in chunks of address space that `SYS_MMAP`
  may refuse.
- `MCLocal` composes the three allocators and the keyboard, one at a time (`which`):
  each works on a state of its own, so no interleaving of them is missed.
- `Sessao`: accounts, tickets, consent and rights. There are two account stores, the
  kernel's and authd's, with the same operations on one or the other; tickets
  are a table with an index for the token; rights are sets of capabilities, inherited
  at `SYS_EXEC`. A password stands for its salted hash. Actions: first account
  and login in the ring-3 login program (`spoudazo`) and in ring 0, each through
  authd or on the kernel after authd was given up, with the request then
  served late; what the two shells do to accounts; logout; programs that issue and
  redeem tickets themselves. A call that stores a hash is cut where the hash sets IF: an
  account is counted and named, and a password's salt new, before; `work` is what is
  still to be written, and `Store` writes it. Meanwhile authd goes on. `earned` is a history variable, for the properties only: the
  capabilities of the accounts that logged in since the login program started.
- `Vfs`: the kernel's node table (`fs.c`), the policy and the name space in front of
  it (`vfs.c`, `synallagma.c`), fsd's own store and the clients that choose between
  the two, synd's record of consent. Paths are sequences of names, normalised as the
  code does; a text is its tag and its length, so that one cut short is seen to be
  another text. A request that the client gave up and the server answers later is an
  `Ask` whose reply nobody reads. What synd is told about consent is kept by synd
  alone: the kernel's policy never asks it, and the model says so by having two
  variables.
- `Keyboard`: the two decoders of scancodes, the kernel's and the driver process's, on
  one controller. The state is what each keeps (shift, caps lock, dead key, queued
  character), where each is between its check of port 0x64 and its read of port 0x60 (`at`),
  the bytes under way and in the controller, the byte that port 0x60 gives again when there is no
  other (`latch`), and the stage of the driver (not started, in its reset of the controller,
  registered). `raced` has the keys whose byte one decoder took while the other, which had
  seen it, was about to read it. Keys carry a number that
  the code does not see, so that one lost, repeated or overtaken is seen. `wire` lets
  the byte after 0xE0 come later than the decoder waits for it.
- `MCKernelHeap`, `MCSessao`, `MCVfs`: constants of the runs.
- `Loops`: a loop of the code as a function of its rounds; the loops of `Oikos` over
  pages and segments and the pass of `kfree` are written with it.
- `KinesisProofs`, `IpcProofs`, `SessaoProofs`, `RpcProofs`, `VfsProofs`, `OikosProofs`
  (which has `KernelHeap` too), `UserHeapProofs`, `KeyboardProofs`: the theorems.

## Runs

| Run | Shows | Bounds |
|---|---|---|
| `kinesis` | nine properties of the scheduler, deadlock freedom included, with any r12 and with the ring-0 session, until a tick cuts a section | 4 slots, 5 pids, one exit code, no boot service besides the session |
| `kinesis_flag` | IF is not restored as the comment of `sched_switch` says | one boot service |
| `kinesis_wait` | a child's exit code is lost to waitpid once the child is collected, against the comment of `proc_exit` | one boot service |
| `ipc` | type, one mailbox per pid, refinement of `MailFifo` | 2 mailboxes, rings of 2, 3 processes of which one lacks `CAP_IPC`, targets 0 to 4 |
| `ipc_full` | a full mailbox drops a message that the sender was told was sent, against `docs/SYSCALL-ABI.md` | as `ipc` |
| `rpc` | order and kind of answers; a byte read is a key, in order, or the start of a reply to a call of one's own after a failure; every call returns | one client, two auth servers of which one may die, a file server without a mailbox, the driver; mailboxes of 2, registry of 2, 2 calls, 2 keys |
| `rpc_flow` | a left-over keyboard answer sends a call to the kernel although authd answered before, against the comment of `spud_auth_rpc` | one auth server and the driver, no time-outs |
| `local` | no page has two owners, pages are lost only by creations, over a slot not yet collected (exactly its pages) or abandoned half way, a failed `SYS_MMAP` undoes itself, both heaps tile their memory and rejoin what is freed, the kernel's until it joins blocks that do not touch, `spud_malloc` fails only at the edge of its range; the kernel's decoder loses, swaps and changes no key, and no key comes twice unless kernel and driver raced for its byte | pages of 2 bytes, a map of 16 pages with a firmware page and a region off the page boundary, 2 process slots, tables of 3 levels with 3 entries, 3 user mappings, `SYS_MMAP` of 0, 3 and 4 pages where 3 is the most; kernel heap of 13 units that grows twice, by pages right behind it and then by pages before it; program heap of 20 units in chunks of 8; 3 key strokes out of a letter, a key that is dead with shift, one always dead, space, Enter, Enter of the key pad, shift and caps lock, and 2 bytes for a request to the driver |
| `heap_grow` | `kfree` joins blocks that are neighbours in the list and not in memory, against `docs/MANUAL-TECNICO.md` | one growth, to pages behind a gap |
| `sessao` | the sovereign stays and stays alone, a name has one open ticket, a shell runs for a user with every consent given, the first session has no more rights than its logins earned, a login by ticket spends one | 2 names, 3 passwords of which one is too short, 2 accounts, 2 tickets, 2 contracts, 2 logins, 2 late requests; long names and long passwords are symmetric |
| `sessao_bootstrap` | authd loses the fields after the first and refuses the first account, against its own comment | 1 name, 1 password, 1 ticket |
| `vfs` | the tree stays a tree, a move keeps the text, a program changes nothing that is protected, fsd's store and the answers it gives agree | one program, one contract on `/idios`, 5 paths of which one leaves fsd's folder by `..`, one text longer than a request's room, 19 nodes, 2 entries in fsd's store, 1 in synd's |

Why the bounds are enough. Four slots hold init and three programs: a parent, a
child and an unrelated program that is ready at the wrong moment. Five pids let a
slot be recycled after a collection and over an uncollected zombie, the
session be started again, and the ring-0 shell start programs. The last pid is kept for the session
(`SysExec`, `SysExit`), so the bound itself never blocks init. Two mailboxes are
fewer than the pids that ask for one, and rings of two wrap around and fill up.
In `rpc` a call that fails and one that follows it show late, left-over and
misplaced replies; mailboxes of two hold a left-over keyboard answer and a reply;
three names compete for a registry of two, so that a server is refused.
In `local` 16 pages are fewer than two processes with their tables, stacks and
mappings want, so each allocation of a creation and of a `SYS_MMAP` fails in some
behaviour, and three mappings are fewer than the largest program uses. The heaps
hold three small blocks or two larger ones: enough for a free block between two
used ones, for joining on both sides, for a rest too small to be split off, and for
a size that no block has. Two accounts and two tickets fill their tables, and two
logins let a second session come after one that left something behind; a late
request is served between any two steps of the session that gave it up. In `vfs` the
boot tree takes all but one of the 19 nodes, so a second creation, a copy or a move
finds the table full; a text of three does not fit a request of two and needs more than
the first capacity of a node. Three key strokes are a dead key, a letter and
another key, or shift, a dead key and a letter, read at any delay and by both decoders; two
bytes for one request and a race for one byte need no more. The kernel's heap joins blocks that touch after
its first growth and blocks that do not after its second.

`CHECK_DEADLOCK FALSE` in `local`, `sessao` and `vfs`: a kernel that finds
no memory at boot halts, a torn kernel heap ends its behaviour, and the named bounds on logins, late requests, table slots and
key strokes may leave nothing to do.

Fairness. `WF(Tick)`: the PIT interrupts for ever, and a tick can be taken
whenever IF is set. `WF(WaitBegin \/ WaitResume)` and `WF(InitStep)`: a CPU that is in kernel
code goes on executing it. Nothing is assumed of a program: it may loop for ever,
never exit, never wait; nor of the user of the ring-0 session, so `StarvationFree`
leaves out what follows a login there (it may have interrupts off until the first hash) and what
follows a cut. In `Rpc`, `WF(ClientStep)`: a client in a call is scheduled
again and again (`StarvationFree`) and its loops count their tries. Nothing is
assumed of the servers. The modules on memory, sessions and files state no fairness:
all their properties are safety.

What the six violations show is in `PROJECT.json` under `findings`: IF after
a switch from the timer, the exit code of a collected child, the send to a full
mailbox, the left-over keyboard answer, the kernel heap after it grew, and
the fields that authd loses.

Things the models follow that a reader of the code may not expect:

- fsd seeds all eight of its folders, so creating another in its own part of the
  tree always fails. It decides what it owns from the path as written, before `..`
  is resolved. Creating a file it owns empties it.
- A client's request has room for 384 bytes; a longer text is cut without an error.
- `vfs_move` asks for the right to read the source only, and the ring-0 editor of the
  shell writes past the policy; `ProtectedKept` is about programs.
- `current_user` is not cleared at logout, so from the second session on rights are
  inherited from init and not from the login.
- The driver of the keyboard keeps the letter after a dead key until another key comes,
  answers with the letter then, and drops that key; a dead key and a space overtake the
  letter. The kernel's decoder does neither, which is what `KeysKept` shows of it; of the
  driver the run shows only that no key comes twice without a race for its byte (`NoKeyTwice`).
- Only a test program calls synd.
- `docs/SYSCALL-ABI.md:182` still calls the coalescing of `spud_free` a TODO; `spud_coalesce`
  does it, and `URejoined` is about it. The comment at `vfs.c:145` has `/oikos` read-only "para
  todos", which the ring-0 `edit` and `mv` are not bound by.
- `find_free` hands out the slot of a process that exited and was not collected: its pages and its
  kernel stack are never given back (`LossAccounted`).
- The driver's check of the controller and its read are two system calls. If the ring-0 session
  takes the byte between them, the driver gets the last byte again and its key comes twice.
- Letting go of one shift key ends shift for a decoder although the other is held; the
  model has one shift key. A shift or caps lock that the driver's reset throws away, or
  that the kernel took before the driver registered, is unknown to the driver.

## Proofs

The proofs hold for every value of the constants that satisfies the named
assumptions of the modules: any number of slots, pids, mailboxes, clients, servers,
names, tickets, nodes, pages, programs, block sizes and key strokes. Each safety result is an induction on an
invariant stronger than the property, and the properties then follow from it.

- `TypeCorrect`, `OneRunning`, `InitAlwaysReady`: one induction on `SoloInv`.
  `CurrentRuns` and `InitReady` need each other: a switch keeps one process
  running because it takes a READY one other than the current, and init stays
  ready because only the running process changes its own state to anything but
  READY, and init itself never blocks or exits.
- `WaitCodeCorrect`: induction on `RecordInv`. The code in a PCB is right because
  pids are never reused and a recorded `waitPid` names a pid whose code is in the
  history, which the invariant says of every slot, recycled ones included.
- `FramesAlwaysLive`, `NeverDoubleFree`, `KernelEntriesOwnStack`, all from
  `MemoryAlwaysSafe`: one induction on `MemInv`, which adds two parts to `RecordInv` and
  says nothing of IF, so it holds for any r12 and in the ring-0 session. `Owned`: a
  slot's stack and address space carry the slot's pid and are allocated unless the slot is being collected; as pids are
  never reused this makes owners unique, so freeing one slot's memory cannot hit
  another's. `Framed`: a parked process is parked on its own stack, and `tss`
  points to the stack of the process that runs; each of the four ways to resume a
  process needs this of the process it leaves and of the one it takes.
- `MaskedUntilLeaked`: induction on `LeakInv`. Until something leaked, ring-0 code runs with IF
  off and whatever will be resumed in ring 0 will be too: it is parked in C, and its `if_was`
  is clear (`Masked`). This is the part that r12 and the password hash break.
- `IpcTypeCorrect`, `OneMailboxAlways`: induction on `IpcInv`.
- `Refinement`: the mailbox table implements `MailFifo`. The ring read from its
  head is the queue of its owner; lemmas `RingPush` and `RingPop` say that writing
  after the last message appends and moving the head on removes the first, from
  three facts about the remainder; `QueueSame` says that a step on one mailbox
  leaves the queues of the others alone.

- `SessaoTypes`, `SovereignStays`, `TicketsExclusive`, `SessionsLawful`,
  `FirstSessionBounded`, `TicketsSpent`: induction on `SessaoInv`. What must be known of
  a session at each place of the login program (`PlaceOK`, `StartsOK`) is what makes
  the rights of its programs bounded by what its logins earned; `UserOK` ties the user
  to an active account or to a spent ticket. `AuthdBare` says that authd has no
  account, ever: it loses every field after the first (`sessao_bootstrap`), so it
  refuses every account for its password, and that the sovereign stays alone in authd's
  store rests on it. For this `EmptyIsShort` (the empty password is too short) is assumed.
  `Books` says of the kernel's store what holds also while an account is half made, with what
  is still to be written to it (`WorkOK`).
- `RpcTypes`, `AnswersOfOwnKind`, `AnswersOrdered`, `KeysReadInOrder`: induction on
  `RpcInv`. The library compares only sender and type of an answer, so the order of
  answers rests on where a call's number can be: `CallsOrdered` has the numbers between a
  client and a server rise from the answer last taken through the client's mailbox,
  the request in work and the server's mailbox up to the call not yet sent.
  That a byte which is no key comes after a failed call only is `Flight`: as long as no call of a client
  failed, a request or reply that is still under way is about the call it waits in.
  `KeysOrdered` has the same of keys, and `DriverInv` excludes that `SYS_READ` goes
  past a driver that holds older keys: it does so only before any driver serves.
  `DriverStays` (the driver does not exit, as its code has no way to) is needed:
  a registered driver that died would make `SYS_READ` read the controller
  while an answer of the driver lies in the mailbox.
- `TreeStaysSound`, `MovesKeepText`, `ProtectedStays`, `ServiceStaysCoherent`: induction
  on `VfsInv`: every node of the table hangs from a directory (`TreeOK`), fsd's
  store has each path once and no text longer than its room (`StoreOK`, `DirsOK`),
  and consent is given to all contracts or to none. The last three are action properties; they
  need the invariant because a move, a policy check and a request each look paths up. Assumptions: the limits of the code
  (`LimitsAssumption`; `RequestFits`, 384 bytes fit fsd's 511), that the contracts
  the system ships with are on folders other than the root and `/oikos`, that the boot tree fits, and two facts that TLC evaluates because
  the provers cannot: powers of two grow (`PowersGrow`), and normalising a path gives a path
  (`PathsAssumption`), which would be an induction over a fold. `ServiceCoherent`
  speaks of every request granted, also one that had to allocate, and of what may be read: a contract may allow to write only, and
  fsd then answers a creation with success and a read with nothing.
- `HeapStaysTiled`, `FreeListStaysExact`, `HeapRejoins`, `MallocFailsOnlyAtEdge`:
  induction on `UInv`. The blocks follow each other from the base to the end (`Chain`),
  each footer repeats its header, and the free list is the set of free blocks,
  each once. `spud_coalesce` finds the block before through a footer and the one behind
  through a size, so both are needed for it to read a header at all. Its two loops
  are recursive functions over the heap; that they end in a block with no free neighbour
  is shown by the least step at which they do not go on, as the provers have no
  induction over data. `USizesAssumption` has a header and a footer together smaller than a chunk.
- `KeysStayKept`, `NoKeyEverTwice`: induction on `KbInv`. The bytes in the controller
  and on the wire are one stream that grows behind and is eaten from the front
  (`StreamOK`); keys delivered, keys held and keys still to come are all different, for
  both decoders together (`AllApart`), but for the keys of `raced`. Port 0x60 gives an old byte
  again only to a decoder that saw one and lost it to the other, and then `raced` has that byte's key
  (`Racing`); a decoder alone never reads an empty port (`Alone`). For
  the order of characters, `Replays` says that running the decoder's shift and caps lock over
  the stream gives each byte the character that was meant, and ends in the state of
  the keyboard: the decoder may be any number of strokes behind. `KernelKeeps` adds
  that a dead key and a queued character are never held together and that Enter is no dead
  key, without which the end of a line would throw a character away.
  `KeysAssumption` says that of the maps, and that 0xE0, shift and caps lock have no entry in them.

- `InvHolds`, and from it `UsedIsCounted`, `FramesAreExclusive`, `HolesDoNotGrow`,
  `MmapIsAtomic`, `TypesHold`, `OnlyCreationLoses`: induction on `Inv` of `OikosProofs`. Its parts:
  `Owned`, every PML4, table and page of a process is marked, is not the kernel's and is
  nobody else's, within one process too (`OwnOnce`); `Idle`, a free slot has nothing; `RegionsOK`,
  the heap is the last region, ends at the top of all regions and is mapped up to its end, and what
  is mapped above the top is device pages. The last part is what makes `SYS_MMAP`'s pages new ones:
  a page mapped over another would drop it from the tables, still marked. Each operation
  works on the bitmap and one address space `w`. What it does to all others is what it does to
  `Rest(w)`, the marked pages that are not `w`'s: a walk, a device mapping, a rollback leave it
  as it was, and a mapping takes out of it the page it maps. So each loop has one invariant
  (`Walked`, `PagesTried`, `MmapGot`, `RolledBack`, `DevGot`, `Loaded`), `Replaces` carries the result
  over to the other processes, and `StepOK` collects what every action keeps. Loops are followed
  round by round (`Runs`, `RunsIn`): the least round after which the invariant fails is not there.
  `LayoutAssumption` is needed by `TypesHold` and `OnlyCreationLoses` alone: the segments of a program do not overlap and
  end well below the device pages, which `userspace.ld` gives every program of the repository. The
  kernel does not check it of a file: with overlapping segments it would map one page over
  another and lose the first, and with a segment high up the stack would lie among the device
  pages. The other five hold for any file. `VaAssumption` has user space
  lie above what the first entry of the PML4 covers and begin below the device pages. The bound of the model,
  that `SYS_MMAP` stays below `DevBase` and `SYS_DEV_MAP` below `KernelBase`, is part of the
  actions and so of the theorems.
- `KernelHeapTiled`: induction on `KInv`, wherever the PMM's answers lie. The blocks of the list cover
  the units of the heap's pages and no two overlap (`Tiles`), which splitting and growing keep, and
  joining as long as the blocks touch; the blocks in use are the ones that
  callers hold (`Lent`); after `kfree` no two neighbours are free (`NoTwoFree`). What `kfree`'s
  pass makes of the first blocks is `JoinedTo`. `MoreAtAssumption` says that the PMM gives no page twice,
  which is `FramesExclusive` of `Oikos`. Once `kfree` has joined two blocks that do not touch (`kTorn`)
  nothing is claimed, and `heap_grow` shows why.

Only model-checked: `StarvationFree` and `CallReturns`, which are liveness and
outside TLAPS; and the violations.

## Plan

Done: the modules, and theorems on all of them: every safety property that a passing run checks
is proved.

1. The audit rings of `fsd` and `synd`, which overwrite their first record once full.
2. An address space with overlapping segments as a run of its own, should the loader ever take
   programs that `userspace.ld` did not lay out.

## Not modelled

- USB keyboards: `hid.c` has a decoder of its own behind the xHCI driver; its other
  side is the controller. Keys in `Rpc` are characters that are no dead keys; the
  decoders are in `Keyboard`.
- Audit trails of `fsd` and `synd`, which nothing reads back but their listings.
- Interrupt handlers other than the timer, and faults of ring-3 programs: any
  exception halts the machine (`isr.c`).
- What becomes of the system once a tick has cut a section, or of the kernel's heap once it is torn.
  In the ring-0 session ticks may also cut `kmalloc`, the PMM, the file system and the accounts in
  two; in the modules of those parts each call is one step, but for the hashes in `Sessao`.
- Programs started by the ring-0 shell (which does not wait for them) that use the kernel's accounts
  while a ring-0 command does: two hashes at once, an account deleted between `auth_verify` and
  `login_set_user`, a name checked against an account half made. `Sessao` has one client of the
  kernel's accounts at a time, with authd beside it.
- The bytes of ELF files (valid or not, and their segments, in `Oikos`) and program
  arguments; parsing of contracts and of command lines; listings; paths longer than
  a node's name.
- USB, xHCI, PCI, framebuffer, console, serial port, timers: their other side is
  hardware that the repository does not contain. Drawing and logging.
- The boot loader, which runs once under UEFI; cryptography, which is computation on
  words beyond what TLC can enumerate.
