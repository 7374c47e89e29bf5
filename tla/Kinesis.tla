------------------------------ MODULE Kinesis ------------------------------
(***************************************************************************)
(* Kinesis, the process table and scheduler of the kernel: creation, the   *)
(* round-robin switch, timer preemption, exit, waitpid and the collection  *)
(* of dead processes (src/src/kernel/proc.c), together with the two ways a *)
(* context is saved and resumed (ctxswitch.asm, the interrupt stub of      *)
(* idt.asm) and the first process, init.c.                                 *)
(*                                                                         *)
(* Slot 0 holds init, the only ring-0 process; every other slot is used by *)
(* ring-3 processes.  Ring 3 runs with interrupts on; the system calls     *)
(* that work on the process table enter through an interrupt gate and run  *)
(* with interrupts off, so each is one step up to the point where it gives *)
(* up the CPU.  (The calls that hash a password do not touch the table;    *)
(* they go on with interrupts on and are preempted like ring 3.)  Init,    *)
(* and a process that goes on inside proc_waitpid, run step by step,       *)
(* because IF may be set there: the timer stub may have set it             *)
(* (ResumedFlag), and a password hash always does (auth.c).                *)
(*                                                                         *)
(* The code has sections that a tick must not cut (Section): a process     *)
(* half built, a zombie half collected, a round of proc_waitpid's loop.    *)
(* When one does cut in, cut becomes TRUE and the model ends: what runs    *)
(* next uses a context that was not written or memory that was given back. *)
(*                                                                         *)
(* A kernel stack and an address space are named by the pid of the process *)
(* they were allocated for; 0 is the null pointer.                         *)
(***************************************************************************)
EXTENDS Integers, FiniteSets

CONSTANTS
  N,        \* MAX_PROCS
  MaxPid,   \* bound: pids handed out (next_pid is a uint32_t)
  Codes,    \* exit codes a program may give
  Kormi     \* how many boot services init starts

Err == -1      \* what proc_waitpid returns on error
None == -2
Slots == 0 .. N - 1
Users == Slots \ {0}
Pids == 1 .. MaxPid
States == {"READY", "RUNNING", "BLOCKED", "TERMINATED"}
Styles == {"new", "C", "IRQ"}

ASSUME TableAssumption == N \in Nat /\ N > 1
ASSUME PidAssumption == MaxPid \in Nat /\ Kormi \in Nat /\ Kormi + 2 <= MaxPid
ASSUME CodeAssumption == Codes \subseteq Nat

VARIABLES
  present, pid, state, parent, \* the PCB: procs[s].present ... procs[s].parent
  waitPid, waitCode,           \* procs[s].wait_pid, wait_code
  stack, cr3,                  \* procs[s].stack, procs[s].ctx.cr3
  ctx,       \* ctx.ran and ctx.style: never run, parked in C, parked by an interrupt
  frame,     \* the kernel stack that ctx.rsp or ctx.hw_rsp points into
  ifWas,     \* sched_switch's local if_was, for a process parked in C
  waiting,   \* the pid a process inside proc_waitpid waits for; 0: in ring 3
  current,   \* current_index and current_proc
  tss,       \* tss.rsp0: the stack an interrupt or system call from ring 3 lands on
  iflag,     \* RFLAGS.IF of the CPU
  nextPid,   \* next_pid
  heap, spaces, \* kernel stacks and address spaces allocated
  pc, loc,   \* init: where it is, and the slot it works on
  kormi,     \* init: services still to start
  session,   \* init: pid of the session process it watches
  shell,     \* init: it has given up on a session and runs the ring-0 shell
  inRound,   \* the process that has the CPU is inside a round of proc_waitpid's loop
  ret,       \* what proc_waitpid returned in the last step, if it did, and the child whose code
             \* was in the caller's PCB, if it waited for that child
  exited,    \* history: the code each pid exited with
  leaked,    \* history: IF was set in kernel code that had it clear
  cut        \* a tick came inside a section

pcb == <<present, pid, state, parent, waitPid, waitCode>>
mem == <<stack, cr3, heap, spaces>>
cpu == <<current, tss, iflag, ctx, frame, ifWas>>
initVars == <<pc, loc, kormi, session, shell>>
vars == <<pcb, mem, cpu, initVars, waiting, inRound, nextPid, ret, exited, leaked, cut>>

NoRet == [kid |-> 0, code |-> None]
Returned(k, c) == [kid |-> k, code |-> c]
-----------------------------------------------------------------------------
(***************************************************************************)
(* Looking things up in the process table.                                 *)
(***************************************************************************)
Zombie(s) == present[s] /\ state[s] = "TERMINATED"
Live(s) == present[s] /\ state[s] # "TERMINATED"

\* find_free: the lowest slot that is empty or holds a zombie
Free(s) == ~present[s] \/ state[s] = "TERMINATED"
FindFree(s) == Free(s) /\ \A t \in Slots : t < s => ~Free(t)

\* proc_get(p) = &procs[s]
ProcGet(p, s) == present[s] /\ pid[s] = p
Found(p) == \E s \in Slots : ProcGet(p, s)

\* How far the cyclic scan that starts at slot a goes before it meets slot b
Dist(a, b) == IF a <= b THEN b - a ELSE b - a + N

\* Faulty variant: the scan always starts at slot 0
NextReadyFromZero(st, pr, n) ==
  /\ pr[n] /\ st[n] = "READY"
  /\ \A m \in Slots : pr[m] /\ st[m] = "READY" => n <= m

\* next_ready_from(current_index + 1) = n, when the states are st
NextReady(st, pr, n) ==
  /\ pr[n] /\ st[n] = "READY"
  /\ \A m \in Slots :
       pr[m] /\ st[m] = "READY" => Dist((current + 1) % N, n) <= Dist((current + 1) % N, m)
NothingReady(st, pr) == \A m \in Slots : ~(pr[m] /\ st[m] = "READY")

\* The kernel code that has the CPU must not be interrupted here
Section == (current = 0 /\ pc \in {"claim", "build", "gc1", "gc2"}) \/ inRound

\* The kernel stack the CPU is on, or enters, when current goes into the kernel
KernelStack == IF current # 0 /\ waiting[current] = 0 THEN tss ELSE frame[current]
-----------------------------------------------------------------------------
\* Faulty variant: proc_exit resumes the next process without cli
ResumedFlagNoCli(to, how) ==
  IF ctx[to] = "IRQ" THEN {TRUE}
  ELSE IF ctx[to] = "new" THEN {to # 0}
  ELSE IF how = "switch" THEN {ifWas[to]} ELSE {how = "first"}

(***************************************************************************)
(* Giving the CPU to slot `to'.  how says which code resumes it:           *)
(* context_switch ("switch"), context_switch_first ("first") or the        *)
(* interrupt stub ("stub").                                                *)
(*                                                                         *)
(* A process parked by an interrupt and a ring-3 process that never ran    *)
(* are entered by iretq with IF set.  A process parked in C continues in   *)
(* sched_switch, which tests if_was, a local that the compiler keeps in    *)
(* r12.  context_switch reloads r12; context_switch_first clears it; the   *)
(* stub's .resume_c leaves there what the interrupted program had, which   *)
(* may be anything.                                                        *)
(***************************************************************************)
ResumedFlag(to, how) ==
  {b \in BOOLEAN :
     /\ ctx[to] = "IRQ" => b
     /\ ctx[to] = "new" => b = (to # 0)
     /\ ctx[to] = "C" /\ how = "switch" => b = ifWas[to]
     /\ ctx[to] = "C" /\ how = "first" => ~b}

\* Faulty variant: proc_exit forgets sched_prep
SwitchToNoPrep(to, how, ctxs) ==
  /\ current' = to
  /\ tss' = IF to # 0 /\ how # "first" THEN stack[to] ELSE tss
  /\ ctx' = IF ctxs[to] = "new" THEN [ctxs EXCEPT ![to] = "C"] ELSE ctxs
  /\ iflag' \in ResumedFlag(to, how)

\* sched_prep and the flip of current_proc; ctxs is ctx with the one that leaves parked
SwitchTo(to, how, ctxs) ==
  /\ current' = to
  /\ tss' = IF to # 0 THEN stack[to] ELSE tss
  /\ ctx' = IF ctxs[to] = "new" THEN [ctxs EXCEPT ![to] = "C"] ELSE ctxs
  /\ iflag' \in ResumedFlag(to, how)

\* The process that leaves is parked on the kernel stack it is on
Park(style, flag) ==
  /\ frame' = [frame EXCEPT ![current] = KernelStack]
  /\ ifWas' = [ifWas EXCEPT ![current] = (style = "C" /\ flag)]

\* Faulty variant: the process that gets the CPU keeps its state
SchedSwitchKeepsState(st, flag, n) ==
  /\ state' = [state EXCEPT ![current] = st]
  /\ Park("C", flag)
  /\ SwitchTo(n, "switch", [ctx EXCEPT ![current] = "C"])

\* sched_switch from a process whose state becomes st
SchedSwitch(st, flag, n) ==
  /\ state' = [state EXCEPT ![current] = st, ![n] = "RUNNING"]
  /\ Park("C", flag)
  /\ SwitchTo(n, "switch", [ctx EXCEPT ![current] = "C"])
-----------------------------------------------------------------------------
(***************************************************************************)
(* Creation: proc_create_user_regions up to the stack allocation (Claim),  *)
(* and the rest of it with proc_enter_user (Build).  The new process takes *)
(* pid nextPid.  Build ends well, or an allocation fails: the kernel stack *)
(* (-2), the page tables (-3), a segment's pages (-11) or the user stack   *)
(* (-5, which gives back the kernel stack and keeps the page tables).      *)
(***************************************************************************)
Outcomes == {"ok", "nostack", "nospace", "nopages", "nouser"}

Claim(s) ==
  /\ pid' = [pid EXCEPT ![s] = nextPid]
  /\ state' = [state EXCEPT ![s] = "READY"]
  /\ parent' = [parent EXCEPT ![s] = pid[current]]
  /\ waitPid' = [waitPid EXCEPT ![s] = 0]
  /\ waitCode' = [waitCode EXCEPT ![s] = 0]
  /\ nextPid' = nextPid + 1

\* Faulty variant: a recycled slot keeps the context of its last owner
BuildKeepsContext(s, p, o) ==
  /\ present' = [present EXCEPT ![s] = (o = "ok")]
  /\ stack' = [stack EXCEPT ![s] = IF o = "nostack" THEN 0 ELSE p]
  /\ cr3' = IF o \in {"nostack", "nospace"} THEN cr3 ELSE [cr3 EXCEPT ![s] = p]
  /\ heap' = IF o = "ok" THEN heap \cup {p} ELSE heap
  /\ spaces' = IF o \in {"ok", "nouser"} THEN spaces \cup {p} ELSE spaces
  /\ UNCHANGED <<ctx, frame>>

Build(s, p, o) ==
  /\ present' = [present EXCEPT ![s] = (o = "ok")]
  /\ stack' = [stack EXCEPT ![s] = IF o = "nostack" THEN 0 ELSE p]
  /\ cr3' = IF o \in {"nostack", "nospace"} THEN cr3 ELSE [cr3 EXCEPT ![s] = p]
  /\ heap' = IF o = "ok" THEN heap \cup {p} ELSE heap
  /\ spaces' = IF o \in {"ok", "nouser"} THEN spaces \cup {p} ELSE spaces
  /\ ctx' = IF o = "ok" THEN [ctx EXCEPT ![s] = "new"] ELSE ctx
  /\ frame' = IF o = "ok" THEN [frame EXCEPT ![s] = p] ELSE frame

(***************************************************************************)
(* proc_gc_run: every zombie gives back its kernel stack and, unless it is *)
(* the active one, its address space, and its slot becomes empty.          *)
(***************************************************************************)
Zombies == {s \in Slots : Zombie(s)}

\* Faulty variant: p->stack is not cleared and the slot is not given up
GcRunKeepsSlot ==
  /\ UNCHANGED <<present, stack, cr3>>
  /\ heap' = heap \ {stack[z] : z \in Zombies}
  /\ spaces' = spaces \ {cr3[z] : z \in Zombies}

GcRun ==
  LET others == {z \in Zombies : cr3[z] # cr3[current]}
  IN  /\ present' = [s \in Slots |-> present[s] /\ s \notin Zombies]
      /\ stack' = [s \in Slots |-> IF s \in Zombies THEN 0 ELSE stack[s]]
      /\ cr3' = [s \in Slots |-> IF s \in others THEN 0 ELSE cr3[s]]
      /\ heap' = heap \ {stack[z] : z \in Zombies}
      /\ spaces' = spaces \ {cr3[z] : z \in others}
-----------------------------------------------------------------------------
(***************************************************************************)
(* The timer interrupt: irq_common_handler, sched_preempt_pick and the     *)
(* switch in isr_common_stub.                                              *)
(***************************************************************************)
Preempt(n) ==
  /\ state' = [state EXCEPT ![current] = "READY", ![n] = "RUNNING"]
  /\ Park("IRQ", FALSE)
  /\ SwitchTo(n, "stub", [ctx EXCEPT ![current] = "IRQ"])

Tick ==
  /\ iflag /\ ~Section
  /\ GcRun
  /\ \E n \in Slots :
       /\ NextReady([state EXCEPT ![current] = "READY"], present', n)
       /\ IF n = current THEN UNCHANGED <<state, cpu>> ELSE Preempt(n)
       /\ leaked' = (leaked \/ (n # current /\ ctx[n] = "C" /\ iflag' /\ ~ifWas[n]))
  /\ ret' = NoRet
  /\ UNCHANGED <<pid, parent, waitPid, waitCode, initVars, waiting, inRound, nextPid, exited, cut>>

TickInSection ==
  /\ iflag /\ Section
  /\ cut' = TRUE
  /\ UNCHANGED <<pcb, mem, cpu, initVars, waiting, inRound, nextPid, ret, exited, leaked>>
-----------------------------------------------------------------------------
(***************************************************************************)
(* System calls of the ring-3 process that has the CPU.                    *)
(***************************************************************************)
InRing3 == current # 0 /\ waiting[current] = 0

\* SYS_EXEC: the last pid is kept for the session init has to start again
SysExec(o) ==
  /\ InRing3
  /\ nextPid < MaxPid
  /\ \E s \in Slots :
       /\ FindFree(s)
       /\ Claim(s)
       /\ Build(s, nextPid, o)
       /\ waiting' = [waiting EXCEPT ![s] = 0]
  /\ ret' = NoRet
  /\ UNCHANGED <<current, tss, iflag, ifWas, initVars, inRound, exited, leaked, cut>>

\* Faulty variant: the child's pid is recorded, the code of an earlier child kept
RecordExitOldCode(up, c) ==
  /\ waitPid' = [s \in Slots |-> IF s \in up THEN pid[current] ELSE waitPid[s]]
  /\ UNCHANGED waitCode

\* proc_exit leaves its pid and code in the parent's PCB
RecordExit(up, c) ==
  /\ waitPid' = [s \in Slots |-> IF s \in up THEN pid[current] ELSE waitPid[s]]
  /\ waitCode' = [s \in Slots |-> IF s \in up THEN c ELSE waitCode[s]]

\* SYS_EXIT.  The session exits only while a pid is left for the next one.
SysExit(c) ==
  /\ InRing3
  /\ pid[current] = session => nextPid <= MaxPid
  /\ LET up == {s \in Slots : ProcGet(parent[current], s)}
         woken == [s \in Slots |-> IF s = current THEN "TERMINATED"
                                   ELSE IF s \in up /\ state[s] = "BLOCKED" THEN "READY"
                                   ELSE state[s]]
     IN  /\ RecordExit(up, c)
         /\ \E n \in Slots :
              /\ NextReady(woken, present, n)
              /\ state' = [woken EXCEPT ![n] = "RUNNING"]
              /\ SwitchTo(n, "first", ctx)
  /\ exited' = [exited EXCEPT ![pid[current]] = c]
  /\ ret' = NoRet
  /\ UNCHANGED <<present, pid, parent, mem, frame, ifWas, initVars, waiting, inRound, nextPid, leaked,
                 cut>>

\* proc_waitpid returns to ring 3
WaitReturn(k, c) ==
  /\ ret' = Returned(IF waitPid[current] = k THEN k ELSE 0, c)
  /\ waiting' = [waiting EXCEPT ![current] = 0]
  /\ waitPid' = IF c = Err THEN waitPid ELSE [waitPid EXCEPT ![current] = 0]
  /\ iflag' = TRUE
  /\ inRound' = FALSE
  /\ UNCHANGED <<present, pid, state, parent, waitCode, mem, current, tss, ctx, frame, ifWas,
                 initVars, nextPid, exited, leaked, cut>>

\* sched_block inside proc_waitpid; with nothing ready it returns and the loop goes round
WaitBlock(k, flag) ==
  /\ ret' = NoRet
  /\ waiting' = [waiting EXCEPT ![current] = k]
  /\ LET st == [state EXCEPT ![current] = "BLOCKED"]
     IN  IF NothingReady(st, present)
         THEN /\ frame' = [frame EXCEPT ![current] = KernelStack]
              /\ iflag' = flag
              /\ UNCHANGED <<state, current, tss, ctx, ifWas>>
         ELSE \E n \in Slots : NextReady(st, present, n) /\ SchedSwitch("BLOCKED", flag, n)
  /\ inRound' = FALSE
  /\ UNCHANGED <<present, pid, parent, waitPid, waitCode, mem, initVars, nextPid, exited, leaked, cut>>

\* One round of the loop of proc_waitpid(k), entered with IF = flag
WaitRound(k, flag) ==
  \/ waitPid[current] = k /\ WaitReturn(k, waitCode[current])
  \/ /\ waitPid[current] # k
     /\ \E s \in Slots :
          /\ ProcGet(k, s)
          /\ IF Zombie(s) THEN WaitReturn(k, Err) ELSE WaitBlock(k, flag)

\* The same with kid == NULL, when k was collected meanwhile: what the code reads through the
\* null pointer is unspecified, so it takes the child for gone or for alive
NullKid(k, flag) ==
  /\ waitPid[current] # k
  /\ ~Found(k)
  /\ WaitReturn(k, Err) \/ WaitBlock(k, flag)

\* SYS_WAITPID
SysWait(k) ==
  /\ InRing3
  /\ IF \E s \in Slots : ProcGet(k, s) /\ parent[s] = pid[current]
     THEN WaitRound(k, FALSE)
     ELSE WaitReturn(k, Err)

\* A process that was parked inside proc_waitpid goes on with its loop
WaitBegin ==
  /\ current # 0 /\ waiting[current] # 0 /\ ~inRound
  /\ inRound' = TRUE
  /\ ret' = NoRet
  /\ UNCHANGED <<pcb, mem, cpu, initVars, waiting, nextPid, exited, leaked, cut>>

WaitResume ==
  /\ inRound
  /\ WaitRound(waiting[current], iflag) \/ NullKid(waiting[current], iflag)

\* SYS_IPC_SEND and SYS_IPC_REPLY, as far as the scheduler sees them: sched_wakeup(k) makes a
\* blocked process ready, although a process in proc_waitpid waits for something else
SysSend(k) ==
  /\ InRing3
  /\ state' = [s \in Slots |-> IF ProcGet(k, s) /\ state[s] = "BLOCKED" THEN "READY" ELSE state[s]]
  /\ ret' = NoRet
  /\ UNCHANGED <<present, pid, parent, waitPid, waitCode, mem, cpu, initVars, waiting, inRound, nextPid,
                 exited, leaked, cut>>
-----------------------------------------------------------------------------
(***************************************************************************)
(* Init: kormi_start and session_entry, which starts the session again and *)
(* again and watches it.  When it cannot be started init runs the ring-0   *)
(* login and shell itself, for ever.                                       *)
(***************************************************************************)
AtInit(where) == current = 0 /\ pc = where
InitOnly == ret' = NoRet /\ UNCHANGED <<inRound, exited, cut>>

\* Faulty variant: the count of services goes below zero
InitGoesOnUnderflow == kormi' = kormi - 1 /\ pc' = "spawn" /\ loc' = 0

\* What follows a spawn, but for the session's when it succeeds
InitGoesOn ==
  /\ pc' = IF kormi > 0 THEN "spawn" ELSE IF shell THEN "gc" ELSE "login"
  /\ kormi' = IF kormi > 0 THEN kormi - 1 ELSE kormi
  /\ loc' = 0

\* find_free
InitFind ==
  /\ AtInit("spawn")
  /\ nextPid <= MaxPid
  /\ IF \A s \in Slots : ~Free(s)
     THEN InitGoesOn
     ELSE /\ \E s \in Slots : FindFree(s) /\ loc' = s
          /\ pc' = "claim"
          /\ UNCHANGED kormi
  /\ InitOnly
  /\ UNCHANGED <<pcb, mem, cpu, session, shell, waiting, nextPid, leaked>>

InitClaim ==
  /\ AtInit("claim")
  /\ Claim(loc)
  /\ present' = [present EXCEPT ![loc] = TRUE]
  /\ waiting' = [waiting EXCEPT ![loc] = 0]
  /\ pc' = "build"
  /\ InitOnly
  /\ UNCHANGED <<mem, cpu, loc, kormi, session, shell, leaked>>

InitBuild(o) ==
  /\ AtInit("build")
  /\ Build(loc, pid[loc], o)
  /\ IF o # "ok" \/ kormi > 0 \/ shell
     THEN InitGoesOn /\ UNCHANGED session
     ELSE session' = pid[loc] /\ pc' = "watch" /\ UNCHANGED <<loc, kormi>>
  /\ InitOnly
  /\ UNCHANGED <<pid, state, parent, waitPid, waitCode, current, tss, iflag, ifWas, shell, waiting,
                 nextPid, leaked>>

InitWatch ==
  /\ AtInit("watch")
  /\ pc' = IF Found(session) THEN "gc" ELSE "spawn"
  /\ loc' = 0
  /\ InitOnly
  /\ UNCHANGED <<pcb, mem, cpu, kormi, session, shell, waiting, nextPid, leaked>>

\* proc_gc_run, called by sched_yield: it looks at slot after slot and collects a zombie in the
\* steps that an interrupt could part
InitGcScan ==
  /\ AtInit("gc") /\ loc < N
  /\ IF Zombie(loc) THEN pc' = "gc1" /\ UNCHANGED loc ELSE loc' = loc + 1 /\ UNCHANGED pc
  /\ InitOnly
  /\ UNCHANGED <<pcb, mem, cpu, kormi, session, shell, waiting, nextPid, leaked>>

InitGcFree ==
  /\ AtInit("gc1")
  /\ heap' = heap \ {stack[loc]}
  /\ pc' = "gc2"
  /\ InitOnly
  /\ UNCHANGED <<pcb, stack, cr3, spaces, cpu, loc, kormi, session, shell, waiting, nextPid, leaked>>

InitGcClear ==
  /\ AtInit("gc2")
  /\ stack' = [stack EXCEPT ![loc] = 0]
  /\ IF cr3[loc] # cr3[0]
     THEN cr3' = [cr3 EXCEPT ![loc] = 0] /\ spaces' = spaces \ {cr3[loc]}
     ELSE UNCHANGED <<cr3, spaces>>
  /\ present' = [present EXCEPT ![loc] = FALSE]
  /\ pc' = "gc" /\ loc' = loc + 1
  /\ InitOnly
  /\ UNCHANGED <<pid, state, parent, waitPid, waitCode, heap, cpu, kormi, session, shell, waiting,
                 nextPid, leaked>>

\* Faulty variant: init blocks instead of yielding
InitYieldBlocks ==
  /\ AtInit("gc") /\ loc = N
  /\ \E n \in Slots :
       /\ NextReady([state EXCEPT ![current] = "READY"], present, n)
       /\ IF n = current THEN UNCHANGED <<state, cpu>> ELSE SchedSwitch("BLOCKED", iflag, n)
  /\ pc' = IF shell THEN "shell" ELSE "watch"
  /\ InitOnly
  /\ UNCHANGED <<present, pid, parent, waitPid, waitCode, mem, loc, kormi, session, shell, waiting,
                 nextPid, leaked>>

\* The rest of sched_yield.  Once init is marked READY a tick only collects (sched_preempt_pick).
InitYield ==
  /\ AtInit("gc") /\ loc = N
  /\ \E n \in Slots :
       /\ NextReady([state EXCEPT ![current] = "READY"], present, n)
       /\ IF n = current THEN UNCHANGED <<state, cpu>> ELSE SchedSwitch("READY", iflag, n)
  /\ (iflag /\ GcRun) \/ UNCHANGED <<present, mem>>
  /\ pc' = IF shell THEN "shell" ELSE "watch"
  /\ InitOnly
  /\ UNCHANGED <<pid, parent, waitPid, waitCode, loc, kormi, session, shell, waiting, nextPid, leaked>>

\* auth_hash_password ends with enable_interrupts, whatever IF was
HashPassword ==
  /\ iflag' = TRUE
  /\ leaked' = TRUE
  /\ UNCHANGED <<current, tss, ctx, frame, ifWas>>

\* login_main: a password is hashed for a new account or for a login, which fails or succeeds.
\* The first login leads to the prompt, one after "exit" back to the shell's loop.
InitLogin ==
  /\ AtInit("login")
  /\ HashPassword
  /\ \/ UNCHANGED <<pc, shell>>
     \/ pc' = (IF shell THEN "gc" ELSE "shell") /\ shell' = TRUE
  /\ loc' = 0
  /\ InitOnly
  /\ UNCHANGED <<pcb, mem, kormi, session, waiting, nextPid>>

\* thais_exec_line: "praxia" starts a program, "exit" goes back to the login, "passwd" and
\* "useradd" hash a password, the others leave the process table alone; then comes the yield
InitShell ==
  /\ AtInit("shell")
  /\ \/ pc' = "spawn" /\ nextPid <= MaxPid /\ UNCHANGED <<cpu, leaked>>
     \/ pc' \in {"login", "gc"} /\ UNCHANGED <<cpu, leaked>>
     \/ pc' = "gc" /\ HashPassword
  /\ loc' = 0
  /\ InitOnly
  /\ UNCHANGED <<pcb, mem, kormi, session, shell, waiting, nextPid>>
-----------------------------------------------------------------------------
\* What proc_init, init_start and sched_run_first leave: init has the CPU, interrupts off
Init ==
  /\ present = [s \in Slots |-> s = 0]
  /\ pid = [s \in Slots |-> IF s = 0 THEN 1 ELSE 0]
  /\ state = [s \in Slots |-> IF s = 0 THEN "RUNNING" ELSE "READY"]
  /\ parent = [s \in Slots |-> 0]
  /\ waitPid = [s \in Slots |-> 0]
  /\ waitCode = [s \in Slots |-> 0]
  /\ stack = [s \in Slots |-> IF s = 0 THEN 1 ELSE 0]
  /\ cr3 = [s \in Slots |-> IF s = 0 THEN 1 ELSE 0]
  /\ ctx = [s \in Slots |-> "C"]
  /\ frame = [s \in Slots |-> IF s = 0 THEN 1 ELSE 0]
  /\ ifWas = [s \in Slots |-> FALSE]
  /\ waiting = [s \in Slots |-> 0]
  /\ current = 0
  /\ tss = 0
  /\ iflag = FALSE
  /\ nextPid = 2
  /\ heap = {1}
  /\ spaces = {1}
  /\ pc = "spawn" /\ loc = 0 /\ kormi = Kormi /\ session = 0 /\ shell = FALSE
  /\ inRound = FALSE /\ leaked = FALSE /\ cut = FALSE
  /\ ret = NoRet
  /\ exited = [p \in Pids |-> None]

InitStep ==
  \/ InitFind
  \/ InitClaim
  \/ \E o \in Outcomes : InitBuild(o)
  \/ InitWatch
  \/ InitGcScan
  \/ InitGcFree
  \/ InitGcClear
  \/ InitYield

Kernel ==
  \/ Tick
  \/ TickInSection
  \/ \E o \in Outcomes : SysExec(o)
  \/ \E c \in Codes : SysExit(c)
  \/ \E k \in Pids : SysWait(k) \/ SysSend(k)
  \/ WaitBegin
  \/ WaitResume
  \/ InitStep
  \/ InitLogin
  \/ InitShell

Next == IF cut THEN UNCHANGED vars ELSE Kernel

Spec == Init /\ [][Next]_vars

(***************************************************************************)
(* The timer keeps ticking, and a CPU that is in the kernel keeps running  *)
(* kernel code: nothing else is assumed of any program, or of the user at  *)
(* the keyboard of the ring-0 shell.                                       *)
(***************************************************************************)
Fairness ==
  /\ WF_vars(~cut /\ Tick)
  /\ WF_vars(~cut /\ (WaitBegin \/ WaitResume))
  /\ WF_vars(~cut /\ InitStep)
FairSpec == Spec /\ Fairness
-----------------------------------------------------------------------------
(***************************************************************************)
(* Properties.                                                             *)
(***************************************************************************)
\* Every variable keeps its type
TypeOK ==
  /\ present \in [Slots -> BOOLEAN]
  /\ pid \in [Slots -> 0 .. MaxPid]
  /\ state \in [Slots -> States]
  /\ parent \in [Slots -> 0 .. MaxPid]
  /\ waitPid \in [Slots -> 0 .. MaxPid]
  /\ waitCode \in [Slots -> Codes \cup {0}]
  /\ stack \in [Slots -> 0 .. MaxPid]
  /\ cr3 \in [Slots -> 0 .. MaxPid]
  /\ ctx \in [Slots -> Styles]
  /\ frame \in [Slots -> 0 .. MaxPid]
  /\ ifWas \in [Slots -> BOOLEAN]
  /\ waiting \in [Slots -> 0 .. MaxPid]
  /\ current \in Slots
  /\ tss \in 0 .. MaxPid
  /\ iflag \in BOOLEAN
  /\ nextPid \in 2 .. MaxPid + 1
  /\ heap \subseteq Pids
  /\ spaces \subseteq Pids
  /\ pc \in {"spawn", "claim", "build", "watch", "gc", "gc1", "gc2", "login", "shell"}
  /\ loc \in 0 .. N
  /\ kormi \in 0 .. Kormi
  /\ session \in 0 .. MaxPid
  /\ shell \in BOOLEAN /\ inRound \in BOOLEAN /\ leaked \in BOOLEAN /\ cut \in BOOLEAN
  /\ ret \in [kid : 0 .. MaxPid, code : Codes \cup {0, Err, None}]
  /\ exited \in [Pids -> Codes \cup {None}]

\* The process that has the CPU is the only one marked RUNNING: no switch, exit, block,
\* preemption or collection leaves two of them, none, or another one (current_proc->state)
CurrentRuns ==
  \A s \in Slots : (present[s] /\ state[s] = "RUNNING") <=> s = current

\* The slot init has claimed and not yet built
Claimed == IF pc = "build" THEN {loc} ELSE {}

\* Every process that may still get the CPU has its kernel stack and address space, and one
\* that waits for the CPU is parked on its own kernel stack (what isr_park_check looks for)
FramesLive ==
  \A s \in Slots \ Claimed :
    Live(s) => /\ stack[s] \in heap
               /\ cr3[s] \in spaces
               /\ s # current => frame[s] = stack[s]

\* Ticks, with proc_gc_run in them, also come while init collects zombies itself or builds a
\* process, and while the ring-0 shell runs: outside the sections everything that a tick would
\* free is still allocated
NoDoubleFree ==
  iflag /\ ~Section =>
    \A s \in Slots : Zombie(s) => /\ stack[s] # 0 => stack[s] \in heap
                                  /\ cr3[s] # 0 => cr3[s] \in spaces

\* Interrupts and system calls of the ring-3 process that has the CPU land on its own stack
TssOwnStack == current # 0 => tss = stack[current]

\* Kernel code that may be switched away from is interrupted in two cases only: after the timer
\* stub resumed a process with another program's r12, or after the ring-0 session hashed a
\* password.  Until then IF is off in init and in proc_waitpid's loop, and no section is cut.
MaskedUntilLeak ==
  ~leaked => ~cut /\ (current = 0 \/ waiting[current] # 0 => ~iflag)

\* Init is always ready when another process has the CPU, so sched_block never finds nothing
\* ready and proc_exit never halts the machine
InitReady == current # 0 => present[0] /\ state[0] = "READY"

\* An exit code that proc_waitpid returns is the one that very child exited with
WaitCodeTrue == ret.code \notin {Err, None} => exited[ret.kid] = ret.code

\* A ready process gets the CPU, whatever the others do, unless a section is cut or init is in
\* its ring-0 session, which polls the keyboard with interrupts as they happen to be
StarvationFree ==
  \A s \in Slots :
    (present[s] /\ state[s] = "READY") ~> (current = s \/ cut \/ pc = "login" \/ shell)

\* What sched_switch's comment says: on return IF is restored as it was on entry
IfRestored ==
  [][current' # current /\ ctx[current'] = "C" => iflag' = ifWas[current']]_vars

\* What proc_exit's comment says: the exit code it wrote in the parent's PCB is there for the
\* parent's waitpid even after the child was collected
WaitGetsCode == ret.code = Err => ret.kid = 0
=============================================================================
