--------------------------- MODULE KinesisProofs ---------------------------
(***************************************************************************)
(* Proofs about Kinesis, for every size of the process table, every number *)
(* of services and every set of exit codes.                                *)
(***************************************************************************)
EXTENDS Kinesis, TLAPS

\* Where init builds or collects a process
Work == {"claim", "build", "gc1", "gc2"}

\* Who has the CPU: exactly one slot is marked RUNNING, init is alive and never blocked, the
\* slot init builds or collects is not its own, and it has the CPU while it does
Solo ==
  /\ \A s \in Slots : state[s] = "RUNNING" <=> s = current
  /\ present[current]
  /\ present[0] /\ state[0] \in {"READY", "RUNNING"}
  /\ pc \in Work => current = 0 /\ loc \in Slots /\ loc # 0
  /\ pc = "claim" => Free(loc) /\ nextPid <= MaxPid
  /\ pc = "build" => pid[loc] # 0
  /\ inRound => current # 0 /\ waiting[current] # 0

SoloInv == TypeOK /\ Solo

\* A resumed process finds a Boolean in IF
LEMMA ResumedFlagType ==
  ASSUME TypeOK, NEW to \in Slots, NEW how \in {"switch", "first", "stub"}
  PROVE  ResumedFlag(to, how) \subseteq BOOLEAN
BY DEF ResumedFlag

\* Switching the CPU from the current slot keeps the types of the CPU's state
LEMMA SwitchType ==
  ASSUME TypeOK, NEW n \in Slots, NEW how \in {"switch", "first", "stub"},
         NEW ctxs \in [Slots -> Styles], SwitchTo(n, how, ctxs)
  PROVE  /\ current' = n
         /\ tss' \in 0 .. MaxPid
         /\ ctx' \in [Slots -> Styles]
         /\ iflag' \in BOOLEAN
BY ResumedFlagType DEF SwitchTo, TypeOK, Styles

LEMMA ParkType ==
  ASSUME TypeOK, NEW style, NEW flag \in BOOLEAN, Park(style, flag)
  PROVE  frame' \in [Slots -> 0 .. MaxPid] /\ ifWas' \in [Slots -> BOOLEAN]
BY DEF Park, KernelStack, TypeOK

LEMMA NoRetType == NoRet \in [kid : 0 .. MaxPid, code : Codes \cup {0, Err, None}]
BY PidAssumption DEF NoRet

LEMMA SlotZero == 0 \in Slots
BY TableAssumption DEF Slots

LEMMA SoloInit == Init => SoloInv
<1> SUFFICES ASSUME Init PROVE SoloInv
  OBVIOUS
<1>1. TypeOK
  <2>1. /\ pid \in [Slots -> 0 .. MaxPid]
        /\ stack \in [Slots -> 0 .. MaxPid]
        /\ cr3 \in [Slots -> 0 .. MaxPid]
        /\ frame \in [Slots -> 0 .. MaxPid]
        /\ heap \subseteq Pids /\ spaces \subseteq Pids
    BY PidAssumption DEF Init, Pids
  <2>2. /\ present \in [Slots -> BOOLEAN]
        /\ state \in [Slots -> States]
        /\ ctx \in [Slots -> Styles]
        /\ ifWas \in [Slots -> BOOLEAN]
    BY DEF Init, States, Styles
  <2>3. /\ parent \in [Slots -> 0 .. MaxPid]
        /\ waitPid \in [Slots -> 0 .. MaxPid]
        /\ waitCode \in [Slots -> Codes \cup {0}]
        /\ waiting \in [Slots -> 0 .. MaxPid]
        /\ exited \in [Pids -> Codes \cup {None}]
    BY PidAssumption DEF Init
  <2>4. /\ current \in Slots /\ loc \in 0 .. N
        /\ tss \in 0 .. MaxPid /\ session \in 0 .. MaxPid
        /\ nextPid \in 2 .. MaxPid + 1 /\ kormi \in 0 .. Kormi
    BY SlotZero, TableAssumption, PidAssumption DEF Init
  <2>5. /\ iflag \in BOOLEAN /\ pc = "spawn"
        /\ shell \in BOOLEAN /\ inRound \in BOOLEAN /\ leaked \in BOOLEAN /\ cut \in BOOLEAN
    BY DEF Init
  <2>6. ret \in [kid : 0 .. MaxPid, code : Codes \cup {0, Err, None}]
    BY NoRetType DEF Init
  <2> QED BY <2>1, <2>2, <2>3, <2>4, <2>5, <2>6 DEF TypeOK
<1>2. Solo
  BY SlotZero DEF Init, Solo, Work
<1> QED BY <1>1, <1>2 DEF SoloInv

\* Collecting keeps the types of the table and of the memory
LEMMA GcRunType ==
  ASSUME TypeOK, GcRun
  PROVE  /\ present' \in [Slots -> BOOLEAN]
         /\ stack' \in [Slots -> 0 .. MaxPid]
         /\ cr3' \in [Slots -> 0 .. MaxPid]
         /\ heap' \subseteq Pids
         /\ spaces' \subseteq Pids
BY PidAssumption DEF GcRun, TypeOK

LEMMA SoloTick == SoloInv /\ Tick => SoloInv'
<1> SUFFICES ASSUME SoloInv, Tick PROVE SoloInv'
  OBVIOUS
<1> USE DEF SoloInv
<1>1. PICK n \in Slots :
        /\ NextReady([state EXCEPT ![current] = "READY"], present', n)
        /\ IF n = current THEN UNCHANGED <<state, cpu>> ELSE Preempt(n)
  BY DEF Tick
<1>2. /\ present' = [s \in Slots |-> present[s] /\ s \notin Zombies]
      /\ present'[n]
      /\ [state EXCEPT ![current] = "READY"][n] = "READY"
  BY <1>1 DEF Tick, GcRun, NextReady
<1>3. /\ present' \in [Slots -> BOOLEAN]
      /\ stack' \in [Slots -> 0 .. MaxPid]
      /\ cr3' \in [Slots -> 0 .. MaxPid]
      /\ heap' \subseteq Pids
      /\ spaces' \subseteq Pids
  BY GcRunType DEF Tick
<1>4. /\ state' \in [Slots -> States]
      /\ current' = n
      /\ tss' \in 0 .. MaxPid /\ iflag' \in BOOLEAN /\ ctx' \in [Slots -> Styles]
      /\ frame' \in [Slots -> 0 .. MaxPid] /\ ifWas' \in [Slots -> BOOLEAN]
      /\ \A s \in Slots : state'[s] = "RUNNING" <=> s = n
      /\ state'[0] \in {"READY", "RUNNING"}
  <2>1. CASE n = current
    BY <1>1, <2>1 DEF cpu, TypeOK, Solo
  <2>2. CASE n # current
    <3>1. Preempt(n)
      BY <1>1, <2>2
    <3>2. [ctx EXCEPT ![current] = "IRQ"] \in [Slots -> Styles]
      BY DEF TypeOK, Styles
    <3>3. SwitchTo(n, "stub", [ctx EXCEPT ![current] = "IRQ"]) /\ Park("IRQ", FALSE)
      BY <3>1 DEF Preempt
    <3>4. state' = [state EXCEPT ![current] = "READY", ![n] = "RUNNING"]
      BY <3>1 DEF Preempt
    <3>5. /\ state' \in [Slots -> States]
          /\ \A s \in Slots : state'[s] = "RUNNING" <=> s = n
          /\ state'[0] \in {"READY", "RUNNING"}
      BY <3>4, <2>2, SlotZero DEF TypeOK, Solo, States
    <3> QED BY <3>2, <3>3, <3>5, SwitchType, ParkType
  <2> QED BY <2>1, <2>2
<1>5. TypeOK'
  <2>1. leaked' \in BOOLEAN
    BY DEF Tick
  <2> QED BY <1>3, <1>4, <2>1, NoRetType DEF Tick, TypeOK, initVars
<1>6. Solo'
  <2>1. pc \notin Work /\ ~inRound
    BY DEF Tick, Section, Solo, Work
  <2>2. pc' \notin Work /\ ~inRound'
    BY <2>1 DEF Tick, initVars
  <2>3. pc' # "claim" /\ pc' # "build"
    BY <2>2 DEF Work
  <2> QED BY <1>2, <1>4, <2>2, <2>3, SlotZero DEF Solo, Zombies, Zombie, TypeOK
<1> QED BY <1>5, <1>6

\* A free slot is neither init's nor that of the process which has the CPU
LEMMA FreeSlot ==
  ASSUME SoloInv, NEW s \in Slots, Free(s)
  PROVE  s # 0 /\ s # current
BY SlotZero DEF SoloInv, Solo, Free, TypeOK

LEMMA ClaimType ==
  ASSUME TypeOK, nextPid <= MaxPid, NEW s \in Slots, Claim(s)
  PROVE  /\ pid' \in [Slots -> 0 .. MaxPid]
         /\ state' \in [Slots -> States]
         /\ parent' \in [Slots -> 0 .. MaxPid]
         /\ waitPid' \in [Slots -> 0 .. MaxPid]
         /\ waitCode' \in [Slots -> Codes \cup {0}]
         /\ nextPid' \in 2 .. MaxPid + 1
BY PidAssumption DEF Claim, TypeOK, States

LEMMA BuildType ==
  ASSUME TypeOK, NEW s \in Slots, NEW p \in Pids, NEW o \in Outcomes, Build(s, p, o)
  PROVE  /\ present' \in [Slots -> BOOLEAN]
         /\ stack' \in [Slots -> 0 .. MaxPid]
         /\ cr3' \in [Slots -> 0 .. MaxPid]
         /\ heap' \subseteq Pids
         /\ spaces' \subseteq Pids
         /\ ctx' \in [Slots -> Styles]
         /\ frame' \in [Slots -> 0 .. MaxPid]
<1>1. p \in 0 .. MaxPid /\ 0 \in 0 .. MaxPid
  BY PidAssumption DEF Pids
<1>2. /\ present' \in [Slots -> BOOLEAN]
      /\ stack' \in [Slots -> 0 .. MaxPid]
  BY <1>1 DEF Build, TypeOK
<1>3. cr3' \in [Slots -> 0 .. MaxPid]
  BY <1>1 DEF Build, TypeOK
<1>4. heap' \subseteq Pids /\ spaces' \subseteq Pids
  BY DEF Build, TypeOK
<1>5. ctx' \in [Slots -> Styles] /\ frame' \in [Slots -> 0 .. MaxPid]
  BY <1>1 DEF Build, TypeOK, Styles
<1> QED BY <1>2, <1>3, <1>4, <1>5

LEMMA SoloExec == ASSUME NEW o \in Outcomes, SoloInv, SysExec(o) PROVE SoloInv'
<1> USE DEF SoloInv
<1>1. PICK s \in Slots : /\ FindFree(s)
                         /\ Claim(s)
                         /\ Build(s, nextPid, o)
                         /\ waiting' = [waiting EXCEPT ![s] = 0]
  BY DEF SysExec
<1>2. s # 0 /\ s # current
  BY <1>1, FreeSlot DEF FindFree
<1>3. nextPid \in Pids /\ nextPid <= MaxPid
  BY PidAssumption DEF SysExec, TypeOK, Pids
<1>4. TypeOK'
  BY <1>1, <1>3, ClaimType, BuildType, NoRetType, PidAssumption
     DEF SysExec, TypeOK, initVars
<1>5. Solo'
  <2>1. \A t \in Slots : t # s => present'[t] = present[t] /\ state'[t] = state[t]
    BY <1>1 DEF Claim, Build, TypeOK
  <2>2. state'[s] = "READY" /\ pid'[s] # 0 /\ \A t \in Slots : t # s => pid'[t] = pid[t]
    BY <1>1, <1>3 DEF Claim, TypeOK, Pids
  <2>3. UNCHANGED <<current, pc, loc, inRound>> /\ current # 0 /\ ~inRound
    BY DEF SysExec, InRing3, initVars, Solo
  <2>4. pc \notin Work /\ pc # "claim" /\ pc # "build"
    BY <2>3 DEF Solo, Work
  <2> QED BY <1>2, <2>1, <2>2, <2>3, <2>4, SlotZero DEF Solo, TypeOK
<1> QED BY <1>4, <1>5

LEMMA SoloExit == ASSUME NEW c \in Codes, SoloInv, SysExit(c) PROVE SoloInv'
<1> USE DEF SoloInv
<1> DEFINE up == {s \in Slots : ProcGet(parent[current], s)}
           woken == [s \in Slots |-> IF s = current THEN "TERMINATED"
                                     ELSE IF s \in up /\ state[s] = "BLOCKED" THEN "READY"
                                     ELSE state[s]]
<1>1. PICK n \in Slots : /\ NextReady(woken, present, n)
                         /\ state' = [woken EXCEPT ![n] = "RUNNING"]
                         /\ SwitchTo(n, "first", ctx)
  BY DEF SysExit
<1>2. present[n] /\ n # current /\ current # 0
  BY <1>1 DEF NextReady, SysExit, InRing3, TypeOK
<1>3. /\ waitPid' \in [Slots -> 0 .. MaxPid]
      /\ waitCode' \in [Slots -> Codes \cup {0}]
  BY DEF SysExit, RecordExit, TypeOK
<1>4. /\ state' \in [Slots -> States]
      /\ \A s \in Slots : state'[s] = "RUNNING" <=> s = n
      /\ state'[0] \in {"READY", "RUNNING"}
  BY <1>1, <1>2, SlotZero DEF TypeOK, Solo, States
<1>5. /\ current' = n
      /\ tss' \in 0 .. MaxPid /\ iflag' \in BOOLEAN /\ ctx' \in [Slots -> Styles]
  BY <1>1, SwitchType DEF TypeOK
<1>6. exited' \in [Pids -> Codes \cup {None}]
  BY DEF SysExit, TypeOK
<1>7. TypeOK'
  BY <1>3, <1>4, <1>5, <1>6, NoRetType DEF SysExit, TypeOK, initVars, mem
<1>8. Solo'
  <2>1. UNCHANGED <<present, pc, loc, inRound>> /\ ~inRound
    BY DEF SysExit, InRing3, initVars, Solo
  <2>2. pc \notin Work /\ pc # "claim" /\ pc # "build"
    BY <1>2 DEF Solo, Work
  <2> QED BY <1>2, <1>4, <1>5, <2>1, <2>2 DEF Solo
<1> QED BY <1>7, <1>8

LEMMA SoloWaitReturn ==
  ASSUME NEW k \in 0 .. MaxPid, NEW c \in Codes \cup {0, Err}, SoloInv, current # 0,
         WaitReturn(k, c)
  PROVE  SoloInv'
<1>1. ret' \in [kid : 0 .. MaxPid, code : Codes \cup {0, Err, None}]
  BY PidAssumption DEF WaitReturn, Returned
<1>2. TypeOK'
  <2>1. /\ waiting' \in [Slots -> 0 .. MaxPid]
        /\ waitPid' \in [Slots -> 0 .. MaxPid]
    <3>1. 0 \in 0 .. MaxPid
      BY PidAssumption
    <3> QED BY <3>1 DEF SoloInv, WaitReturn, TypeOK
  <2>2. iflag' \in BOOLEAN /\ inRound' \in BOOLEAN
    BY DEF WaitReturn
  <2> QED BY <1>1, <2>1, <2>2 DEF SoloInv, WaitReturn, TypeOK, initVars, mem
<1>3. Solo'
  <2>1. /\ UNCHANGED <<present, pid, state, current, pc, loc>>
        /\ inRound' = FALSE
    BY DEF WaitReturn, initVars
  <2>2. pc \notin Work /\ pc # "claim" /\ pc # "build"
    BY DEF SoloInv, Solo, Work
  <2> QED BY <2>1, <2>2 DEF SoloInv, Solo
<1> QED BY <1>2, <1>3 DEF SoloInv

LEMMA SoloSchedSwitch ==
  ASSUME NEW st \in {"READY", "BLOCKED"}, NEW flag \in BOOLEAN, NEW n \in Slots,
         SoloInv, current = 0 => st = "READY", n # current, state[n] = "READY",
         SchedSwitch(st, flag, n)
  PROVE  /\ state' \in [Slots -> States]
         /\ current' = n
         /\ tss' \in 0 .. MaxPid /\ iflag' \in BOOLEAN /\ ctx' \in [Slots -> Styles]
         /\ frame' \in [Slots -> 0 .. MaxPid] /\ ifWas' \in [Slots -> BOOLEAN]
         /\ \A s \in Slots : state'[s] = "RUNNING" <=> s = n
         /\ state'[0] \in {"READY", "RUNNING"}
<1>1. [ctx EXCEPT ![current] = "C"] \in [Slots -> Styles]
  BY DEF SoloInv, TypeOK, Styles
<1>2. /\ SwitchTo(n, "switch", [ctx EXCEPT ![current] = "C"])
      /\ Park("C", flag)
      /\ state' = [state EXCEPT ![current] = st, ![n] = "RUNNING"]
  BY DEF SchedSwitch
<1>3. /\ state' \in [Slots -> States]
      /\ \A s \in Slots : state'[s] = "RUNNING" <=> s = n
      /\ state'[0] \in {"READY", "RUNNING"}
  BY <1>2, SlotZero DEF SoloInv, TypeOK, Solo, States
<1> QED BY <1>1, <1>2, <1>3, SwitchType, ParkType DEF SoloInv

LEMMA SoloWaitBlock ==
  ASSUME NEW k \in 0 .. MaxPid, NEW flag \in BOOLEAN, SoloInv, current # 0, WaitBlock(k, flag)
  PROVE  SoloInv'
<1> USE DEF SoloInv
<1> DEFINE st == [state EXCEPT ![current] = "BLOCKED"]
<1>1. st[0] = "READY" /\ present[0]
  BY SlotZero DEF Solo, TypeOK
<1>2. ~NothingReady(st, present)
  BY <1>1, SlotZero DEF NothingReady
<1>3. PICK n \in Slots : NextReady(st, present, n) /\ SchedSwitch("BLOCKED", flag, n)
  BY <1>2 DEF WaitBlock
<1>4. present[n] /\ n # current /\ state[n] = "READY"
  BY <1>3 DEF NextReady, TypeOK
<1>5. /\ state' \in [Slots -> States]
      /\ current' = n
      /\ tss' \in 0 .. MaxPid /\ iflag' \in BOOLEAN /\ ctx' \in [Slots -> Styles]
      /\ frame' \in [Slots -> 0 .. MaxPid] /\ ifWas' \in [Slots -> BOOLEAN]
      /\ \A s \in Slots : state'[s] = "RUNNING" <=> s = n
      /\ state'[0] \in {"READY", "RUNNING"}
  BY <1>3, <1>4, SoloSchedSwitch
<1>6. waiting' \in [Slots -> 0 .. MaxPid]
  BY DEF WaitBlock, TypeOK
<1>7. TypeOK'
  BY <1>5, <1>6, NoRetType DEF WaitBlock, TypeOK, initVars, mem
<1>8. Solo'
  <2>1. UNCHANGED <<present, pid, pc, loc>> /\ inRound' = FALSE
    BY DEF WaitBlock, initVars
  <2>2. pc \notin Work /\ pc # "claim" /\ pc # "build"
    BY DEF Solo, Work
  <2> QED BY <1>4, <1>5, <2>1, <2>2 DEF Solo
<1> QED BY <1>7, <1>8

LEMMA SoloWaitRound ==
  ASSUME NEW k \in 0 .. MaxPid, NEW flag \in BOOLEAN, SoloInv, current # 0,
         WaitRound(k, flag) \/ NullKid(k, flag)
  PROVE  SoloInv'
<1>1. waitCode[current] \in Codes \cup {0, Err} /\ Err \in Codes \cup {0, Err}
  BY DEF SoloInv, TypeOK
<1> QED BY <1>1, SoloWaitReturn, SoloWaitBlock DEF WaitRound, NullKid

LEMMA SoloWait == ASSUME NEW k \in Pids, SoloInv, SysWait(k) PROVE SoloInv'
<1>1. k \in 0 .. MaxPid /\ FALSE \in BOOLEAN /\ Err \in Codes \cup {0, Err}
  BY PidAssumption DEF Pids
<1> QED BY <1>1, SoloWaitRound, SoloWaitReturn DEF SysWait, InRing3

LEMMA SoloSend == ASSUME NEW k \in Pids, SoloInv, SysSend(k) PROVE SoloInv'
<1>1. /\ state' \in [Slots -> States]
      /\ \A s \in Slots : state'[s] = "RUNNING" <=> state[s] = "RUNNING"
      /\ state'[0] = state[0]
  BY SlotZero DEF SoloInv, TypeOK, Solo, States, SysSend
<1>2. TypeOK'
  BY <1>1, NoRetType DEF SoloInv, SysSend, TypeOK, mem, cpu, initVars
<1>3. Solo'
  <2>1. UNCHANGED <<present, current, pc, loc, inRound, waiting>> /\ current # 0
    BY DEF SysSend, InRing3, cpu, initVars
  <2>2. pc \notin Work /\ pc # "claim" /\ pc # "build"
    BY <2>1 DEF SoloInv, Solo, Work
  <2> QED BY <1>1, <2>1, <2>2 DEF SoloInv, Solo
<1> QED BY <1>2, <1>3 DEF SoloInv

LEMMA SoloWaitResume == SoloInv /\ (WaitBegin \/ WaitResume) => SoloInv'
<1>1. ASSUME SoloInv, WaitBegin PROVE SoloInv'
  <2>1. TypeOK'
    BY <1>1, NoRetType DEF SoloInv, WaitBegin, TypeOK, pcb, mem, cpu, initVars
  <2>2. Solo'
    <3>1. UNCHANGED <<present, pid, state, current, pc, loc, waiting, nextPid>>
          /\ current # 0 /\ waiting[current] # 0
      BY <1>1 DEF WaitBegin, pcb, cpu, initVars
    <3> QED BY <1>1, <3>1 DEF SoloInv, Solo, Free, Work
  <2> QED BY <2>1, <2>2 DEF SoloInv
<1>2. ASSUME SoloInv, WaitResume PROVE SoloInv'
  <2>1. waiting[current] \in 0 .. MaxPid /\ iflag \in BOOLEAN /\ current # 0
    BY <1>2 DEF SoloInv, TypeOK, Solo, WaitResume
  <2> QED BY <1>2, <2>1, SoloWaitRound DEF WaitResume
<1> QED BY <1>1, <1>2

LEMMA GoesOnType ==
  ASSUME TypeOK, InitGoesOn
  PROVE  kormi' \in 0 .. Kormi /\ pc' \in {"spawn", "gc", "login"} /\ loc' = 0
BY PidAssumption DEF InitGoesOn, TypeOK

LEMMA SoloFind == SoloInv /\ InitFind => SoloInv'
<1> SUFFICES ASSUME SoloInv, InitFind PROVE SoloInv'
  OBVIOUS
<1> USE DEF SoloInv
<1>0. /\ UNCHANGED <<pcb, mem, cpu, session, shell, waiting, nextPid, leaked, inRound, exited, cut>>
      /\ ret' = NoRet /\ current = 0 /\ nextPid <= MaxPid
  BY DEF InitFind, InitOnly, AtInit
<1>1. CASE \A s \in Slots : ~Free(s)
  <2>1. kormi' \in 0 .. Kormi /\ pc' \in {"spawn", "gc", "login"} /\ loc' = 0
    BY <1>1, GoesOnType DEF InitFind
  <2>2. TypeOK'
    BY <1>0, <2>1, NoRetType, TableAssumption DEF TypeOK, pcb, mem, cpu
  <2>3. Solo'
    BY <1>0, <2>1 DEF Solo, Work, pcb, cpu
  <2> QED BY <2>2, <2>3
<1>2. CASE ~(\A s \in Slots : ~Free(s))
  <2>1. PICK s \in Slots : FindFree(s) /\ loc' = s /\ pc' = "claim" /\ kormi' = kormi
    BY <1>2 DEF InitFind
  <2>2. s # 0 /\ s \in 0 .. N
    BY <2>1, FreeSlot, TableAssumption DEF FindFree, Slots
  <2>3. TypeOK'
    BY <1>0, <2>1, <2>2, NoRetType DEF TypeOK, pcb, mem, cpu
  <2>4. Free(s)'
    BY <1>0, <2>1 DEF FindFree, Free, pcb
  <2>5. Solo'
    BY <1>0, <2>1, <2>2, <2>4 DEF Solo, Work, Free, pcb, cpu
  <2> QED BY <2>3, <2>5
<1> QED BY <1>1, <1>2

LEMMA SoloClaim == SoloInv /\ InitClaim => SoloInv'
<1> SUFFICES ASSUME SoloInv, InitClaim PROVE SoloInv'
  OBVIOUS
<1> USE DEF SoloInv
<1>1. /\ Claim(loc) /\ current = 0 /\ pc = "claim" /\ pc' = "build" /\ ret' = NoRet
      /\ present' = [present EXCEPT ![loc] = TRUE]
      /\ waiting' = [waiting EXCEPT ![loc] = 0]
      /\ UNCHANGED <<mem, cpu, loc, kormi, session, shell, leaked, inRound, exited, cut>>
  BY DEF InitClaim, InitOnly, AtInit
<1>2. loc \in Slots /\ loc # 0 /\ nextPid <= MaxPid
  BY <1>1 DEF Solo, Work
<1>3. present' \in [Slots -> BOOLEAN] /\ waiting' \in [Slots -> 0 .. MaxPid]
  <2>1. 0 \in 0 .. MaxPid
    BY PidAssumption
  <2>2. waiting' \in [Slots -> 0 .. MaxPid]
    BY <1>1, <1>2, <2>1 DEF TypeOK
  <2>3. present' \in [Slots -> BOOLEAN]
    BY <1>1, <1>2 DEF TypeOK
  <2> QED BY <2>2, <2>3
<1>4. TypeOK'
  BY <1>1, <1>2, <1>3, ClaimType, NoRetType DEF TypeOK, mem, cpu
<1>5. /\ \A t \in Slots : t # loc => present'[t] = present[t] /\ state'[t] = state[t]
      /\ present'[loc] /\ state'[loc] = "READY" /\ pid'[loc] # 0
  BY <1>1, <1>2 DEF Claim, TypeOK
<1>6. Solo'
  BY <1>1, <1>2, <1>5, SlotZero DEF Solo, TypeOK, cpu, Work
<1> QED BY <1>4, <1>6

LEMMA SoloBuild == ASSUME NEW o \in Outcomes, SoloInv, InitBuild(o) PROVE SoloInv'
<1> USE DEF SoloInv
<1>1. pc = "build" /\ current = 0 /\ loc \in Slots /\ loc # 0 /\ pid[loc] \in Pids
  BY PidAssumption DEF InitBuild, AtInit, Solo, TypeOK, Pids, Work
<1>2. Build(loc, pid[loc], o)
  BY DEF InitBuild
<1>3. /\ kormi' \in 0 .. Kormi
      /\ pc' \in {"spawn", "gc", "login", "watch"}
      /\ session' \in 0 .. MaxPid
      /\ loc' \in 0 .. N
  <2>1. CASE o # "ok" \/ kormi > 0 \/ shell
    BY <2>1, GoesOnType, TableAssumption DEF InitBuild, TypeOK
  <2>2. CASE ~(o # "ok" \/ kormi > 0 \/ shell)
    <3>1. session' = pid[loc] /\ pc' = "watch" /\ loc' = loc /\ kormi' = kormi
      BY <2>2 DEF InitBuild
    <3> QED BY <1>1, <3>1 DEF TypeOK
  <2> QED BY <2>1, <2>2
<1>4. TypeOK'
  BY <1>1, <1>2, <1>3, BuildType, NoRetType DEF InitBuild, InitOnly, TypeOK
<1>5. \A t \in Slots : t # loc => present'[t] = present[t]
  BY <1>2 DEF Build, TypeOK
<1>6. Solo'
  BY <1>1, <1>3, <1>5, SlotZero DEF InitBuild, InitOnly, Solo, TypeOK, Work
<1> QED BY <1>4, <1>6

LEMMA SoloGc == SoloInv /\ (InitWatch \/ InitGcScan \/ InitGcFree \/ InitGcClear) => SoloInv'
<1> SUFFICES ASSUME SoloInv, InitWatch \/ InitGcScan \/ InitGcFree \/ InitGcClear PROVE SoloInv'
  OBVIOUS
<1> USE DEF SoloInv
<1>1. CASE InitWatch
  <2>1. TypeOK'
    BY <1>1, NoRetType, TableAssumption DEF InitWatch, InitOnly, TypeOK, pcb, mem, cpu
  <2>2. Solo'
    BY <1>1 DEF InitWatch, InitOnly, Solo, Work, pcb, cpu
  <2> QED BY <2>1, <2>2
<1>2. CASE InitGcScan
  <2>0. /\ UNCHANGED <<pcb, mem, cpu, kormi, session, shell, waiting, nextPid, leaked, inRound,
                       exited, cut>>
        /\ ret' = NoRet /\ current = 0 /\ pc = "gc" /\ loc \in 0 .. N /\ loc < N
    BY <1>2 DEF InitGcScan, InitOnly, AtInit, TypeOK
  <2>1. CASE Zombie(loc)
    <3>1. pc' = "gc1" /\ loc' = loc /\ loc \in Slots /\ loc # 0
      BY <1>2, <2>0, <2>1, TableAssumption, SlotZero DEF InitGcScan, Zombie, Solo, Slots
    <3>2. TypeOK'
      BY <2>0, <3>1, NoRetType DEF TypeOK, pcb, mem, cpu
    <3>3. Solo'
      BY <2>0, <3>1 DEF Solo, Work, pcb, cpu
    <3> QED BY <3>2, <3>3
  <2>2. CASE ~Zombie(loc)
    <3>1. pc' = pc /\ loc' \in 0 .. N
      BY <1>2, <2>0, <2>2, TableAssumption DEF InitGcScan
    <3>2. TypeOK'
      BY <2>0, <3>1, NoRetType DEF TypeOK, pcb, mem, cpu
    <3>3. Solo'
      BY <2>0, <3>1 DEF Solo, Work, pcb, cpu
    <3> QED BY <3>2, <3>3
  <2> QED BY <2>1, <2>2
<1>3. CASE InitGcFree
  <2>1. TypeOK'
    BY <1>3, NoRetType DEF InitGcFree, InitOnly, TypeOK, pcb, cpu
  <2>2. Solo'
    BY <1>3 DEF InitGcFree, InitOnly, AtInit, Solo, Work, pcb, cpu
  <2> QED BY <2>1, <2>2
<1>4. CASE InitGcClear
  <2>1. loc \in Slots /\ loc # 0 /\ current = 0 /\ loc' \in 0 .. N
    BY <1>4, TableAssumption DEF InitGcClear, AtInit, Solo, Work, Slots
  <2>2. /\ present' \in [Slots -> BOOLEAN]
        /\ stack' \in [Slots -> 0 .. MaxPid]
        /\ cr3' \in [Slots -> 0 .. MaxPid]
        /\ spaces' \subseteq Pids
    <3>1. 0 \in 0 .. MaxPid
      BY PidAssumption
    <3>2. present' \in [Slots -> BOOLEAN] /\ stack' \in [Slots -> 0 .. MaxPid]
      BY <1>4, <2>1, <3>1 DEF InitGcClear, TypeOK
    <3>3. cr3' \in [Slots -> 0 .. MaxPid] /\ spaces' \subseteq Pids
      BY <1>4, <2>1, <3>1 DEF InitGcClear, TypeOK
    <3> QED BY <3>2, <3>3
  <2>3. TypeOK'
    BY <1>4, <2>1, <2>2, NoRetType DEF InitGcClear, InitOnly, TypeOK, cpu
  <2>4. Solo'
    BY <1>4, <2>1, SlotZero DEF InitGcClear, InitOnly, Solo, TypeOK, cpu, Work
  <2> QED BY <2>3, <2>4
<1> QED BY <1>1, <1>2, <1>3, <1>4

LEMMA SoloYield == SoloInv /\ InitYield => SoloInv'
<1> SUFFICES ASSUME SoloInv, InitYield PROVE SoloInv'
  OBVIOUS
<1> USE DEF SoloInv
<1>1. PICK n \in Slots :
        /\ NextReady([state EXCEPT ![current] = "READY"], present, n)
        /\ IF n = current THEN UNCHANGED <<state, cpu>> ELSE SchedSwitch("READY", iflag, n)
  BY DEF InitYield
<1>2. present[n] /\ (n # current => state[n] = "READY") /\ iflag \in BOOLEAN
  BY <1>1 DEF NextReady, TypeOK
<1>3. /\ state' \in [Slots -> States]
      /\ current' = n
      /\ tss' \in 0 .. MaxPid /\ iflag' \in BOOLEAN /\ ctx' \in [Slots -> Styles]
      /\ frame' \in [Slots -> 0 .. MaxPid] /\ ifWas' \in [Slots -> BOOLEAN]
      /\ \A s \in Slots : state'[s] = "RUNNING" <=> s = n
      /\ state'[0] \in {"READY", "RUNNING"}
  <2>1. CASE n = current
    BY <1>1, <2>1 DEF cpu, TypeOK, Solo
  <2>2. CASE n # current
    BY <1>1, <1>2, <2>2, SoloSchedSwitch
  <2> QED BY <2>1, <2>2
<1>4. /\ present' \in [Slots -> BOOLEAN]
      /\ stack' \in [Slots -> 0 .. MaxPid]
      /\ cr3' \in [Slots -> 0 .. MaxPid]
      /\ heap' \subseteq Pids
      /\ spaces' \subseteq Pids
      /\ \A s \in Slots : present[s] /\ state[s] # "TERMINATED" => present'[s]
  <2>1. CASE GcRun
    BY <2>1, GcRunType DEF GcRun, Zombies, Zombie
  <2>2. CASE UNCHANGED <<present, mem>>
    BY <2>2 DEF TypeOK, mem
  <2> QED BY <2>1, <2>2 DEF InitYield
<1>5. TypeOK'
  BY <1>3, <1>4, NoRetType DEF InitYield, InitOnly, TypeOK
<1>6. Solo'
  <2>1. pc' \notin Work /\ pc' # "claim" /\ pc' # "build" /\ ~inRound'
    BY DEF InitYield, InitOnly, AtInit, Solo, Work
  <2>2. present'[n] /\ present'[0]
    BY <1>2, <1>4, SlotZero DEF Solo
  <2> QED BY <1>3, <2>1, <2>2 DEF Solo
<1> QED BY <1>5, <1>6

LEMMA SoloSession == SoloInv /\ (InitLogin \/ InitShell) => SoloInv'
<1> SUFFICES ASSUME SoloInv, InitLogin \/ InitShell PROVE SoloInv'
  OBVIOUS
<1>1. /\ UNCHANGED <<present, pid, state, parent, waitPid, waitCode, stack, cr3, heap, spaces,
                     current, tss, ctx, frame, ifWas, kormi, session, waiting, nextPid, inRound,
                     exited, cut>>
      /\ ret' = NoRet /\ loc' = 0 /\ current = 0
      /\ pc' \in {"login", "gc", "shell", "spawn"}
      /\ iflag' \in BOOLEAN /\ leaked' \in BOOLEAN /\ shell' \in BOOLEAN
  BY DEF InitLogin, InitShell, HashPassword, InitOnly, AtInit, pcb, mem, cpu, SoloInv, TypeOK
<1>2. TypeOK'
  BY <1>1, NoRetType, TableAssumption DEF SoloInv, TypeOK
<1>3. Solo'
  BY <1>1 DEF SoloInv, Solo, Work
<1> QED BY <1>2, <1>3 DEF SoloInv

LEMMA SoloStep == SoloInv /\ [Next]_vars => SoloInv'
<1> SUFFICES ASSUME SoloInv, [Next]_vars PROVE SoloInv'
  OBVIOUS
<1>1. CASE UNCHANGED vars
  BY <1>1 DEF SoloInv, TypeOK, Solo, Free, vars, pcb, mem, cpu, initVars
<1>2. CASE TickInSection
  BY <1>2 DEF TickInSection, SoloInv, TypeOK, Solo, Free, pcb, mem, cpu, initVars
<1> QED BY <1>1, <1>2, SoloTick, SoloExec, SoloExit, SoloWait, SoloSend, SoloWaitResume, SoloFind,
           SoloClaim, SoloBuild, SoloGc, SoloYield, SoloSession DEF Next, Kernel, InitStep

LEMMA SoloAlways == Spec => []SoloInv
BY SoloInit, SoloStep, PTL DEF Spec

\* Every variable of the process table, the CPU and init keeps its type
THEOREM TypeCorrect == Spec => []TypeOK
BY SoloAlways, PTL DEF SoloInv

\* In every reachable state exactly the process that has the CPU is marked RUNNING, however
\* switches, ticks, exits, waits and collections interleave
THEOREM OneRunning == Spec => []CurrentRuns
<1>1. SoloInv => CurrentRuns
  BY DEF SoloInv, Solo, CurrentRuns
<1> QED BY <1>1, SoloAlways, PTL

\* Init is ready whenever another process has the CPU: sched_block's "nothing ready" and
\* proc_exit's halt are never reached
THEOREM InitAlwaysReady == Spec => []InitReady
<1>1. SoloInv => InitReady
  BY SlotZero DEF SoloInv, Solo, InitReady
<1> QED BY <1>1, SoloAlways, PTL
-----------------------------------------------------------------------------
(***************************************************************************)
(* What proc_waitpid returns.  Pids are handed out once, an exit code is   *)
(* recorded for a pid only when its process ends, and what a PCB keeps in  *)
(* wait_pid and wait_code is such a record.                                *)
(***************************************************************************)
Record ==
  /\ \A s \in Slots : pid[s] < nextPid
  /\ \A s \in Slots : present[s] => pid[s] # 0
  /\ \A s, t \in Slots : pid[s] = pid[t] /\ pid[s] # 0 => s = t
  /\ \A s \in Slots : pid[s] # 0 /\ exited[pid[s]] # None => state[s] = "TERMINATED"
  /\ \A p \in Pids : p >= nextPid => exited[p] = None
  /\ \A s \in Slots : waitPid[s] # 0 => exited[waitPid[s]] = waitCode[s]

RecordInv == SoloInv /\ Record /\ WaitCodeTrue

LEMMA RecordInit == Init => RecordInv
<1> SUFFICES ASSUME Init PROVE RecordInv
  OBVIOUS
<1>1. Record
  <2>1. \A s \in Slots : pid[s] \in {0, 1} /\ (pid[s] # 0 <=> s = 0) /\ waitPid[s] = 0
    BY DEF Init
  <2>4. \A s \in Slots : present[s] => s = 0
    BY Zenon DEF Init
  <2>2. nextPid = 2 /\ \A p \in Pids : exited[p] = None
    BY DEF Init
  <2>3. 1 \in Pids
    BY PidAssumption DEF Pids
  <2> QED BY <2>1, <2>2, <2>3, <2>4 DEF Record
<1>2. WaitCodeTrue
  BY DEF Init, NoRet, WaitCodeTrue
<1> QED BY <1>1, <1>2, SoloInit DEF RecordInv

\* A step that hands out no pid, ends no process and revives none keeps the record
LEMMA RecordKept ==
  ASSUME RecordInv, UNCHANGED <<pid, nextPid, exited>>,
         \A s \in Slots : present'[s] => pid[s] # 0,
         \A s \in Slots : state[s] = "TERMINATED" => state'[s] = "TERMINATED",
         \A s \in Slots : waitPid'[s] # 0 => waitPid'[s] = waitPid[s] /\ waitCode'[s] = waitCode[s]
  PROVE  Record'
BY DEF RecordInv, Record

LEMMA RecordTick == RecordInv /\ Tick => Record'
<1> SUFFICES ASSUME RecordInv, Tick PROVE Record'
  OBVIOUS
<1>1. UNCHANGED <<pid, nextPid, exited, waitPid, waitCode>>
  BY DEF Tick
<1>2. \A s \in Slots : present'[s] => pid[s] # 0
  BY DEF Tick, GcRun, RecordInv, Record
<1>3. \A s \in Slots : state[s] = "TERMINATED" => state'[s] = "TERMINATED"
  BY DEF Tick, Preempt, NextReady, RecordInv, SoloInv, Solo, TypeOK
<1> QED BY <1>1, <1>2, <1>3, RecordKept

\* A claim gives the slot a pid nobody had
LEMMA RecordClaim ==
  ASSUME RecordInv, NEW s \in Slots, nextPid <= MaxPid, Claim(s), UNCHANGED exited,
         \A t \in Slots : t # s => present'[t] = present[t]
  PROVE  Record'
<1> USE DEF RecordInv, SoloInv
<1>1. /\ nextPid \in Pids
      /\ pid'[s] = nextPid /\ waitPid'[s] = 0 /\ nextPid' = nextPid + 1
      /\ \A t \in Slots : t # s => /\ pid'[t] = pid[t] /\ state'[t] = state[t]
                                   /\ waitPid'[t] = waitPid[t] /\ waitCode'[t] = waitCode[t]
  BY PidAssumption DEF Claim, TypeOK, Pids
<1>0. nextPid \in Nat /\ \A t \in Slots : pid[t] \in Nat /\ pid[t] < nextPid
  BY PidAssumption DEF Record, TypeOK
<1>2. \A t \in Slots : pid'[t] < nextPid'
  BY <1>0, <1>1
<1>3. \A t \in Slots : present'[t] => pid'[t] # 0
  BY <1>1, PidAssumption DEF Record, Pids
<1>4. \A t, u \in Slots : pid'[t] = pid'[u] /\ pid'[t] # 0 => t = u
  BY <1>0, <1>1 DEF Record
<1>5. \A t \in Slots : pid'[t] # 0 /\ exited'[pid'[t]] # None => state'[t] = "TERMINATED"
  BY <1>1, PidAssumption DEF Record, Pids
<1>6. \A p \in Pids : p >= nextPid' => exited'[p] = None
  BY <1>1, PidAssumption DEF Record, TypeOK, Pids
<1>7. \A t \in Slots : waitPid'[t] # 0 => exited'[waitPid'[t]] = waitCode'[t]
  BY <1>1 DEF Record
<1> QED BY <1>2, <1>3, <1>4, <1>5, <1>6, <1>7 DEF Record

LEMMA RecordExec == ASSUME NEW o \in Outcomes, RecordInv, SysExec(o) PROVE Record'
<1>1. PICK s \in Slots : Claim(s) /\ Build(s, nextPid, o)
  BY DEF SysExec
<1>2. \A t \in Slots : t # s => present'[t] = present[t]
  BY <1>1 DEF Build, RecordInv, SoloInv, TypeOK
<1>3. nextPid <= MaxPid /\ UNCHANGED exited
  BY PidAssumption DEF SysExec, RecordInv, SoloInv, TypeOK
<1> QED BY <1>1, <1>2, <1>3, RecordClaim

LEMMA RecordSysExit == ASSUME NEW c \in Codes, RecordInv, SysExit(c) PROVE Record'
<1> USE DEF RecordInv, SoloInv
<1> DEFINE up == {s \in Slots : ProcGet(parent[current], s)}
           me == pid[current]
<1>1. /\ me \in Pids
      /\ exited[me] = None
      /\ me < nextPid
  <2>1. current \in Slots /\ present[current] /\ state[current] = "RUNNING"
    BY DEF Solo, TypeOK
  <2>2. me # 0 /\ me \in 0 .. MaxPid
    BY <2>1 DEF Record, TypeOK
  <2> QED BY <2>1, <2>2, PidAssumption DEF Record, Pids
<1>2. /\ exited' = [exited EXCEPT ![me] = c]
      /\ UNCHANGED <<present, pid, nextPid>>
      /\ RecordExit(up, c)
  BY DEF SysExit
<1>3. \A s \in Slots : (s = current \/ state[s] = "TERMINATED") => state'[s] = "TERMINATED"
  BY DEF SysExit, NextReady, TypeOK
<1>4. c # None /\ \A s \in Slots : waitCode[s] # None
  BY CodeAssumption DEF TypeOK, None
<1>5. \A s \in Slots : pid[s] = me => s = current
  BY <1>1, PidAssumption DEF Record, Pids, TypeOK
<1>6. \A s \in Slots : pid'[s] # 0 /\ exited'[pid'[s]] # None => state'[s] = "TERMINATED"
  <2> SUFFICES ASSUME NEW s \in Slots, pid'[s] # 0, exited'[pid'[s]] # None
               PROVE  state'[s] = "TERMINATED"
    OBVIOUS
  <2>1. CASE s = current
    BY <1>3, <2>1
  <2>2. CASE s # current
    BY <1>2, <1>3, <1>5, <2>2 DEF Record, TypeOK
  <2> QED BY <2>1, <2>2
<1>7. \A p \in Pids : p >= nextPid' => exited'[p] = None
  BY <1>1, <1>2, PidAssumption DEF Record, TypeOK, Pids
<1>8. \A s \in Slots : waitPid'[s] # 0 => exited'[waitPid'[s]] = waitCode'[s]
  <2> SUFFICES ASSUME NEW s \in Slots, waitPid'[s] # 0
               PROVE  exited'[waitPid'[s]] = waitCode'[s]
    OBVIOUS
  <2>1. CASE s \in up
    BY <1>1, <1>2, <2>1 DEF RecordExit, TypeOK
  <2>2. CASE s \notin up
    <3>1. waitPid'[s] = waitPid[s] /\ waitCode'[s] = waitCode[s]
      BY <1>2, <2>2 DEF RecordExit
    <3>2. waitPid[s] # me
      BY <1>1, <1>4, <3>1 DEF Record
    <3> QED BY <1>2, <3>1, <3>2 DEF Record, TypeOK, Pids
  <2> QED BY <2>1, <2>2
<1> QED BY <1>2, <1>6, <1>7, <1>8 DEF Record

LEMMA RecordWaitReturn ==
  ASSUME NEW k \in Pids, NEW c, RecordInv, WaitReturn(k, c),
         c = Err \/ (waitPid[current] = k /\ c = waitCode[current])
  PROVE  Record' /\ WaitCodeTrue'
<1> USE DEF RecordInv, SoloInv
<1>1. Record'
  <2>1. UNCHANGED <<pid, nextPid, exited, present, state, waitCode>>
    BY DEF WaitReturn
  <2>2. \A s \in Slots : waitPid'[s] # 0 => waitPid'[s] = waitPid[s]
    BY DEF WaitReturn, TypeOK
  <2> QED BY <2>1, <2>2, RecordKept DEF Record
<1>2. ret' = Returned(IF waitPid[current] = k THEN k ELSE 0, c) /\ exited' = exited
  BY DEF WaitReturn
<1>3. c # Err => waitPid[current] = k /\ exited[k] = c
  <2>1. k # 0 /\ current \in Slots
    BY PidAssumption DEF Pids, TypeOK
  <2> QED BY <2>1 DEF Record
<1>4. WaitCodeTrue'
  BY <1>2, <1>3 DEF WaitCodeTrue, Returned
<1> QED BY <1>1, <1>4

LEMMA NoRetTrue == ret' = NoRet => WaitCodeTrue'
BY DEF NoRet, WaitCodeTrue

LEMMA RecordWaitBlock ==
  ASSUME NEW k \in Pids, NEW flag \in BOOLEAN, RecordInv, current # 0, WaitBlock(k, flag)
  PROVE  Record' /\ WaitCodeTrue'
<1>1. UNCHANGED <<pid, nextPid, exited, present, waitPid, waitCode>> /\ ret' = NoRet
  BY DEF WaitBlock
<1>2. \A s \in Slots : state[s] = "TERMINATED" => state'[s] = "TERMINATED"
  BY DEF WaitBlock, SchedSwitch, NextReady, RecordInv, SoloInv, Solo, TypeOK
<1> QED BY <1>1, <1>2, RecordKept, NoRetTrue DEF RecordInv, Record

LEMMA RecordWaitRound ==
  ASSUME NEW k \in Pids, NEW flag \in BOOLEAN, RecordInv, current # 0,
         WaitRound(k, flag) \/ NullKid(k, flag)
  PROVE  Record' /\ WaitCodeTrue'
BY RecordWaitReturn, RecordWaitBlock DEF WaitRound, NullKid

LEMMA RecordWait == ASSUME NEW k \in Pids, RecordInv, SysWait(k) PROVE Record' /\ WaitCodeTrue'
BY RecordWaitRound, RecordWaitReturn DEF SysWait, InRing3

LEMMA RecordWaitResume == RecordInv /\ WaitResume => Record' /\ WaitCodeTrue'
<1> SUFFICES ASSUME RecordInv, WaitResume PROVE Record' /\ WaitCodeTrue'
  OBVIOUS
<1>1. waiting[current] \in Pids /\ iflag \in BOOLEAN /\ current # 0
  BY PidAssumption DEF RecordInv, SoloInv, Solo, TypeOK, WaitResume, Pids
<1> QED BY <1>1, RecordWaitRound DEF WaitResume

LEMMA RecordInitStep == RecordInv /\ InitStep => Record'
<1> SUFFICES ASSUME RecordInv, InitStep PROVE Record'
  OBVIOUS
<1> USE DEF RecordInv, SoloInv
<1>1. CASE InitClaim
  <2>1. /\ Claim(loc) /\ present' = [present EXCEPT ![loc] = TRUE]
        /\ UNCHANGED exited
        /\ nextPid <= MaxPid /\ loc \in Slots
    BY <1>1 DEF InitClaim, InitOnly, AtInit, Solo, Work
  <2>2. \A t \in Slots : t # loc => present'[t] = present[t]
    BY <2>1 DEF TypeOK
  <2> QED BY <2>1, <2>2, RecordClaim
<1>2. ASSUME NEW o \in Outcomes, InitBuild(o) PROVE Record'
  <2>1. UNCHANGED <<pid, state, waitPid, waitCode, nextPid, exited>>
    BY <1>2 DEF InitBuild, InitOnly
  <2>2. \A s \in Slots : present'[s] => pid[s] # 0
    BY <1>2 DEF InitBuild, AtInit, Build, Record, Solo, Work, TypeOK
  <2> QED BY <2>1, <2>2, RecordKept
<1>3. CASE InitFind \/ InitWatch \/ InitGcScan \/ InitGcFree \/ InitGcClear
  <2>1. UNCHANGED <<pid, state, waitPid, waitCode, nextPid, exited>>
    BY <1>3 DEF InitFind, InitWatch, InitGcScan, InitGcFree, InitGcClear, InitOnly, pcb
  <2>2. \A s \in Slots : present'[s] => pid[s] # 0
    BY <1>3 DEF InitFind, InitWatch, InitGcScan, InitGcFree, InitGcClear, pcb, Record, TypeOK
  <2> QED BY <2>1, <2>2, RecordKept
<1>4. CASE InitYield
  <2>1. UNCHANGED <<pid, waitPid, waitCode, nextPid, exited>>
    BY <1>4 DEF InitYield, InitOnly
  <2>2. \A s \in Slots : state[s] = "TERMINATED" => state'[s] = "TERMINATED"
    BY <1>4 DEF InitYield, SchedSwitch, NextReady, Solo, TypeOK
  <2>3. \A s \in Slots : present'[s] => pid[s] # 0
    BY <1>4 DEF InitYield, GcRun, Record
  <2> QED BY <2>1, <2>2, <2>3, RecordKept DEF Record
<1> QED BY <1>1, <1>2, <1>3, <1>4 DEF InitStep

LEMMA RecordStep == RecordInv /\ [Next]_vars => RecordInv'
<1> SUFFICES ASSUME RecordInv, [Next]_vars PROVE RecordInv'
  OBVIOUS
<1>1. SoloInv'
  BY SoloStep DEF RecordInv
<1>2. CASE UNCHANGED vars \/ TickInSection
  BY <1>1, <1>2 DEF TickInSection, RecordInv, Record, WaitCodeTrue, vars, pcb, mem, cpu
<1>3. CASE Tick
  BY <1>1, <1>3, RecordTick, NoRetTrue DEF RecordInv, Tick
<1>4. ASSUME NEW o \in Outcomes, SysExec(o) PROVE RecordInv'
  BY <1>1, <1>4, RecordExec, NoRetTrue DEF RecordInv, SysExec
<1>5. ASSUME NEW c \in Codes, SysExit(c) PROVE RecordInv'
  BY <1>1, <1>5, RecordSysExit, NoRetTrue DEF RecordInv, SysExit
<1>6. ASSUME NEW k \in Pids, SysWait(k) PROVE RecordInv'
  BY <1>1, <1>6, RecordWait DEF RecordInv
<1>9. ASSUME NEW k \in Pids, SysSend(k) PROVE RecordInv'
  <2>1. UNCHANGED <<present, pid, nextPid, exited, waitPid, waitCode>> /\ ret' = NoRet
    BY <1>9 DEF SysSend
  <2>2. \A s \in Slots : state[s] = "TERMINATED" => state'[s] = "TERMINATED"
    BY <1>9 DEF SysSend
  <2>3. Record'
    BY <2>1, <2>2, RecordKept DEF RecordInv, Record
  <2> QED BY <1>1, <2>1, <2>3, NoRetTrue DEF RecordInv
<1>7. CASE WaitResume
  BY <1>1, <1>7, RecordWaitResume DEF RecordInv
<1>8. CASE InitStep
  <2>1. ret' = NoRet
    BY <1>8 DEF InitStep, InitOnly, InitFind, InitClaim, InitBuild, InitWatch, InitGcScan,
                InitGcFree, InitGcClear, InitYield
  <2> QED BY <1>1, <1>8, <2>1, RecordInitStep, NoRetTrue DEF RecordInv
<1>10. CASE WaitBegin \/ InitLogin \/ InitShell
  <2>1. UNCHANGED <<present, pid, state, nextPid, exited, waitPid, waitCode>> /\ ret' = NoRet
    BY <1>10 DEF WaitBegin, InitLogin, InitShell, InitOnly, pcb
  <2>2. Record'
    BY <2>1, RecordKept DEF RecordInv, Record
  <2> QED BY <1>1, <2>1, <2>2, NoRetTrue DEF RecordInv
<1> QED BY <1>2, <1>3, <1>4, <1>5, <1>6, <1>7, <1>8, <1>9, <1>10 DEF Next, Kernel

\* A code that proc_waitpid hands to a parent is the code that very child exited with: neither
\* a recycled slot nor another child's exit can pass for it
THEOREM WaitCodeCorrect == Spec => []WaitCodeTrue
<1>1. Spec => []RecordInv
  BY RecordInit, RecordStep, PTL DEF Spec
<1> QED BY <1>1, PTL DEF RecordInv
-----------------------------------------------------------------------------
(***************************************************************************)
(* Memory safety: no process is resumed on a kernel stack or in an address *)
(* space that was given back, and the collector gives nothing back twice,  *)
(* as long as no tick has come inside a section (the model ends there).    *)
(* Nothing is assumed of IF or of r12: a tick may come anywhere else.      *)
(***************************************************************************)

\* The slot whose kernel stack init has freed and not yet cleared
Freed == IF pc = "gc2" THEN {loc} ELSE {}

\* Every process in the table owns the stack and the address space made for its pid
Owned ==
  /\ \A s \in Slots : present[s] /\ s \notin Claimed =>
       /\ stack[s] = pid[s] /\ cr3[s] = pid[s]
       /\ pid[s] \in spaces
       /\ s \notin Freed => pid[s] \in heap
  /\ pc \in {"gc1", "gc2"} => Zombie(loc)
  /\ pc = "build" => Live(loc)

\* Whoever is in the kernel or waits for the CPU is on its own kernel stack
Framed ==
  /\ \A s \in Slots : Live(s) /\ s \notin Claimed /\ (s # current \/ s = 0 \/ waiting[s] # 0)
       => frame[s] = pid[s]
  /\ current # 0 => tss = pid[current]

MemInv == RecordInv /\ Owned /\ Framed

LEMMA MemInit == Init => MemInv
<1> SUFFICES ASSUME Init PROVE MemInv
  OBVIOUS
<1>1. /\ \A s \in Slots : present[s] => s = 0
      /\ pid[0] = 1 /\ stack[0] = 1 /\ cr3[0] = 1 /\ frame[0] = 1
      /\ 1 \in heap /\ 1 \in spaces
    <2>1. \A s \in Slots : present[s] => s = 0
      BY Zenon DEF Init
    <2> QED BY <2>1, SlotZero DEF Init
<1>2. current = 0 /\ pc = "spawn"
  BY DEF Init
<1>3. Owned
  BY <1>1, <1>2 DEF Owned, Claimed, Freed
<1>4. Framed
  BY <1>1, <1>2 DEF Framed, Live
<1> QED BY <1>3, <1>4, RecordInit DEF MemInv

\* Init is in the middle of nothing when another process has the CPU
LEMMA InitAway ==
  ASSUME MemInv, current # 0 \/ pc \notin Work
  PROVE  pc \notin Work /\ Claimed = {} /\ Freed = {}
<1>1. pc \notin Work
  BY DEF MemInv, RecordInv, SoloInv, Solo
<1> QED BY <1>1 DEF Work, Claimed, Freed

\* The process that has the CPU is alive, and on its own kernel stack when it is in the kernel
LEMMA CurrentFacts ==
  ASSUME MemInv
  PROVE  /\ current \in Slots /\ present[current] /\ state[current] = "RUNNING"
         /\ current \notin Claimed /\ current \notin Freed
         /\ KernelStack = pid[current]
<1>1. current \in Slots /\ present[current] /\ state[current] = "RUNNING"
  BY DEF MemInv, RecordInv, SoloInv, Solo, TypeOK
<1>2. current \notin Claimed
  BY DEF MemInv, RecordInv, SoloInv, Solo, Claimed, Work
<1>3. current \notin Freed
  BY <1>1 DEF MemInv, Owned, Zombie, Freed
<1>4. KernelStack = pid[current]
  BY <1>1, <1>2 DEF KernelStack, MemInv, Framed, Live
<1> QED BY <1>1, <1>2, <1>3, <1>4

\* A switch leaves the process that gives up the CPU, and all who wait, on their own stacks
LEMMA SwitchFramed ==
  ASSUME MemInv, NEW n \in Slots, n # current, Live(n), n \notin Claimed,
         NEW how, NEW ctxs, SwitchTo(n, how, ctxs),
         NEW style, NEW flag, Park(style, flag),
         UNCHANGED pid,
         \A s \in Slots : Live(s)' => Live(s),
         \A s \in Slots : s \notin Claimed' => s \notin Claimed,
         waiting'[n] = waiting[n]
  PROVE  Framed'
<1>1. current' = n /\ tss' = IF n # 0 THEN stack[n] ELSE tss
  BY DEF SwitchTo
<1>2. frame' = [frame EXCEPT ![current] = pid[current]]
  BY CurrentFacts DEF Park
<1>3. frame \in [Slots -> 0 .. MaxPid]
  BY DEF MemInv, RecordInv, SoloInv, TypeOK
<1>4. ASSUME NEW s \in Slots, Live(s)', s \notin Claimed', s # n \/ s = 0 \/ waiting'[s] # 0
      PROVE  frame'[s] = pid'[s]
  BY <1>2, <1>3, <1>4 DEF MemInv, Framed
<1>5. stack[n] = pid[n]
  BY DEF MemInv, Owned, Live
<1> QED BY <1>1, <1>4, <1>5 DEF Framed

\* Two slots of the table never hold the same pid
LEMMA PidsDiffer ==
  ASSUME MemInv, NEW s \in Slots, NEW t \in Slots, present[s], s # t
  PROVE  pid[s] # pid[t] /\ pid[s] # 0
BY DEF MemInv, RecordInv, Record

\* A collection frees what the zombies own and nothing else
LEMMA GcRunOwned ==
  ASSUME MemInv, Claimed = {}, Freed = {}, GcRun
  PROVE  \A s \in Slots : present'[s] =>
           /\ present[s] /\ ~Zombie(s)
           /\ stack'[s] = pid[s] /\ cr3'[s] = pid[s] /\ pid[s] \in heap' /\ pid[s] \in spaces'
<1> SUFFICES ASSUME NEW s \in Slots, present'[s]
             PROVE  /\ present[s] /\ ~Zombie(s)
                    /\ stack'[s] = pid[s] /\ cr3'[s] = pid[s]
                    /\ pid[s] \in heap' /\ pid[s] \in spaces'
  OBVIOUS
<1>1. present[s] /\ ~Zombie(s) /\ s \notin Zombies
  BY DEF GcRun, Zombies
<1>2. stack[s] = pid[s] /\ cr3[s] = pid[s] /\ pid[s] \in heap /\ pid[s] \in spaces
  BY <1>1 DEF MemInv, Owned
<1>3. \A z \in Zombies : stack[z] # pid[s] /\ cr3[z] # pid[s]
  BY <1>1, PidsDiffer DEF Zombies, Zombie, MemInv, Owned
<1> QED BY <1>1, <1>2, <1>3 DEF GcRun

LEMMA MemTick == ASSUME MemInv, Tick PROVE Owned' /\ Framed'
<1>1. pc \notin Work /\ Claimed = {} /\ Freed = {}
  BY InitAway DEF Tick, Section, Work
<1>2. Claimed' = {} /\ Freed' = {} /\ pc' \notin Work
  BY <1>1 DEF Tick, initVars, Claimed, Freed, Work
<1>3. PICK n \in Slots :
        /\ NextReady([state EXCEPT ![current] = "READY"], present', n)
        /\ IF n = current THEN UNCHANGED <<state, cpu>> ELSE Preempt(n)
  BY DEF Tick
<1>4. \A s \in Slots : present'[s] =>
        /\ present[s] /\ ~Zombie(s)
        /\ stack'[s] = pid[s] /\ cr3'[s] = pid[s] /\ pid[s] \in heap' /\ pid[s] \in spaces'
  BY <1>1, GcRunOwned DEF Tick
<1>5. UNCHANGED <<pid, waiting>>
  BY DEF Tick
<1>6. Owned'
  BY <1>2, <1>4, <1>5 DEF Owned, Work
<1>7. CASE n = current
  <2>1. UNCHANGED <<state, current, tss, iflag, ctx, frame, ifWas>>
    BY <1>3, <1>7 DEF cpu
  <2>2. Framed'
    BY <1>1, <1>2, <1>4, <1>5, <2>1 DEF MemInv, Framed, Live
  <2> QED BY <1>6, <2>2
<1>8. CASE n # current
  <2>1. /\ SwitchTo(n, "stub", [ctx EXCEPT ![current] = "IRQ"])
        /\ Park("IRQ", FALSE)
        /\ state' = [state EXCEPT ![current] = "READY", ![n] = "RUNNING"]
    BY <1>3, <1>8 DEF Preempt
  <2>2. current \in Slots /\ state \in [Slots -> States]
    BY DEF MemInv, RecordInv, SoloInv, TypeOK
  <2>3. present'[n] /\ state[n] = "READY"
    BY <1>3, <1>8, <2>2 DEF NextReady
  <2>4. Live(n)
    BY <1>4, <2>3 DEF Live
  <2>5. \A s \in Slots : Live(s)' => Live(s)
    BY <1>4, <2>1, <2>2, <2>3 DEF Live, Zombie
  <2>6. Framed'
    BY <1>1, <1>5, <1>8, <2>1, <2>4, <2>5, SwitchFramed
  <2> QED BY <1>6, <2>6
<1> QED BY <1>7, <1>8

\* A slot that find_free hands out is neither being built nor being collected
LEMMA MemExec == ASSUME NEW o \in Outcomes, MemInv, SysExec(o) PROVE Owned' /\ Framed'
<1>1. PICK s \in Slots : /\ FindFree(s) /\ Claim(s) /\ Build(s, nextPid, o)
                         /\ waiting' = [waiting EXCEPT ![s] = 0]
  BY DEF SysExec
<1>2. s # 0 /\ s # current
  BY <1>1, FreeSlot DEF MemInv, RecordInv, FindFree
<1>3. current # 0 /\ pc \notin Work /\ Claimed = {} /\ Freed = {}
  BY InitAway DEF SysExec, InRing3
<1>4. UNCHANGED <<current, tss, pc, loc>> /\ Claimed' = {} /\ Freed' = {}
  BY <1>3 DEF SysExec, initVars, Claimed, Freed
<1>5. TypeOK
  BY DEF MemInv, RecordInv, SoloInv
<1>6. \A t \in Slots : t # s =>
        /\ present'[t] = present[t] /\ pid'[t] = pid[t] /\ state'[t] = state[t]
        /\ stack'[t] = stack[t] /\ cr3'[t] = cr3[t] /\ frame'[t] = frame[t]
        /\ waiting'[t] = waiting[t]
  BY <1>1, <1>5 DEF Claim, Build, TypeOK
<1>7. heap \subseteq heap' /\ spaces \subseteq spaces'
  BY <1>1 DEF Build
<1>8. waiting'[s] = 0 /\ pid'[s] = nextPid
  BY <1>1, <1>5 DEF Claim, TypeOK
<1>9. present'[s] => /\ stack'[s] = nextPid /\ cr3'[s] = nextPid /\ frame'[s] = nextPid
                     /\ nextPid \in heap' /\ nextPid \in spaces'
  <2>1. CASE o = "ok"
    BY <1>1, <1>5, <2>1 DEF Build, TypeOK
  <2>2. CASE o # "ok"
    BY <1>1, <1>5, <2>2 DEF Build, TypeOK
  <2> QED BY <2>1, <2>2
<1>10. Owned'
  BY <1>3, <1>4, <1>6, <1>7, <1>8, <1>9 DEF MemInv, Owned, Work
<1>11. Framed'
  BY <1>2, <1>3, <1>4, <1>6, <1>8, <1>9, CurrentFacts DEF MemInv, Framed, Live
<1> QED BY <1>10, <1>11

LEMMA MemExit == ASSUME NEW c \in Codes, MemInv, SysExit(c) PROVE Owned' /\ Framed'
<1> DEFINE up == {s \in Slots : ProcGet(parent[current], s)}
           woken == [s \in Slots |-> IF s = current THEN "TERMINATED"
                                     ELSE IF s \in up /\ state[s] = "BLOCKED" THEN "READY"
                                     ELSE state[s]]
<1>1. PICK n \in Slots : /\ NextReady(woken, present, n)
                         /\ state' = [woken EXCEPT ![n] = "RUNNING"]
                         /\ SwitchTo(n, "first", ctx)
  BY DEF SysExit
<1>2. current # 0 /\ pc \notin Work /\ Claimed = {} /\ Freed = {}
  BY InitAway DEF SysExit, InRing3
<1>3. UNCHANGED <<present, pid, stack, cr3, heap, spaces, frame, pc, loc, waiting>>
      /\ Claimed' = {} /\ Freed' = {}
  BY <1>2 DEF SysExit, initVars, mem, Claimed, Freed
<1>4. TypeOK /\ current \in Slots
  BY DEF MemInv, RecordInv, SoloInv, TypeOK
<1>5. /\ present[n] /\ n # current /\ state[n] # "TERMINATED"
      /\ state'[current] = "TERMINATED"
      /\ \A s \in Slots : state[s] = "TERMINATED" => state'[s] = "TERMINATED"
  <2>1. present[n] /\ woken[n] = "READY"
    BY <1>1 DEF NextReady
  <2>2. n # current /\ state[n] # "TERMINATED"
    BY <2>1
  <2> QED BY <1>1, <1>4, <2>1, <2>2 DEF TypeOK
<1>6. Owned'
  BY <1>2, <1>3 DEF MemInv, Owned, Work
<1>7. Framed'
  <2>1. current' = n /\ tss' = IF n # 0 THEN stack[n] ELSE tss
    BY <1>1 DEF SwitchTo
  <2>2. stack[n] = pid[n]
    BY <1>2, <1>5 DEF MemInv, Owned
  <2>3. \A s \in Slots : Live(s)' => Live(s) /\ s # current
    BY <1>3, <1>5 DEF Live
  <2> QED BY <1>2, <1>3, <2>1, <2>2, <2>3 DEF MemInv, Framed
<1> QED BY <1>6, <1>7

LEMMA MemWaitReturn ==
  ASSUME MemInv, current # 0, NEW k, NEW c, WaitReturn(k, c)
  PROVE  Owned' /\ Framed'
<1>1. /\ UNCHANGED <<present, pid, state, stack, cr3, heap, spaces, current, tss, frame, pc, loc>>
      /\ waiting' = [waiting EXCEPT ![current] = 0]
  BY DEF WaitReturn, mem, initVars
<1>2. UNCHANGED <<Claimed, Freed>>
  BY <1>1 DEF Claimed, Freed
<1>3. waiting \in [Slots -> 0 .. MaxPid] /\ current \in Slots
  BY DEF MemInv, RecordInv, SoloInv, TypeOK
<1>4. waiting'[current] = 0 /\ \A s \in Slots : s # current => waiting'[s] = waiting[s]
  BY <1>1, <1>3
<1>5. Owned'
  BY <1>1, <1>2 DEF MemInv, Owned, Zombie, Live
<1>6. Framed'
  BY <1>1, <1>2, <1>4 DEF MemInv, Framed, Live
<1> QED BY <1>5, <1>6

\* A cooperative switch to a process other than the current one keeps the stacks apart
LEMMA MemSchedSwitch ==
  ASSUME MemInv, NEW st \in {"READY", "BLOCKED"}, NEW flag, NEW n \in Slots, n # current,
         present[n], state[n] = "READY", Claimed = {}, Claimed' = {}, SchedSwitch(st, flag, n),
         \A s \in Slots : present'[s] => present[s],
         \A s \in Slots : s # current => waiting'[s] = waiting[s],
         UNCHANGED pid
  PROVE  Framed'
<1>1. /\ SwitchTo(n, "switch", [ctx EXCEPT ![current] = "C"])
      /\ Park("C", flag)
      /\ state' = [state EXCEPT ![current] = st, ![n] = "RUNNING"]
  BY DEF SchedSwitch
<1>2. TypeOK /\ current \in Slots /\ state[current] = "RUNNING"
  BY CurrentFacts DEF MemInv, RecordInv, SoloInv
<1>3. \A s \in Slots : Live(s)' => Live(s)
  BY <1>1, <1>2 DEF Live, TypeOK
<1>4. Live(n)
  BY DEF Live
<1> QED BY <1>1, <1>3, <1>4, SwitchFramed

LEMMA MemWaitBlock ==
  ASSUME MemInv, current # 0, NEW k \in 0 .. MaxPid, NEW flag \in BOOLEAN, WaitBlock(k, flag)
  PROVE  Owned' /\ Framed'
<1> DEFINE st == [state EXCEPT ![current] = "BLOCKED"]
<1>0. TypeOK /\ Solo
  BY DEF MemInv, RecordInv, SoloInv
<1>1. ~NothingReady(st, present)
  BY <1>0, SlotZero DEF NothingReady, Solo, TypeOK
<1>2. PICK n \in Slots : NextReady(st, present, n) /\ SchedSwitch("BLOCKED", flag, n)
  BY <1>1 DEF WaitBlock
<1>3. present[n] /\ n # current /\ state[n] = "READY"
  BY <1>0, <1>2 DEF NextReady, TypeOK
<1>4. \A s \in Slots : s # current => waiting'[s] = waiting[s]
  BY <1>0 DEF WaitBlock, TypeOK
<1>5. pc \notin Work /\ Claimed = {} /\ Freed = {}
  BY InitAway
<1>6. UNCHANGED <<present, pid, stack, cr3, heap, spaces, pc, loc>>
      /\ Claimed' = {} /\ Freed' = {}
  BY <1>5 DEF WaitBlock, mem, initVars, Claimed, Freed
<1>7. Owned'
  BY <1>5, <1>6 DEF MemInv, Owned, Work
<1>8. Framed'
  BY <1>2, <1>3, <1>4, <1>5, <1>6, MemSchedSwitch
<1> QED BY <1>7, <1>8

LEMMA MemWait == ASSUME NEW k \in Pids, MemInv, SysWait(k) PROVE Owned' /\ Framed'
<1>1. k \in 0 .. MaxPid /\ current # 0 /\ FALSE \in BOOLEAN
  BY PidAssumption DEF Pids, SysWait, InRing3
<1> QED BY <1>1, MemWaitReturn, MemWaitBlock DEF SysWait, WaitRound

LEMMA MemWaitResume == ASSUME MemInv, WaitResume PROVE Owned' /\ Framed'
<1>1. current # 0 /\ waiting[current] \in 0 .. MaxPid /\ iflag \in BOOLEAN
  BY DEF WaitResume, MemInv, RecordInv, SoloInv, Solo, TypeOK
<1> QED BY <1>1, MemWaitReturn, MemWaitBlock DEF WaitResume, WaitRound, NullKid

LEMMA MemSend == ASSUME NEW k \in Pids, MemInv, SysSend(k) PROVE Owned' /\ Framed'
<1>1. UNCHANGED <<present, pid, stack, cr3, heap, spaces, current, tss, frame, pc, loc, waiting>>
  BY DEF SysSend, mem, cpu, initVars
<1>2. UNCHANGED <<Claimed, Freed>>
  BY <1>1 DEF Claimed, Freed
<1>3. \A s \in Slots : state'[s] = "TERMINATED" <=> state[s] = "TERMINATED"
  BY DEF SysSend
<1>4. pc \notin Work
  BY InitAway DEF SysSend, InRing3
<1>5. Owned'
  BY <1>1, <1>2, <1>4 DEF MemInv, Owned, Work
<1>6. Framed'
  BY <1>1, <1>2, <1>3 DEF MemInv, Framed, Live
<1> QED BY <1>5, <1>6

\* A step that leaves the table, the memory and the stacks alone, in or out of no half-done work
LEMMA MemIdle ==
  ASSUME MemInv, UNCHANGED <<present, pid, state, stack, cr3, heap, spaces, current, tss, frame,
                             waiting>>,
         pc \notin {"build", "gc1", "gc2"}, pc' \notin {"build", "gc1", "gc2"}
  PROVE  Owned' /\ Framed'
<1>1. Claimed = {} /\ Freed = {} /\ Claimed' = {} /\ Freed' = {}
  BY DEF Claimed, Freed
<1>2. Owned'
  BY <1>1 DEF MemInv, Owned
<1>3. Framed'
  BY <1>1 DEF MemInv, Framed, Live
<1> QED BY <1>2, <1>3

LEMMA MemClaim == ASSUME MemInv, InitClaim PROVE Owned' /\ Framed'
<1>1. /\ current = 0 /\ pc = "claim" /\ pc' = "build" /\ Claim(loc)
      /\ present' = [present EXCEPT ![loc] = TRUE]
      /\ waiting' = [waiting EXCEPT ![loc] = 0]
      /\ UNCHANGED <<stack, cr3, heap, spaces, current, tss, frame, loc>>
  BY DEF InitClaim, AtInit, mem, cpu
<1>2. loc \in Slots /\ loc # 0
  BY <1>1 DEF MemInv, RecordInv, SoloInv, Solo, Work
<1>3. Claimed = {} /\ Freed = {} /\ Claimed' = {loc} /\ Freed' = {}
  BY <1>1 DEF Claimed, Freed
<1>4. /\ \A t \in Slots : t # loc => /\ present'[t] = present[t] /\ pid'[t] = pid[t]
                                     /\ state'[t] = state[t] /\ waiting'[t] = waiting[t]
      /\ present'[loc] /\ state'[loc] = "READY"
  BY <1>1, <1>2 DEF Claim, MemInv, RecordInv, SoloInv, TypeOK
<1>5. Owned'
  BY <1>1, <1>3, <1>4 DEF MemInv, Owned, Live
<1>6. Framed'
  BY <1>1, <1>3, <1>4 DEF MemInv, Framed, Live
<1> QED BY <1>5, <1>6

LEMMA MemBuild == ASSUME NEW o \in Outcomes, MemInv, InitBuild(o) PROVE Owned' /\ Framed'
<1>0. current = 0 /\ pc = "build" /\ loc \in Slots /\ loc # 0
  BY DEF InitBuild, AtInit, MemInv, RecordInv, SoloInv, Solo, TypeOK, Work
<1>1. Build(loc, pid[loc], o) /\ UNCHANGED <<pid, state, current, tss, waiting>>
  BY DEF InitBuild
<1>2. pc' \in {"spawn", "gc", "login", "watch"}
  BY DEF InitBuild, InitGoesOn
<1>3. Claimed = {loc} /\ Freed = {} /\ Claimed' = {} /\ Freed' = {}
  BY <1>0, <1>2 DEF Claimed, Freed
<1>4. TypeOK
  BY DEF MemInv, RecordInv, SoloInv
<1>5. \A t \in Slots : t # loc =>
        /\ present'[t] = present[t] /\ stack'[t] = stack[t] /\ cr3'[t] = cr3[t]
        /\ frame'[t] = frame[t]
  BY <1>1, <1>4 DEF Build, TypeOK
<1>6. heap \subseteq heap' /\ spaces \subseteq spaces'
  BY <1>1 DEF Build
<1>7. present'[loc] => /\ stack'[loc] = pid[loc] /\ cr3'[loc] = pid[loc] /\ frame'[loc] = pid[loc]
                       /\ pid[loc] \in heap' /\ pid[loc] \in spaces'
  <2>1. CASE o = "ok"
    BY <1>0, <1>1, <1>4, <2>1 DEF Build, TypeOK
  <2>2. CASE o # "ok"
    BY <1>0, <1>1, <1>4, <2>2 DEF Build, TypeOK
  <2> QED BY <2>1, <2>2
<1>8. Owned'
  BY <1>1, <1>2, <1>3, <1>5, <1>6, <1>7 DEF MemInv, Owned
<1>9. Framed'
  BY <1>0, <1>1, <1>3, <1>5, <1>7 DEF MemInv, Framed, Live
<1> QED BY <1>8, <1>9

LEMMA MemGcScan == ASSUME MemInv, InitGcScan PROVE Owned' /\ Framed'
<1>1. /\ UNCHANGED <<present, pid, state, stack, cr3, heap, spaces, current, tss, frame, waiting>>
      /\ pc = "gc"
  BY DEF InitGcScan, AtInit, pcb, mem, cpu
<1>2. CASE Zombie(loc)
  <2>1. pc' = "gc1" /\ loc' = loc
    BY <1>2 DEF InitGcScan
  <2>2. Claimed = {} /\ Freed = {} /\ Claimed' = {} /\ Freed' = {}
    BY <1>1, <2>1 DEF Claimed, Freed
  <2>3. Owned'
    BY <1>1, <1>2, <2>1, <2>2 DEF MemInv, Owned, Zombie
  <2>4. Framed'
    BY <1>1, <2>2 DEF MemInv, Framed, Live
  <2> QED BY <2>3, <2>4
<1>3. CASE ~Zombie(loc)
  <2>1. pc' = pc
    BY <1>3 DEF InitGcScan
  <2> QED BY <1>1, <2>1, MemIdle
<1> QED BY <1>2, <1>3

LEMMA MemGcFree == ASSUME MemInv, InitGcFree PROVE Owned' /\ Framed'
<1>0. /\ current = 0 /\ pc = "gc1" /\ pc' = "gc2" /\ Claimed = {} /\ Freed = {}
      /\ heap' = heap \ {stack[loc]}
      /\ UNCHANGED <<present, pid, state, stack, cr3, spaces, current, tss, frame, waiting, loc>>
  BY DEF InitGcFree, AtInit, Claimed, Freed, pcb, cpu
<1>1. loc \in Slots /\ Zombie(loc)
  BY <1>0 DEF MemInv, Owned, RecordInv, SoloInv, Solo, Work
<1>2. Claimed' = {} /\ Freed' = {loc}
  BY <1>0 DEF Claimed, Freed
<1>3. \A s \in Slots : present[s] /\ s # loc => pid[s] \in heap'
  <2> SUFFICES ASSUME NEW s \in Slots, present[s], s # loc PROVE pid[s] \in heap'
    OBVIOUS
  <2>1. pid[s] \in heap /\ stack[loc] = pid[loc]
    BY <1>0, <1>1 DEF MemInv, Owned, Zombie
  <2>2. pid[s] # pid[loc]
    BY <1>1, PidsDiffer
  <2> QED BY <1>0, <2>1, <2>2
<1>4. Owned'
  BY <1>0, <1>1, <1>2, <1>3 DEF MemInv, Owned, Zombie
<1>5. Framed'
  BY <1>0, <1>2 DEF MemInv, Framed, Live
<1> QED BY <1>4, <1>5

LEMMA MemGcClear == ASSUME MemInv, InitGcClear PROVE Owned' /\ Framed'
<1>0. /\ current = 0 /\ pc = "gc2" /\ pc' = "gc" /\ Claimed = {} /\ Freed = {loc}
      /\ UNCHANGED <<pid, state, heap, current, tss, frame, waiting>>
  BY DEF InitGcClear, AtInit, Claimed, Freed, cpu
<1>1. loc \in Slots
  BY <1>0 DEF MemInv, RecordInv, SoloInv, Solo, Work
<1>2. Claimed' = {} /\ Freed' = {}
  BY <1>0 DEF Claimed, Freed
<1>3. Zombie(loc) /\ cr3[loc] = pid[loc]
  BY <1>0, <1>1 DEF MemInv, Owned, Zombie
<1>4. ~present'[loc] /\ \A s \in Slots : s # loc =>
        present'[s] = present[s] /\ stack'[s] = stack[s] /\ cr3'[s] = cr3[s]
  BY <1>1 DEF InitGcClear, MemInv, RecordInv, SoloInv, TypeOK
<1>5. \A s \in Slots : present[s] /\ s # loc => pid[s] \in spaces'
  <2> SUFFICES ASSUME NEW s \in Slots, present[s], s # loc PROVE pid[s] \in spaces'
    OBVIOUS
  <2>1. pid[s] \in spaces /\ pid[s] # pid[loc]
    BY <1>0, <1>1, PidsDiffer DEF MemInv, Owned
  <2> QED BY <1>3, <2>1 DEF InitGcClear
<1>6. Owned'
  BY <1>0, <1>2, <1>4, <1>5 DEF MemInv, Owned
<1>7. Framed'
  BY <1>0, <1>2, <1>4 DEF MemInv, Framed, Live
<1> QED BY <1>6, <1>7

LEMMA MemYield == ASSUME MemInv, InitYield PROVE Owned' /\ Framed'
<1>0. /\ current = 0 /\ pc = "gc" /\ pc' \in {"watch", "shell"}
      /\ Claimed = {} /\ Freed = {} /\ Claimed' = {} /\ Freed' = {}
      /\ UNCHANGED <<pid, waiting>>
  BY DEF InitYield, AtInit, Claimed, Freed
<1>1. PICK n \in Slots :
        /\ NextReady([state EXCEPT ![current] = "READY"], present, n)
        /\ IF n = current THEN UNCHANGED <<state, cpu>> ELSE SchedSwitch("READY", iflag, n)
  BY DEF InitYield
<1>2. \A s \in Slots : present'[s] =>
        /\ present[s]
        /\ stack'[s] = pid[s] /\ cr3'[s] = pid[s] /\ pid[s] \in heap' /\ pid[s] \in spaces'
  <2>1. CASE GcRun
    BY <1>0, <2>1, GcRunOwned
  <2>2. CASE UNCHANGED <<present, mem>>
    BY <1>0, <2>2 DEF mem, MemInv, Owned
  <2> QED BY <2>1, <2>2 DEF InitYield
<1>3. Owned'
  BY <1>0, <1>2 DEF Owned
<1>4. CASE n = current
  <2>1. UNCHANGED <<state, current, tss, frame>>
    BY <1>1, <1>4 DEF cpu
  <2> QED BY <1>0, <1>2, <1>3, <2>1 DEF MemInv, Framed, Live
<1>5. CASE n # current
  <2>1. present[n] /\ state[n] = "READY" /\ SchedSwitch("READY", iflag, n)
    BY <1>1, <1>5 DEF NextReady, MemInv, RecordInv, SoloInv, TypeOK
  <2> QED BY <1>0, <1>2, <1>3, <1>5, <2>1, MemSchedSwitch
<1> QED BY <1>4, <1>5

LEMMA MemStep == MemInv /\ [Next]_vars => MemInv'
<1> SUFFICES ASSUME MemInv, [Next]_vars PROVE MemInv'
  OBVIOUS
<1>1. RecordInv'
  BY RecordStep DEF MemInv
<1>2. CASE UNCHANGED vars \/ TickInSection \/ WaitBegin
  <2>1. UNCHANGED <<pcb, mem, cpu, initVars, waiting>>
    BY <1>2 DEF vars, TickInSection, WaitBegin
  <2>2. UNCHANGED <<Claimed, Freed>>
    BY <2>1 DEF initVars, Claimed, Freed
  <2> QED BY <1>1, <2>1, <2>2
          DEF MemInv, Owned, Framed, Live, Zombie, pcb, mem, cpu, initVars
<1>3. CASE InitFind \/ InitWatch \/ InitLogin \/ InitShell
  <2>1. /\ UNCHANGED <<present, pid, state, stack, cr3, heap, spaces, current, tss, frame, waiting>>
        /\ pc \in {"spawn", "watch", "login", "shell"}
        /\ pc' \in {"spawn", "gc", "login", "shell", "claim"}
    BY <1>3 DEF InitFind, InitGoesOn, InitWatch, InitLogin, InitShell, HashPassword, AtInit, pcb,
                mem, cpu
  <2> QED BY <1>1, <2>1, MemIdle DEF MemInv
<1>4. ASSUME Owned' /\ Framed' PROVE MemInv'
  BY <1>1, <1>4 DEF MemInv
<1> QED BY <1>2, <1>3, <1>4, MemTick, MemExec, MemExit, MemWait, MemSend, MemWaitResume, MemClaim,
           MemBuild, MemGcScan, MemGcFree, MemGcClear, MemYield DEF Next, Kernel, InitStep

\* What the runs check of memory: live processes keep their stacks and address spaces and are
\* parked on their own stack, a tick frees only what is allocated, and kernel entries land on
\* the stack of the process that runs
MemorySafe == FramesLive /\ NoDoubleFree /\ TssOwnStack

LEMMA MemImplies == MemInv => MemorySafe
<1> SUFFICES ASSUME MemInv PROVE MemorySafe
  OBVIOUS
<1>1. \A s \in Slots \ Claimed : Live(s) => s \notin Freed
  BY DEF MemInv, Owned, Freed, Live, Zombie
<1>2. FramesLive
  BY <1>1 DEF FramesLive, MemInv, Owned, Framed, Live
<1>3. TssOwnStack
  BY CurrentFacts DEF TssOwnStack, MemInv, Owned, Framed
<1>4. NoDoubleFree
  <2> SUFFICES ASSUME ~Section, NEW s \in Slots, Zombie(s)
               PROVE  stack[s] \in heap /\ cr3[s] \in spaces
    BY DEF NoDoubleFree
  <2>1. Claimed = {} /\ Freed = {}
    BY InitAway DEF Section, Work
  <2> QED BY <2>1 DEF MemInv, Owned, Zombie
<1> QED BY <1>2, <1>3, <1>4 DEF MemorySafe

\* Whatever interrupts do in kernel code, the scheduler is memory safe until a tick cuts a
\* section, for every number of processes and however they interleave
THEOREM MemoryAlwaysSafe == Spec => []MemorySafe
BY MemInit, MemStep, MemImplies, PTL DEF Spec

\* No process that may get the CPU lost its kernel stack or address space (proc_gc_run), and all
\* that wait for it are parked on their own stack (sched_switch, isr_common_stub)
THEOREM FramesAlwaysLive == Spec => []FramesLive
BY MemoryAlwaysSafe, PTL DEF MemorySafe

\* The collection of a tick that comes outside the sections, while init scans the table or runs
\* the ring-0 shell too, never frees what init's collection has freed already (proc_gc_run)
THEOREM NeverDoubleFree == Spec => []NoDoubleFree
BY MemoryAlwaysSafe, PTL DEF MemorySafe

\* sched_prep has always been called for the ring-3 process that has the CPU
THEOREM KernelEntriesOwnStack == Spec => []TssOwnStack
BY MemoryAlwaysSafe, PTL DEF MemorySafe
-----------------------------------------------------------------------------
(***************************************************************************)
(* Where interrupts in kernel code come from.  Until IF has leaked, init   *)
(* and whoever is inside proc_waitpid are parked in C with if_was clear,   *)
(* and every way of resuming them leaves IF off.                           *)
(***************************************************************************)
Masked ==
  ~leaked =>
    /\ ~cut
    /\ current = 0 \/ waiting[current] # 0 => ~iflag
    /\ \A s \in Slots : ~ifWas[s]
    /\ ctx[0] = "C"
    /\ \A s \in Slots : s # current /\ waiting[s] # 0 => ctx[s] = "C"

\* Init never waits in proc_waitpid, and neither does a process that is being built
Waits == waiting[0] = 0 /\ (pc = "build" => waiting[loc] = 0)

LeakInv == SoloInv /\ Waits /\ Masked

LEMMA LeakInit == Init => LeakInv
<1> SUFFICES ASSUME Init PROVE LeakInv
  OBVIOUS
<1>1. \A s \in Slots : ifWas[s] = FALSE /\ waiting[s] = 0 /\ ctx[s] = "C"
  BY DEF Init
<1>2. iflag = FALSE /\ cut = FALSE /\ pc = "spawn"
  BY DEF Init
<1> QED BY <1>1, <1>2, SlotZero, SoloInit DEF LeakInv, Masked, Waits

\* Whoever is resumed in the kernel finds interrupts off, or IF leaks in this step
LEMMA ResumedOff ==
  ASSUME LeakInv, ~leaked, NEW n \in Slots, n # current, n = 0 \/ waiting[n] # 0,
         NEW how \in {"switch", "first"}, NEW b \in ResumedFlag(n, how)
  PROVE  ~b
<1>1. ctx[n] = "C" /\ ~ifWas[n]
  BY DEF LeakInv, Masked
<1>2. b \in BOOLEAN /\ (how = "switch" => b = ifWas[n]) /\ (how = "first" => ~b)
  BY <1>1, Zenon DEF ResumedFlag
<1> QED BY <1>1, <1>2

\* A switch keeps kernel code masked, if the one who gets the CPU finds IF off
LEMMA SwitchMasked ==
  ASSUME LeakInv, ~leaked, NEW n \in Slots, n # current,
         NEW how, NEW ctxs \in [Slots -> Styles],
         SwitchTo(n, how, ctxs),
         n = 0 \/ waiting[n] # 0 => ~iflag',
         \A s \in Slots : s # current => ctxs[s] = ctx[s],
         ctxs[0] = "C",
         \A s \in Slots : s # current => waiting'[s] = waiting[s],
         waiting'[current] # 0 => ctxs[current] = "C",
         \A s \in Slots : ~ifWas'[s],
         UNCHANGED cut
  PROVE  Masked'
<1>1. current' = n
  BY DEF SwitchTo
<1>2. current' = 0 \/ waiting'[current'] # 0 => ~iflag'
  BY <1>1
<1>3. ctx'[0] = "C"
  BY SlotZero DEF SwitchTo
<1>4. \A s \in Slots : s # current' /\ waiting'[s] # 0 => ctx'[s] = "C"
  BY <1>1 DEF SwitchTo, LeakInv, Masked
<1> QED BY <1>2, <1>3, <1>4 DEF Masked, LeakInv

LEMMA LeakTick == ASSUME LeakInv, Tick PROVE Masked'
<1> SUFFICES ASSUME ~leaked' PROVE Masked'
  BY DEF Masked
<1>1. PICK n \in Slots :
        /\ IF n = current THEN UNCHANGED <<state, cpu>> ELSE Preempt(n)
        /\ leaked' = (leaked \/ (n # current /\ ctx[n] = "C" /\ iflag' /\ ~ifWas[n]))
  BY DEF Tick
<1>2. /\ ~leaked /\ UNCHANGED <<waiting, cut>>
      /\ current # 0 /\ waiting[current] = 0
  BY <1>1 DEF Tick, LeakInv, Masked
<1>3. CASE n = current
  BY <1>1, <1>2, <1>3 DEF cpu, LeakInv, Masked
<1>4. CASE n # current
  <2>1. /\ SwitchTo(n, "stub", [ctx EXCEPT ![current] = "IRQ"])
        /\ Park("IRQ", FALSE)
    BY <1>1, <1>4 DEF Preempt
  <2>2. ctx \in [Slots -> Styles] /\ current \in Slots /\ ifWas \in [Slots -> BOOLEAN]
    BY DEF LeakInv, SoloInv, TypeOK
  <2>3. [ctx EXCEPT ![current] = "IRQ"] \in [Slots -> Styles]
    BY <2>2 DEF Styles
  <2>4. \A s \in Slots : ~ifWas'[s]
    BY <1>2, <2>1, <2>2 DEF Park, LeakInv, Masked
  <2>5. [ctx EXCEPT ![current] = "IRQ"][0] = "C"
    BY <1>2, <2>2, SlotZero DEF LeakInv, Masked
  <2>6. n = 0 \/ waiting[n] # 0 => ~iflag'
    BY <1>1, <1>2, <1>4 DEF LeakInv, Masked
  <2> QED BY <1>2, <1>4, <2>1, <2>2, <2>3, <2>4, <2>5, <2>6, SwitchMasked
<1> QED BY <1>3, <1>4

LEMMA LeakExec == ASSUME NEW o \in Outcomes, LeakInv, SysExec(o) PROVE Masked' /\ waiting'[0] = 0
<1>1. PICK s \in Slots : /\ FindFree(s) /\ Build(s, nextPid, o)
                         /\ waiting' = [waiting EXCEPT ![s] = 0]
  BY DEF SysExec
<1>2. s # 0 /\ s # current
  BY <1>1, FreeSlot DEF LeakInv, FindFree
<1>3. UNCHANGED <<current, iflag, ifWas, leaked, cut>>
  BY DEF SysExec
<1>4. TypeOK
  BY DEF LeakInv, SoloInv
<1>5. /\ waiting'[s] = 0
      /\ \A t \in Slots : t # s => ctx'[t] = ctx[t] /\ waiting'[t] = waiting[t]
  BY <1>1, <1>4 DEF Build, TypeOK
<1>6. waiting'[0] = 0
  BY <1>2, <1>5, SlotZero DEF LeakInv, Waits
<1>7. Masked'
  <2>1. current \in Slots
    BY <1>4 DEF TypeOK
  <2> QED BY <1>2, <1>3, <1>5, <2>1, SlotZero DEF LeakInv, Masked
<1> QED BY <1>6, <1>7

LEMMA LeakExit == ASSUME NEW c \in Codes, LeakInv, SysExit(c) PROVE Masked'
<1> SUFFICES ASSUME ~leaked' PROVE Masked'
  BY DEF Masked
<1> DEFINE up == {s \in Slots : ProcGet(parent[current], s)}
           woken == [s \in Slots |-> IF s = current THEN "TERMINATED"
                                     ELSE IF s \in up /\ state[s] = "BLOCKED" THEN "READY"
                                     ELSE state[s]]
<1>1. PICK n \in Slots : NextReady(woken, present, n) /\ SwitchTo(n, "first", ctx)
  BY DEF SysExit
<1>2. UNCHANGED <<waiting, ifWas, leaked, cut>> /\ waiting[current] = 0
  BY DEF SysExit, InRing3
<1>3. n # current
  <2>1. woken[n] = "READY"
    BY <1>1 DEF NextReady
  <2> QED BY <2>1
<1>4. n = 0 \/ waiting[n] # 0 => ~iflag'
  BY <1>1, <1>2, <1>3, ResumedOff DEF SwitchTo
<1>5. ctx \in [Slots -> Styles]
  BY DEF LeakInv, SoloInv, TypeOK
<1> QED BY <1>1, <1>2, <1>3, <1>4, <1>5, SwitchMasked DEF LeakInv, Masked

LEMMA LeakWaitReturn ==
  ASSUME LeakInv, current # 0, NEW k, NEW c, WaitReturn(k, c)
  PROVE  Masked' /\ waiting'[0] = 0
<1>1. /\ UNCHANGED <<current, ctx, ifWas, leaked, cut>>
      /\ waiting' = [waiting EXCEPT ![current] = 0]
  BY DEF WaitReturn
<1>2. waiting \in [Slots -> 0 .. MaxPid] /\ current \in Slots
  BY DEF LeakInv, SoloInv, TypeOK
<1>3. waiting'[current] = 0 /\ \A s \in Slots : s # current => waiting'[s] = waiting[s]
  BY <1>1, <1>2
<1> QED BY <1>1, <1>3, SlotZero DEF LeakInv, Masked, Waits

\* A cooperative switch by a process that has IF off, or after IF has leaked
LEMMA LeakSchedSwitch ==
  ASSUME LeakInv, NEW st, NEW flag \in BOOLEAN, NEW n \in Slots, n # current,
         SchedSwitch(st, flag, n),
         ~leaked => ~flag,
         \A s \in Slots : s # current => waiting'[s] = waiting[s],
         UNCHANGED <<leaked, cut>>
  PROVE  Masked'
<1> SUFFICES ASSUME ~leaked' PROVE Masked'
  BY DEF Masked
<1>1. SwitchTo(n, "switch", [ctx EXCEPT ![current] = "C"]) /\ Park("C", flag)
  BY DEF SchedSwitch
<1>2. TypeOK /\ current \in Slots
  BY DEF LeakInv, SoloInv, TypeOK
<1>3. [ctx EXCEPT ![current] = "C"] \in [Slots -> Styles]
  BY <1>2 DEF TypeOK, Styles
<1>4. \A s \in Slots : ~ifWas'[s]
  BY <1>1, <1>2 DEF Park, TypeOK, LeakInv, Masked
<1>5. /\ \A s \in Slots : s # current => [ctx EXCEPT ![current] = "C"][s] = ctx[s]
      /\ [ctx EXCEPT ![current] = "C"][0] = "C"
      /\ [ctx EXCEPT ![current] = "C"][current] = "C"
  BY <1>2, SlotZero DEF TypeOK, LeakInv, Masked
<1>6. n = 0 \/ waiting[n] # 0 => ~iflag'
  BY <1>1, ResumedOff DEF SwitchTo
<1> QED BY <1>1, <1>3, <1>4, <1>5, <1>6, SwitchMasked

LEMMA LeakWaitBlock ==
  ASSUME LeakInv, current # 0, NEW k \in 0 .. MaxPid, NEW flag \in BOOLEAN, ~leaked => ~flag,
         WaitBlock(k, flag)
  PROVE  Masked' /\ waiting'[0] = 0
<1> DEFINE st == [state EXCEPT ![current] = "BLOCKED"]
<1>0. TypeOK /\ Solo
  BY DEF LeakInv, SoloInv
<1>1. ~NothingReady(st, present)
  BY <1>0, SlotZero DEF NothingReady, Solo, TypeOK
<1>2. PICK n \in Slots : NextReady(st, present, n) /\ SchedSwitch("BLOCKED", flag, n)
  BY <1>1 DEF WaitBlock
<1>3. n # current
  BY <1>0, <1>2 DEF NextReady, TypeOK
<1>4. /\ \A s \in Slots : s # current => waiting'[s] = waiting[s]
      /\ UNCHANGED <<leaked, cut>>
  BY <1>0 DEF WaitBlock, TypeOK
<1>5. waiting'[0] = 0
  BY <1>4, SlotZero DEF LeakInv, Waits
<1> QED BY <1>2, <1>3, <1>4, <1>5, LeakSchedSwitch

LEMMA LeakWait == ASSUME NEW k \in Pids, LeakInv, SysWait(k) PROVE Masked' /\ waiting'[0] = 0
<1>1. k \in 0 .. MaxPid /\ current # 0 /\ FALSE \in BOOLEAN
  BY PidAssumption DEF Pids, SysWait, InRing3
<1> QED BY <1>1, LeakWaitReturn, LeakWaitBlock DEF SysWait, WaitRound

LEMMA LeakWaitResume == ASSUME LeakInv, WaitResume PROVE Masked' /\ waiting'[0] = 0
<1>1. /\ current # 0 /\ waiting[current] \in 0 .. MaxPid /\ iflag \in BOOLEAN
      /\ ~leaked => ~iflag
  BY DEF WaitResume, LeakInv, Masked, SoloInv, Solo, TypeOK
<1> QED BY <1>1, LeakWaitReturn, LeakWaitBlock DEF WaitResume, WaitRound, NullKid

LEMMA LeakYield == ASSUME LeakInv, InitYield PROVE Masked'
<1>1. PICK n \in Slots :
        IF n = current THEN UNCHANGED <<state, cpu>> ELSE SchedSwitch("READY", iflag, n)
  BY DEF InitYield
<1>2. /\ current = 0 /\ UNCHANGED <<waiting, leaked, cut>> /\ iflag \in BOOLEAN
      /\ ~leaked => ~iflag
  BY DEF InitYield, InitOnly, AtInit, LeakInv, Masked, SoloInv, TypeOK
<1>3. CASE n = current
  BY <1>1, <1>2, <1>3 DEF cpu, LeakInv, Masked
<1>4. CASE n # current
  BY <1>1, <1>2, <1>4, LeakSchedSwitch
<1> QED BY <1>3, <1>4

LEMMA LeakClaim == ASSUME LeakInv, InitClaim PROVE Masked' /\ Waits'
<1>1. /\ current = 0 /\ pc = "claim" /\ pc' = "build"
      /\ waiting' = [waiting EXCEPT ![loc] = 0]
      /\ UNCHANGED <<current, iflag, ctx, ifWas, leaked, cut, loc>>
  BY DEF InitClaim, InitOnly, AtInit, cpu
<1>2. loc \in Slots /\ waiting \in [Slots -> 0 .. MaxPid]
  BY <1>1 DEF LeakInv, SoloInv, Solo, Work, TypeOK
<1>3. waiting'[loc] = 0 /\ \A s \in Slots : s # loc => waiting'[s] = waiting[s]
  BY <1>1, <1>2
<1> QED BY <1>1, <1>3, SlotZero DEF LeakInv, Masked, Waits

LEMMA LeakBuild == ASSUME NEW o \in Outcomes, LeakInv, InitBuild(o) PROVE Masked' /\ Waits'
<1>1. /\ current = 0 /\ pc = "build" /\ pc' # "build" /\ Build(loc, pid[loc], o)
      /\ UNCHANGED <<current, iflag, ifWas, waiting, leaked, cut>>
  BY DEF InitBuild, InitGoesOn, InitOnly, AtInit
<1>2. loc \in Slots /\ loc # 0 /\ waiting[loc] = 0
  BY <1>1 DEF LeakInv, SoloInv, Solo, Work, Waits
<1>3. \A t \in Slots : t # loc => ctx'[t] = ctx[t]
  BY <1>1 DEF Build, LeakInv, SoloInv, TypeOK
<1> QED BY <1>1, <1>2, <1>3, SlotZero DEF LeakInv, Masked, Waits

LEMMA LeakStep == LeakInv /\ [Next]_vars => LeakInv'
<1> SUFFICES ASSUME LeakInv, [Next]_vars PROVE LeakInv'
  OBVIOUS
<1>1. SoloInv'
  BY SoloStep DEF LeakInv
<1>2. ASSUME Masked', Waits' PROVE LeakInv'
  BY <1>1, <1>2 DEF LeakInv
<1>3. CASE UNCHANGED vars
  BY <1>1, <1>3 DEF LeakInv, Masked, Waits, vars, cpu, initVars
<1>4. CASE TickInSection
  <2>1. leaked /\ leaked' = leaked /\ UNCHANGED <<waiting, pc, loc>>
    BY <1>4 DEF TickInSection, Section, LeakInv, SoloInv, Solo, Work, Masked, initVars
  <2> QED BY <1>2, <2>1 DEF LeakInv, Masked, Waits
<1>5. ASSUME current # 0, Masked', waiting'[0] = 0, UNCHANGED initVars PROVE LeakInv'
  <2>1. pc' # "build"
    BY <1>5 DEF LeakInv, SoloInv, Solo, Work, initVars
  <2> QED BY <1>2, <1>5, <2>1 DEF Waits
<1>6. CASE Tick
  <2>1. UNCHANGED <<waiting, pc, loc>>
    BY <1>6 DEF Tick, initVars
  <2> QED BY <1>2, <1>6, <2>1, LeakTick DEF LeakInv, Waits
<1>7. ASSUME NEW o \in Outcomes, SysExec(o) PROVE LeakInv'
  BY <1>5, <1>7, LeakExec DEF SysExec, InRing3
<1>8. ASSUME NEW c \in Codes, SysExit(c) PROVE LeakInv'
  BY <1>5, <1>8, LeakExit DEF SysExit, InRing3, LeakInv, Waits
<1>9. ASSUME NEW k \in Pids, SysWait(k) PROVE LeakInv'
  BY <1>5, <1>9, LeakWait DEF SysWait, InRing3, WaitRound, WaitReturn, WaitBlock
<1>10. ASSUME NEW k \in Pids, SysSend(k) PROVE LeakInv'
  <2>1. UNCHANGED <<current, iflag, ctx, ifWas, waiting, leaked, cut, initVars>> /\ current # 0
    BY <1>10 DEF SysSend, InRing3, cpu
  <2> QED BY <1>5, <2>1 DEF LeakInv, Masked, Waits
<1>11. CASE WaitBegin
  <2>1. UNCHANGED <<current, iflag, ctx, ifWas, waiting, leaked, cut, initVars>> /\ current # 0
    BY <1>11 DEF WaitBegin, cpu
  <2> QED BY <1>5, <2>1 DEF LeakInv, Masked, Waits
<1>12. CASE WaitResume
  <2>1. current # 0 /\ UNCHANGED initVars
    BY <1>12 DEF WaitResume, WaitRound, NullKid, WaitReturn, WaitBlock, LeakInv, SoloInv, Solo
  <2> QED BY <1>5, <1>12, <2>1, LeakWaitResume
<1>13. CASE InitClaim
  BY <1>2, <1>13, LeakClaim
<1>14. ASSUME NEW o \in Outcomes, InitBuild(o) PROVE LeakInv'
  BY <1>2, <1>14, LeakBuild
<1>15. CASE InitYield
  BY <1>2, <1>15, LeakYield DEF InitYield, LeakInv, Waits
<1>16. CASE InitFind \/ InitWatch \/ InitGcScan \/ InitGcFree \/ InitGcClear
  <2>1. UNCHANGED <<current, iflag, ctx, ifWas, waiting, leaked, cut>> /\ pc' # "build"
    BY <1>16 DEF InitFind, InitGoesOn, InitWatch, InitGcScan, InitGcFree, InitGcClear, InitOnly,
                 AtInit, cpu
  <2> QED BY <1>2, <2>1 DEF LeakInv, Masked, Waits
<1>17. CASE InitLogin \/ InitShell
  <2>1. UNCHANGED <<current, ctx, ifWas, waiting, cut>> /\ pc' # "build"
        /\ (leaked' = TRUE \/ UNCHANGED <<leaked, iflag>>)
    BY <1>17 DEF InitLogin, InitShell, HashPassword, InitOnly, AtInit, cpu
  <2> QED BY <1>2, <2>1 DEF LeakInv, Masked, Waits
<1> QED BY <1>3, <1>4, <1>6, <1>7, <1>8, <1>9, <1>10, <1>11, <1>12, <1>13, <1>14, <1>15, <1>16,
           <1>17 DEF Next, Kernel, InitStep

\* As long as the timer stub has resumed nobody with IF set against if_was (isr_common_stub) and
\* the ring-0 session has hashed no password (auth_hash_password), init and proc_waitpid run
\* with interrupts off and no tick cuts a section
THEOREM MaskedUntilLeaked == Spec => []MaskedUntilLeak
<1>1. LeakInv => MaskedUntilLeak
  BY DEF LeakInv, Masked, MaskedUntilLeak
<1> QED BY <1>1, LeakInit, LeakStep, PTL DEF Spec
=============================================================================
