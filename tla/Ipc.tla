-------------------------------- MODULE Ipc --------------------------------
(***************************************************************************)
(* The kernel's message passing, src/src/kernel/ipc.c: a fixed table of    *)
(* mailboxes, each a ring of messages, given to a pid on first use and     *)
(* never taken back.  Its calls run inside a system call with interrupts   *)
(* off, so each is one step; the wake-up of the receiver is SysSend of     *)
(* Kinesis.                                                                *)
(***************************************************************************)
EXTENDS Integers, Sequences

CONSTANTS
  B,         \* MAILBOX_MAX
  Q,         \* IPC_QUEUE_MAX
  Pids,      \* processes that call IPC
  Targets,   \* pids a message may be addressed to; 0 is nobody
  Data,      \* what a message carries: type and payload
  Capable    \* the processes that hold CAP_IPC

ASSUME RingAssumption == B \in Nat /\ Q \in Nat /\ B > 0 /\ Q > 0
ASSUME PidsAssumption == Targets \subseteq Nat /\ 0 \notin Pids /\ Pids \subseteq Targets
ASSUME CapableAssumption == Capable \subseteq Pids

Boxes == 0 .. B - 1
Ring == 0 .. Q - 1
Message == [sender : Pids, data : Data]
NoMsg == [sender |-> 0]

VARIABLES
  boxPid, boxMsgs, boxHead, boxCount, \* mailboxes[i].pid, msgs, head, count
  result                              \* what the last call returned

boxes == <<boxPid, boxMsgs, boxHead, boxCount>>
vars == <<boxes, result>>

Answer(p, call, code, msg) == [who |-> p, call |-> call, code |-> code, msg |-> msg]
-----------------------------------------------------------------------------
\* Faulty variant: mailbox_for takes an unused mailbox without looking for the pid's own
MailboxForAny(p, i) == boxPid[i] \in {p, 0} /\ \A j \in Boxes : boxPid[j] = 0 => i <= j

\* mailbox_for(p) = &mailboxes[i]: the mailbox of p, or else the first unused one
MailboxFor(p, i) ==
  \/ boxPid[i] = p /\ \A j \in Boxes : boxPid[j] = p => i <= j
  \/ /\ \A j \in Boxes : boxPid[j] # p
     /\ boxPid[i] = 0 /\ \A j \in Boxes : boxPid[j] = 0 => i <= j
NoMailbox(p) == \A j \in Boxes : boxPid[j] # p /\ boxPid[j] # 0

\* A mailbox taken for p starts empty
HeadFor(p, i) == IF boxPid[i] = p THEN boxHead[i] ELSE 0
CountFor(p, i) == IF boxPid[i] = p THEN boxCount[i] ELSE 0

\* Faulty variant: the check for a full ring is missing
PushUnchecked(p, i, m) ==
  /\ boxPid' = [boxPid EXCEPT ![i] = p]
  /\ boxHead' = [boxHead EXCEPT ![i] = HeadFor(p, i)]
  /\ boxMsgs' = [boxMsgs EXCEPT ![i][(HeadFor(p, i) + CountFor(p, i)) % Q] = m]
  /\ boxCount' = [boxCount EXCEPT ![i] = CountFor(p, i) + 1]

\* mailbox_push into the mailbox mailbox_for(p) returned; a full ring drops the message
Push(p, i, m) ==
  /\ boxPid' = [boxPid EXCEPT ![i] = p]
  /\ boxHead' = [boxHead EXCEPT ![i] = HeadFor(p, i)]
  /\ IF CountFor(p, i) >= Q
     THEN UNCHANGED <<boxMsgs, boxCount>>
     ELSE /\ boxMsgs' = [boxMsgs EXCEPT ![i][(HeadFor(p, i) + CountFor(p, i)) % Q] = m]
          /\ boxCount' = [boxCount EXCEPT ![i] = CountFor(p, i) + 1]

\* Faulty variant: the head does not move
PopKeepsHead(i) ==
  /\ boxCount' = [boxCount EXCEPT ![i] = boxCount[i] - 1]
  /\ UNCHANGED <<boxPid, boxMsgs, boxHead>>

\* mailbox_pop
Pop(i) ==
  /\ boxHead' = [boxHead EXCEPT ![i] = (boxHead[i] + 1) % Q]
  /\ boxCount' = [boxCount EXCEPT ![i] = boxCount[i] - 1]
  /\ UNCHANGED <<boxPid, boxMsgs>>
-----------------------------------------------------------------------------
Fail(p, call, code) == result' = Answer(p, call, code, NoMsg) /\ UNCHANGED boxes

\* do_send, ipc_send, ipc_reply
Send(p, to, d) ==
  /\ p \in Capable
  /\ \E i \in Boxes : MailboxFor(to, i) /\ Push(to, i, [sender |-> p, data |-> d])
  /\ result' = Answer(p, "send", 0, NoMsg)

\* ipc_try_receive: a message was there
Receive(p) ==
  /\ p \in Capable
  /\ \E i \in Boxes :
       /\ MailboxFor(p, i)
       /\ CountFor(p, i) > 0
       /\ Pop(i)
       /\ result' = Answer(p, "recv", 0, boxMsgs[i][boxHead[i]])

\* ipc_try_receive: nothing there, but mailbox_for may have taken a mailbox for p
ReceiveEmpty(p) ==
  /\ p \in Capable
  /\ \E i \in Boxes :
       /\ MailboxFor(p, i)
       /\ CountFor(p, i) = 0
       /\ boxPid' = [boxPid EXCEPT ![i] = p]
       /\ boxHead' = [boxHead EXCEPT ![i] = HeadFor(p, i)]
       /\ boxCount' = [boxCount EXCEPT ![i] = 0]
  /\ result' = Answer(p, "recv", -3, NoMsg)
  /\ UNCHANGED boxMsgs

\* ipc_cap_ok fails
Denied(p, call) == p \notin Capable /\ Fail(p, call, -1)

\* mailbox_for fails: every mailbox belongs to another pid
Refused(p, call, q) == p \in Capable /\ NoMailbox(q) /\ Fail(p, call, -2)

\* ipc_init
Init ==
  /\ boxPid = [i \in Boxes |-> 0]
  /\ boxMsgs = [i \in Boxes |-> [k \in Ring |-> NoMsg]]
  /\ boxHead = [i \in Boxes |-> 0]
  /\ boxCount = [i \in Boxes |-> 0]
  /\ result = Answer(0, "none", 0, NoMsg)

Next ==
  \E p \in Pids :
    \/ \E to \in Targets, d \in Data : Send(p, to, d)
    \/ Receive(p)
    \/ ReceiveEmpty(p)
    \/ \E call \in {"send", "recv"} : Denied(p, call)
    \/ \E to \in Targets : Refused(p, "send", to)
    \/ Refused(p, "recv", p)

Spec == Init /\ [][Next]_vars
-----------------------------------------------------------------------------
(***************************************************************************)
(* Properties.                                                             *)
(***************************************************************************)
\* Every variable keeps its type
TypeOK ==
  /\ boxPid \in [Boxes -> Targets \cup {0}]
  /\ boxMsgs \in [Boxes -> [Ring -> Message \cup {NoMsg}]]
  /\ boxHead \in [Boxes -> Ring]
  /\ boxCount \in [Boxes -> 0 .. Q]

\* A pid has one mailbox: no sequence of first sends and first receives splits its messages
OneMailbox == \A i, j \in Boxes : boxPid[i] = boxPid[j] /\ boxPid[i] # 0 => i = j

\* The messages of mailbox i, oldest first
Contents(i) == [k \in 1 .. boxCount[i] |-> boxMsgs[i][(boxHead[i] + k - 1) % Q]]

\* The queue of a pid, whichever mailbox holds it
QueueOf(p) ==
  IF \E i \in Boxes : boxPid[i] = p
  THEN Contents(CHOOSE i \in Boxes : boxPid[i] = p) ELSE <<>>

Fifo == INSTANCE MailFifo WITH
  opened <- {boxPid[i] : i \in Boxes} \ {0},
  queue <- [p \in Targets \ {0} |-> QueueOf(p)]

\* The ring buffers behave as bounded queues: what a process receives is what was sent to it,
\* once, in the order of sending, and only a full queue drops a message
ImplementsFifo == Fifo!Spec

\* What docs/SYSCALL-ABI.md says of a full mailbox: the sender waits for a free slot, so a send
\* that succeeds has put its message in the receiver's mailbox
AcceptedIsQueued ==
  [][\A p \in Pids, to \in Targets \ {0}, d \in Data :
       Send(p, to, d) => Len(QueueOf(to)') = Len(QueueOf(to)) + 1]_vars
=============================================================================
