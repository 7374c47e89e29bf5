------------------------------ MODULE MailFifo ------------------------------
(***************************************************************************)
(* What the kernel's IPC promises a program: every process has a bounded   *)
(* first-in first-out queue of messages, opened the first time the process *)
(* is written to or reads.  A message to a full queue is dropped and the   *)
(* sender is told nothing; a queue that was never opened may be refused.   *)
(***************************************************************************)
EXTENDS Integers, Sequences

CONSTANTS
  Pids,      \* processes that call IPC
  Targets,   \* pids a message may be addressed to; 0 is nobody
  Data,      \* what a message carries: type and payload
  Capable,   \* the processes that hold CAP_IPC
  Q          \* messages a queue holds

VARIABLES
  opened,    \* pids that have a queue
  queue,     \* the queue of every pid
  result     \* what the last call returned

vars == <<opened, queue, result>>

Receivers == Targets \ {0}
Message == [sender : Pids, data : Data]

\* A call of process p returned code; a receive that succeeded also returned msg
Answer(p, call, code, msg) == [who |-> p, call |-> call, code |-> code, msg |-> msg]
NoMsg == [sender |-> 0]

Init ==
  /\ opened = {}
  /\ queue = [p \in Receivers |-> <<>>]
  /\ result = Answer(0, "none", 0, NoMsg)

Fail(p, call, code) ==
  /\ result' = Answer(p, call, code, NoMsg)
  /\ UNCHANGED <<opened, queue>>

Send(p, to, d) ==
  LET m == [sender |-> p, data |-> d]
  IN  /\ p \in Capable
      /\ opened' = opened \cup {to}
      /\ queue' = IF Len(queue[to]) < Q
                  THEN [queue EXCEPT ![to] = Append(queue[to], m)] ELSE queue
      /\ result' = Answer(p, "send", 0, NoMsg)

\* A message to pid 0 is accepted and goes nowhere
SendNowhere(p) == p \in Capable /\ Fail(p, "send", 0)

Receive(p) ==
  /\ p \in Capable
  /\ queue[p] # <<>>
  /\ result' = Answer(p, "recv", 0, Head(queue[p]))
  /\ queue' = [queue EXCEPT ![p] = Tail(queue[p])]
  /\ UNCHANGED opened

ReceiveEmpty(p) ==
  /\ p \in Capable
  /\ queue[p] = <<>>
  /\ opened' = opened \cup {p}
  /\ result' = Answer(p, "recv", -3, NoMsg)
  /\ UNCHANGED queue

Denied(p, call) == p \notin Capable /\ Fail(p, call, -1)
Refused(p, call, q) == q \notin opened /\ Fail(p, call, -2)

Next ==
  \E p \in Pids :
    \/ \E to \in Receivers, d \in Data : Send(p, to, d)
    \/ SendNowhere(p)
    \/ Receive(p)
    \/ ReceiveEmpty(p)
    \/ \E call \in {"send", "recv"} : Denied(p, call)
    \/ \E to \in Targets : Refused(p, "send", to)
    \/ Refused(p, "recv", p)

Spec == Init /\ [][Next]_vars
=============================================================================
