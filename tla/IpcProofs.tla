----------------------------- MODULE IpcProofs -----------------------------
(***************************************************************************)
(* Proofs about Ipc, for every number of mailboxes, every ring size and    *)
(* every set of processes and messages: types, one mailbox per pid, and    *)
(* that the rings implement the bounded queues of MailFifo.                *)
(***************************************************************************)
EXTENDS Ipc, SequenceTheorems, TLAPS

\* The remainder, over the range a ring index can reach
LEMMA ModBelow == ASSUME NEW x \in Nat, x < Q PROVE x % Q = x
BY RingAssumption
LEMMA ModAbove == ASSUME NEW x \in Nat, x >= Q, x < Q + Q PROVE x % Q = x - Q
BY RingAssumption

IpcInv == TypeOK /\ OneMailbox

LEMMA ZeroInRing == 0 \in Ring /\ 0 \in 0 .. Q
BY RingAssumption DEF Ring

LEMMA IpcInit == Init => IpcInv
<1> SUFFICES ASSUME Init PROVE IpcInv
  OBVIOUS
<1>1. TypeOK
  BY ZeroInRing DEF Init, TypeOK
<1>2. OneMailbox
  BY DEF Init, OneMailbox
<1> QED BY <1>1, <1>2 DEF IpcInv

LEMMA ForType ==
  ASSUME TypeOK, NEW p, NEW i \in Boxes
  PROVE  HeadFor(p, i) \in Ring /\ CountFor(p, i) \in 0 .. Q
BY ZeroInRing DEF HeadFor, CountFor, TypeOK

\* Giving mailbox_for's answer to its pid makes no second mailbox of that pid
LEMMA TakeKeepsOne ==
  ASSUME IpcInv, NEW p \in Targets, NEW i \in Boxes, MailboxFor(p, i),
         boxPid' = [boxPid EXCEPT ![i] = p]
  PROVE  OneMailbox' /\ boxPid' \in [Boxes -> Targets \cup {0}]
BY DEF IpcInv, TypeOK, OneMailbox, MailboxFor

LEMMA SendStep ==
  ASSUME IpcInv, NEW p \in Pids, NEW to \in Targets, NEW d \in Data, Send(p, to, d)
  PROVE  IpcInv'
<1> DEFINE m == [sender |-> p, data |-> d]
<1>1. PICK i \in Boxes : MailboxFor(to, i) /\ Push(to, i, m)
  BY DEF Send
<1> DEFINE h == HeadFor(to, i)
           c == CountFor(to, i)
<1>2. h \in Ring /\ c \in 0 .. Q
  BY ForType DEF IpcInv
<1>3. m \in Message
  BY DEF Message
<1> HIDE DEF m, h, c
<1>4. boxHead' \in [Boxes -> Ring]
  BY <1>1, <1>2 DEF Push, IpcInv, TypeOK, h
<1>5. CASE c >= Q
  BY <1>1, <1>4, <1>5, TakeKeepsOne DEF Push, IpcInv, TypeOK, c
<1>6. CASE c < Q
  <2>1. /\ boxMsgs' = [boxMsgs EXCEPT ![i] = [boxMsgs[i] EXCEPT ![(h + c) % Q] = m]]
        /\ boxCount' = [boxCount EXCEPT ![i] = c + 1]
    BY <1>1, <1>2, <1>6, RingAssumption DEF Push, h, c
  <2>2. boxCount' \in [Boxes -> 0 .. Q]
    BY <1>2, <1>6, <2>1, RingAssumption DEF IpcInv, TypeOK
  <2>3. boxMsgs' \in [Boxes -> [Ring -> Message \cup {NoMsg}]]
    BY <1>3, <2>1 DEF IpcInv, TypeOK
  <2> QED BY <1>1, <1>4, <2>2, <2>3, TakeKeepsOne DEF Push, IpcInv, TypeOK
<1> QED BY <1>2, <1>5, <1>6, RingAssumption

LEMMA ReceiveStep ==
  ASSUME IpcInv, NEW p \in Pids, Receive(p) \/ ReceiveEmpty(p)
  PROVE  IpcInv'
<1>0. p \in Targets /\ p # 0
  BY PidsAssumption
<1>1. CASE Receive(p)
  <2>1. PICK i \in Boxes : MailboxFor(p, i) /\ CountFor(p, i) > 0 /\ Pop(i)
    BY <1>1 DEF Receive
  <2>2. boxPid[i] = p /\ boxCount[i] \in 1 .. Q
    BY <2>1, RingAssumption DEF CountFor, IpcInv, TypeOK
  <2>3. (boxHead[i] + 1) % Q \in Ring
    BY RingAssumption DEF IpcInv, TypeOK, Ring
  <2>4. boxCount[i] - 1 \in 0 .. Q
    BY <2>2, RingAssumption
  <2>5. TypeOK'
    BY <2>1, <2>3, <2>4 DEF Pop, IpcInv, TypeOK
  <2>6. OneMailbox'
    BY <2>1 DEF Pop, IpcInv, OneMailbox
  <2> QED BY <2>5, <2>6 DEF IpcInv
<1>2. CASE ReceiveEmpty(p)
  <2>1. PICK i \in Boxes :
          /\ MailboxFor(p, i)
          /\ boxPid' = [boxPid EXCEPT ![i] = p]
          /\ boxHead' = [boxHead EXCEPT ![i] = HeadFor(p, i)]
          /\ boxCount' = [boxCount EXCEPT ![i] = 0]
    BY <1>2 DEF ReceiveEmpty
  <2>2. boxPid' \in [Boxes -> Targets \cup {0}] /\ OneMailbox'
    BY <1>0, <2>1, TakeKeepsOne
  <2>3. HeadFor(p, i) \in Ring
    BY ForType DEF IpcInv
  <2>4. TypeOK'
    BY <1>2, <2>1, <2>2, <2>3, ZeroInRing DEF ReceiveEmpty, IpcInv, TypeOK
  <2> QED BY <2>2, <2>4 DEF IpcInv
<1> QED BY <1>1, <1>2

LEMMA IpcStep == IpcInv /\ [Next]_vars => IpcInv'
<1> SUFFICES ASSUME IpcInv, [Next]_vars PROVE IpcInv'
  OBVIOUS
<1>1. CASE UNCHANGED vars
  BY <1>1 DEF IpcInv, TypeOK, OneMailbox, vars, boxes
<1>2. ASSUME UNCHANGED boxes PROVE IpcInv'
  BY <1>2 DEF IpcInv, TypeOK, OneMailbox, boxes
<1> QED BY <1>1, <1>2, SendStep, ReceiveStep DEF Next, Denied, Refused, Fail

LEMMA IpcAlways == Spec => []IpcInv
BY IpcInit, IpcStep, PTL DEF Spec

\* The mailbox table and the rings keep their types: head and count never leave the ring
THEOREM IpcTypeCorrect == Spec => []TypeOK
BY IpcAlways, PTL DEF IpcInv

\* No pid ever has two mailboxes
THEOREM OneMailboxAlways == Spec => []OneMailbox
BY IpcAlways, PTL DEF IpcInv
-----------------------------------------------------------------------------
(***************************************************************************)
(* The refinement: the ring of a mailbox, read from its head, is the queue *)
(* of the pid that owns it.                                                *)
(***************************************************************************)
Msg == Message \cup {NoMsg}

\* The c messages of ring f from index h on; of the mailboxes' rings it is Contents
RingSeq(f, h, c) == [k \in 1 .. c |-> f[(h + k - 1) % Q]]

LEMMA ModInRing == ASSUME NEW x \in Nat PROVE x % Q \in Ring
BY RingAssumption DEF Ring

\* Two indices less than a turn apart are different places of the ring
LEMMA ModDistinct ==
  ASSUME NEW a \in Nat, NEW b \in Nat, a < b, b < a + Q, b < Q + Q
  PROVE  a % Q # b % Q
<1>1. CASE b < Q
  <2>1. a < Q
    BY <1>1, RingAssumption
  <2>2. a % Q = a /\ b % Q = b
    BY <1>1, <2>1, ModBelow
  <2> QED BY <2>2
<1>2. CASE b >= Q /\ a < Q
  <2>1. a % Q = a
    BY <1>2, ModBelow
  <2>2. b % Q = b - Q
    BY <1>2, ModAbove
  <2> QED BY <2>1, <2>2, RingAssumption
<1>3. CASE b >= Q /\ a >= Q
  <2>1. a < Q + Q
    BY RingAssumption
  <2>2. a % Q = a - Q /\ b % Q = b - Q
    BY <1>3, <2>1, ModAbove
  <2> QED BY <2>2, RingAssumption
<1> QED BY <1>1, <1>2, <1>3, RingAssumption

LEMMA RingSeqType ==
  ASSUME NEW f \in [Ring -> Msg], NEW h \in Ring, NEW c \in 0 .. Q
  PROVE  /\ RingSeq(f, h, c) \in Seq(Msg)
         /\ Len(RingSeq(f, h, c)) = c
         /\ \A k \in 1 .. c : RingSeq(f, h, c)[k] = f[(h + k - 1) % Q]
<1>1. h \in Nat /\ c \in Nat
  BY RingAssumption DEF Ring
<1>2. \A k \in 1 .. c : f[(h + k - 1) % Q] \in Msg
  <2> SUFFICES ASSUME NEW k \in 1 .. c PROVE f[(h + k - 1) % Q] \in Msg
    OBVIOUS
  <2>1. h + k - 1 \in Nat
    BY <1>1
  <2>2. (h + k - 1) % Q \in Ring
    BY <2>1, ModInRing
  <2> QED BY <2>2
<1>3. RingSeq(f, h, c) \in [1 .. c -> Msg]
  BY <1>2 DEF RingSeq
<1>4. RingSeq(f, h, c) \in Seq(Msg)
  BY <1>1, <1>3, SeqDef
<1>5. DOMAIN RingSeq(f, h, c) = 1 .. c
  BY <1>3
<1>6. Len(RingSeq(f, h, c)) = c
  BY <1>1, <1>4, <1>5, LenProperties
<1> QED BY <1>4, <1>6 DEF RingSeq

\* Writing at the place after the last message appends it
LEMMA RingPush ==
  ASSUME NEW f \in [Ring -> Msg], NEW h \in Ring, NEW c \in 0 .. Q, c < Q, NEW m \in Msg
  PROVE  RingSeq([f EXCEPT ![(h + c) % Q] = m], h, c + 1) = Append(RingSeq(f, h, c), m)
<1> DEFINE g == [f EXCEPT ![(h + c) % Q] = m]
           s == RingSeq(f, h, c)
           t == RingSeq(g, h, c + 1)
<1>1. h \in Nat /\ c \in Nat /\ h < Q /\ c + 1 \in 0 .. Q
  BY RingAssumption DEF Ring
<1>2. (h + c) % Q \in Ring
  BY <1>1, ModInRing
<1>3. g \in [Ring -> Msg] /\ g[(h + c) % Q] = m
  BY <1>2
<1>4. /\ s \in Seq(Msg) /\ Len(s) = c
      /\ \A k \in 1 .. c : s[k] = f[(h + k - 1) % Q]
  BY RingSeqType
<1>5. /\ t \in Seq(Msg) /\ Len(t) = c + 1
      /\ \A k \in 1 .. c + 1 : t[k] = g[(h + k - 1) % Q]
  <2> HIDE DEF g
  <2> QED BY <1>1, <1>3, RingSeqType
<1>6. ASSUME NEW k \in 1 .. c PROVE t[k] = s[k]
  <2>1. /\ k \in 1 .. c + 1 /\ h + k - 1 \in Nat /\ h + c \in Nat
        /\ h + k - 1 < h + c /\ h + c < h + k - 1 + Q /\ h + c < Q + Q
    BY <1>1, RingAssumption
  <2>2. (h + k - 1) % Q # (h + c) % Q
    BY <2>1, ModDistinct
  <2>3. (h + k - 1) % Q \in Ring
    BY <2>1, ModInRing
  <2>4. g[(h + k - 1) % Q] = f[(h + k - 1) % Q]
    BY <2>2, <2>3
  <2> QED BY <1>4, <1>5, <2>1, <2>4
<1>7. t[c + 1] = m
  <2>1. c + 1 \in 1 .. c + 1 /\ h + (c + 1) - 1 = h + c
    BY <1>1
  <2> QED BY <1>3, <1>5, <2>1
<1>8. /\ Append(s, m) \in Seq(Msg) /\ Len(Append(s, m)) = c + 1
      /\ \A k \in 1 .. c : Append(s, m)[k] = s[k]
      /\ Append(s, m)[c + 1] = m
  <2> HIDE DEF s
  <2> QED BY <1>1, <1>4, AppendProperties
<1>9. \A k \in 1 .. c + 1 : t[k] = Append(s, m)[k]
  <2> HIDE DEF s, t
  <2> QED BY <1>1, <1>6, <1>7, <1>8
<1> HIDE DEF s, t, g
<1>10. t = Append(s, m)
  BY <1>5, <1>8, <1>9, SeqEqual
<1> QED BY <1>10 DEF s, t, g

\* Moving the head on removes the first message
LEMMA RingPop ==
  ASSUME NEW f \in [Ring -> Msg], NEW h \in Ring, NEW c \in 0 .. Q, c > 0
  PROVE  /\ RingSeq(f, h, c) # <<>>
         /\ Head(RingSeq(f, h, c)) = f[h]
         /\ RingSeq(f, (h + 1) % Q, c - 1) = Tail(RingSeq(f, h, c))
<1> DEFINE s == RingSeq(f, h, c)
           h1 == (h + 1) % Q
           t == RingSeq(f, h1, c - 1)
<1>1. h \in Nat /\ c \in Nat /\ h < Q /\ c - 1 \in 0 .. Q /\ h + 1 \in Nat
  BY RingAssumption DEF Ring
<1>2. h1 \in Ring
  BY <1>1, ModInRing
<1>3. /\ s \in Seq(Msg) /\ Len(s) = c
      /\ \A k \in 1 .. c : s[k] = f[(h + k - 1) % Q]
  BY RingSeqType
<1>4. /\ t \in Seq(Msg) /\ Len(t) = c - 1
      /\ \A k \in 1 .. c - 1 : t[k] = f[(h1 + k - 1) % Q]
  <2> HIDE DEF h1
  <2> QED BY <1>1, <1>2, RingSeqType
<1>5. s # <<>>
  BY <1>3, EmptySeq
<1>6. Head(s) = f[h]
  <2>1. 1 \in 1 .. c /\ h + 1 - 1 = h
    BY <1>1
  <2>2. h % Q = h
    BY <1>1, ModBelow
  <2>3. s[1] = f[h]
    BY <1>3, <2>1, <2>2
  <2> HIDE DEF s
  <2> QED BY <1>3, <1>5, <2>3
<1>7. ASSUME NEW k \in 1 .. c - 1 PROVE t[k] = s[k + 1]
  <2>1. k + 1 \in 1 .. c /\ k \in Nat /\ k >= 1 /\ k < Q
    BY <1>1, RingAssumption
  <2>2. s[k + 1] = f[(h + (k + 1) - 1) % Q]
    BY <1>3, <2>1
  <2>3. (h1 + k - 1) % Q = (h + (k + 1) - 1) % Q
    <3>1. CASE h + 1 < Q
      <4>1. h1 = h + 1
        BY <1>1, <3>1, ModBelow
      <4>2. h1 + k - 1 = h + (k + 1) - 1
        BY <1>1, <2>1, <4>1
      <4> QED BY <4>2
    <3>2. CASE h + 1 = Q
      <4>1. h1 = 0
        <5>1. Q \in Nat /\ Q >= Q /\ Q < Q + Q
          BY RingAssumption
        <5>2. Q % Q = Q - Q
          BY <5>1, ModAbove
        <5> QED BY <3>2, <5>2, RingAssumption
      <4>2. /\ h1 + k - 1 = k - 1 /\ h + (k + 1) - 1 = k - 1 + Q
            /\ k - 1 \in Nat /\ k - 1 < Q
            /\ k - 1 + Q \in Nat /\ k - 1 + Q >= Q /\ k - 1 + Q < Q + Q
        BY <1>1, <2>1, <3>2, <4>1, RingAssumption
      <4>3. (k - 1) % Q = k - 1
        BY <4>2, ModBelow
      <4>4. PICK y \in Nat : y = k - 1 + Q
        BY <4>2
      <4>5. y % Q = y - Q
        BY <4>2, <4>4, ModAbove
      <4>6. y - Q = k - 1
        BY <4>2, <4>4, RingAssumption
      <4> QED BY <4>2, <4>3, <4>4, <4>5, <4>6
    <3> QED BY <1>1, <3>1, <3>2, RingAssumption
  <2> QED BY <1>4, <2>2, <2>3
<1>8. /\ Tail(s) \in Seq(Msg) /\ Len(Tail(s)) = c - 1
      /\ \A k \in 1 .. c - 1 : Tail(s)[k] = s[k + 1]
  <2> HIDE DEF s
  <2> QED BY <1>3, <1>5, HeadTailProperties
<1>9. t = Tail(s)
  <2> HIDE DEF s, t
  <2>1. \A k \in 1 .. Len(t) : t[k] = Tail(s)[k]
    BY <1>4, <1>7, <1>8
  <2> QED BY <1>4, <1>8, <2>1, SeqEqual
<1> QED BY <1>5, <1>6, <1>9

\* The queue of a pid that owns mailbox i, before and after a step
LEMMA QueueOwn ==
  ASSUME IpcInv, NEW i \in Boxes, boxPid[i] # 0
  PROVE  QueueOf(boxPid[i]) = RingSeq(boxMsgs[i], boxHead[i], boxCount[i])
<1>1. \A j \in Boxes : boxPid[j] = boxPid[i] => j = i
  BY DEF IpcInv, OneMailbox
<1>2. (CHOOSE j \in Boxes : boxPid[j] = boxPid[i]) = i
  BY <1>1
<1> QED BY <1>2 DEF QueueOf, Contents, RingSeq

LEMMA QueueOwnNext ==
  ASSUME IpcInv', NEW i \in Boxes, boxPid'[i] # 0
  PROVE  QueueOf(boxPid[i])' = RingSeq(boxMsgs'[i], boxHead'[i], boxCount'[i])
<1>1. \A j \in Boxes : boxPid'[j] = boxPid'[i] => j = i
  BY DEF IpcInv, OneMailbox
<1>2. (CHOOSE j \in Boxes : boxPid'[j] = boxPid'[i]) = i
  BY <1>1
<1> QED BY <1>2 DEF QueueOf, Contents, RingSeq

\* A step that leaves the mailbox of q alone, or leaves q without one, leaves its queue alone
LEMMA QueueSame ==
  ASSUME IpcInv, IpcInv', NEW q \in Targets, q # 0,
         \A j \in Boxes : boxPid[j] = q <=> boxPid'[j] = q,
         \A j \in Boxes : boxPid[j] = q => /\ boxMsgs'[j] = boxMsgs[j]
                                           /\ boxHead'[j] = boxHead[j]
                                           /\ boxCount'[j] = boxCount[j]
  PROVE  QueueOf(q)' = QueueOf(q)
<1>1. CASE \E j \in Boxes : boxPid[j] = q
  <2>1. PICK j \in Boxes : boxPid[j] = q
    BY <1>1
  <2>2. boxPid'[j] = q
    BY <2>1
  <2>3. QueueOf(q) = RingSeq(boxMsgs[j], boxHead[j], boxCount[j])
    BY <2>1, QueueOwn
  <2>4. QueueOf(q)' = RingSeq(boxMsgs'[j], boxHead'[j], boxCount'[j])
    <3>1. QueueOf(boxPid[j])' = RingSeq(boxMsgs'[j], boxHead'[j], boxCount'[j])
      BY <2>2, QueueOwnNext
    <3> QED BY <2>2, <3>1 DEF QueueOf, Contents
  <2> QED BY <2>1, <2>3, <2>4
<1>2. CASE ~ \E j \in Boxes : boxPid[j] = q
  BY <1>2 DEF QueueOf
<1> QED BY <1>1, <1>2

LEMMA RefineInit == Init => Fifo!Init
<1> SUFFICES ASSUME Init PROVE Fifo!Init
  OBVIOUS
<1>1. {boxPid[i] : i \in Boxes} \ {0} = {}
  BY DEF Init
<1>2. \A q \in Targets \ {0} : QueueOf(q) = <<>>
  BY DEF Init, QueueOf
<1>3. result = Fifo!Answer(0, "none", 0, Fifo!NoMsg)
  BY DEF Init, Answer, NoMsg, Fifo!Answer, Fifo!NoMsg
<1> QED BY <1>1, <1>2, <1>3 DEF Fifo!Init, Fifo!Receivers

\* What mailbox_for returns is the pid's own mailbox or an unused one
LEMMA MailboxForOwn ==
  ASSUME NEW p, NEW i \in Boxes, MailboxFor(p, i)
  PROVE  \/ boxPid[i] = p
         \/ boxPid[i] = 0 /\ \A j \in Boxes : boxPid[j] # p
BY DEF MailboxFor

\* The mailbox of p as mailbox_for leaves it holds the queue of p
LEMMA QueueFor ==
  ASSUME IpcInv, NEW p \in Targets, p # 0, NEW i \in Boxes, MailboxFor(p, i)
  PROVE  /\ QueueOf(p) = RingSeq(boxMsgs[i], HeadFor(p, i), CountFor(p, i))
         /\ Len(QueueOf(p)) = CountFor(p, i)
<1>1. HeadFor(p, i) \in Ring /\ CountFor(p, i) \in 0 .. Q /\ boxMsgs[i] \in [Ring -> Msg]
  BY ForType DEF IpcInv, TypeOK, Msg
<1>2. QueueOf(p) = RingSeq(boxMsgs[i], HeadFor(p, i), CountFor(p, i))
  <2>1. CASE boxPid[i] = p
    BY <2>1, QueueOwn DEF HeadFor, CountFor
  <2>2. CASE boxPid[i] # p
    <3>1. QueueOf(p) = <<>>
      BY <2>2, MailboxForOwn DEF QueueOf
    <3>2. CountFor(p, i) = 0
      BY <2>2 DEF CountFor
    <3>3. /\ RingSeq(boxMsgs[i], HeadFor(p, i), CountFor(p, i)) \in Seq(Msg)
          /\ Len(RingSeq(boxMsgs[i], HeadFor(p, i), CountFor(p, i))) = 0
      BY <1>1, <3>2, RingSeqType
    <3> QED BY <3>1, <3>3, EmptySeq
  <2> QED BY <2>1, <2>2
<1>3. Len(RingSeq(boxMsgs[i], HeadFor(p, i), CountFor(p, i))) = CountFor(p, i)
  BY <1>1, RingSeqType
<1> QED BY <1>2, <1>3

LEMMA RefineSend ==
  ASSUME IpcInv, IpcInv', NEW p \in Pids, NEW to \in Targets, NEW d \in Data, Send(p, to, d)
  PROVE  Fifo!Next
<1> DEFINE m == [sender |-> p, data |-> d]
<1>1. PICK i \in Boxes : MailboxFor(to, i) /\ Push(to, i, m)
  BY DEF Send
<1>2. p \in Capable /\ result' = Fifo!Answer(p, "send", 0, Fifo!NoMsg)
  BY DEF Send, Answer, NoMsg, Fifo!Answer, Fifo!NoMsg
<1>3. boxPid[i] \in {to, 0} /\ boxPid' = [boxPid EXCEPT ![i] = to]
  BY <1>1, MailboxForOwn DEF Push
<1>4. \A j \in Boxes : j # i => /\ boxMsgs'[j] = boxMsgs[j] /\ boxHead'[j] = boxHead[j]
                                /\ boxCount'[j] = boxCount[j] /\ boxPid'[j] = boxPid[j]
  BY <1>1 DEF Push, IpcInv, TypeOK
<1>5. boxPid'[i] = to
  BY <1>3 DEF IpcInv, TypeOK
<1>6. \A q \in Targets \ {0} : q # to => QueueOf(q)' = QueueOf(q)
  <2> SUFFICES ASSUME NEW q \in Targets \ {0}, q # to PROVE QueueOf(q)' = QueueOf(q)
    OBVIOUS
  <2>1. \A j \in Boxes : boxPid[j] = q <=> boxPid'[j] = q
    BY <1>3, <1>4, <1>5
  <2>2. \A j \in Boxes : boxPid[j] = q => j # i
    BY <1>3
  <2> QED BY <1>4, <2>1, <2>2, QueueSame
<1>7. CASE to = 0
  <2>1. boxPid' = boxPid
    BY <1>3, <1>7 DEF IpcInv, TypeOK
  <2>2. UNCHANGED [q \in Targets \ {0} |-> QueueOf(q)]
    BY <1>6, <1>7
  <2>3. Fifo!SendNowhere(p)
    BY <1>2, <2>1, <2>2 DEF Fifo!SendNowhere, Fifo!Fail, Fifo!Receivers
  <2> QED BY <2>3 DEF Fifo!Next
<1>8. CASE to # 0
  <2>1. {boxPid'[j] : j \in Boxes} \ {0} = ({boxPid[j] : j \in Boxes} \ {0}) \cup {to}
    BY <1>3, <1>4, <1>5, <1>8
  <2>2. /\ QueueOf(to) = RingSeq(boxMsgs[i], HeadFor(to, i), CountFor(to, i))
        /\ Len(QueueOf(to)) = CountFor(to, i)
    BY <1>1, <1>8, QueueFor
  <2>3. QueueOf(to)' = RingSeq(boxMsgs'[i], boxHead'[i], boxCount'[i])
    <3>1. QueueOf(boxPid[i])' = RingSeq(boxMsgs'[i], boxHead'[i], boxCount'[i])
      BY <1>5, <1>8, QueueOwnNext
    <3> QED BY <1>5, <3>1 DEF QueueOf, Contents
  <2>4. HeadFor(to, i) \in Ring /\ CountFor(to, i) \in 0 .. Q /\ boxMsgs[i] \in [Ring -> Msg]
    BY ForType DEF IpcInv, TypeOK, Msg
  <2>5. m \in Msg
    BY DEF Msg, Message
  <2>6. boxHead'[i] = HeadFor(to, i)
    BY <1>1 DEF Push, IpcInv, TypeOK
  <2>7. QueueOf(to)' = IF Len(QueueOf(to)) < Q THEN Append(QueueOf(to), m) ELSE QueueOf(to)
    <3>1. CASE CountFor(to, i) < Q
      <4>1. /\ boxMsgs'[i] = [boxMsgs[i] EXCEPT ![(HeadFor(to, i) + CountFor(to, i)) % Q] = m]
            /\ boxCount'[i] = CountFor(to, i) + 1
        BY <1>1, <2>4, <3>1, RingAssumption DEF Push, IpcInv, TypeOK
      <4>2. RingSeq(boxMsgs'[i], HeadFor(to, i), CountFor(to, i) + 1)
              = Append(RingSeq(boxMsgs[i], HeadFor(to, i), CountFor(to, i)), m)
        <5> DEFINE f == boxMsgs[i]
                   h == HeadFor(to, i)
                   c == CountFor(to, i)
        <5>1. f \in [Ring -> Msg] /\ h \in Ring /\ c \in 0 .. Q /\ c < Q
          BY <2>4, <3>1
        <5> HIDE DEF m, f, h, c
        <5>2. RingSeq([f EXCEPT ![(h + c) % Q] = m], h, c + 1) = Append(RingSeq(f, h, c), m)
          BY <2>5, <5>1, RingPush
        <5> QED BY <4>1, <5>2 DEF f, h, c
      <4> QED BY <2>2, <2>3, <2>6, <3>1, <4>1, <4>2
    <3>2. CASE ~(CountFor(to, i) < Q)
      <4>1. CountFor(to, i) >= Q /\ CountFor(to, i) # 0
        BY <2>4, <3>2, RingAssumption
      <4>2. boxCount[i] = CountFor(to, i)
        BY <4>1 DEF CountFor
      <4>3. UNCHANGED <<boxMsgs, boxCount>>
        BY <1>1, <4>1 DEF Push
      <4> QED BY <2>2, <2>3, <2>6, <3>2, <4>2, <4>3
    <3> QED BY <3>1, <3>2
  <2>8. [q \in Targets \ {0} |-> QueueOf(q)]'
          = IF Len([q \in Targets \ {0} |-> QueueOf(q)][to]) < Q
            THEN [[q \in Targets \ {0} |-> QueueOf(q)] EXCEPT
                    ![to] = Append([q \in Targets \ {0} |-> QueueOf(q)][to], m)]
            ELSE [q \in Targets \ {0} |-> QueueOf(q)]
    BY <1>6, <1>8, <2>7
  <2>9. Fifo!Send(p, to, d)
    BY <1>2, <2>1, <2>8 DEF Fifo!Send, Fifo!Receivers
  <2> QED BY <1>8, <2>9 DEF Fifo!Next, Fifo!Receivers
<1> QED BY <1>7, <1>8

LEMMA RefineReceive ==
  ASSUME IpcInv, IpcInv', NEW p \in Pids, Receive(p)
  PROVE  Fifo!Next
<1>0. p \in Targets /\ p # 0
  BY PidsAssumption
<1>1. PICK i \in Boxes : /\ MailboxFor(p, i) /\ CountFor(p, i) > 0 /\ Pop(i)
                         /\ result' = Answer(p, "recv", 0, boxMsgs[i][boxHead[i]])
  BY DEF Receive
<1>2. boxPid[i] = p /\ CountFor(p, i) = boxCount[i] /\ HeadFor(p, i) = boxHead[i]
  BY <1>1 DEF CountFor, HeadFor
<1>3. boxMsgs[i] \in [Ring -> Msg] /\ boxHead[i] \in Ring /\ boxCount[i] \in 0 .. Q
  BY DEF IpcInv, TypeOK, Msg
<1>4. /\ boxPid' = boxPid /\ boxMsgs' = boxMsgs
      /\ boxHead'[i] = (boxHead[i] + 1) % Q /\ boxCount'[i] = boxCount[i] - 1
      /\ \A j \in Boxes : j # i => boxHead'[j] = boxHead[j] /\ boxCount'[j] = boxCount[j]
  BY <1>1 DEF Pop, IpcInv, TypeOK
<1>5. \A q \in Targets \ {0} : q # p => QueueOf(q)' = QueueOf(q)
  <2> SUFFICES ASSUME NEW q \in Targets \ {0}, q # p PROVE QueueOf(q)' = QueueOf(q)
    OBVIOUS
  <2>1. \A j \in Boxes : boxPid[j] = q => j # i
    BY <1>2
  <2> QED BY <1>4, <2>1, QueueSame
<1>6. QueueOf(p) = RingSeq(boxMsgs[i], boxHead[i], boxCount[i])
  BY <1>0, <1>1, <1>2, QueueFor
<1>7. QueueOf(p)' = RingSeq(boxMsgs[i], (boxHead[i] + 1) % Q, boxCount[i] - 1)
  <2>1. QueueOf(boxPid[i])' = RingSeq(boxMsgs'[i], boxHead'[i], boxCount'[i])
    BY <1>0, <1>2, <1>4, QueueOwnNext
  <2>2. QueueOf(p)' = RingSeq(boxMsgs'[i], boxHead'[i], boxCount'[i])
    BY <1>2, <1>4, <2>1 DEF QueueOf, Contents
  <2> QED BY <1>4, <2>2
<1>8. /\ QueueOf(p) # <<>> /\ Head(QueueOf(p)) = boxMsgs[i][boxHead[i]]
      /\ QueueOf(p)' = Tail(QueueOf(p))
  BY <1>1, <1>2, <1>3, <1>6, <1>7, RingPop
<1> DEFINE qs == [q \in Targets \ {0} |-> QueueOf(q)]
<1>9. qs[p] = QueueOf(p) /\ qs' = [qs EXCEPT ![p] = Tail(qs[p])]
  BY <1>0, <1>5, <1>8
<1>10. result' = Fifo!Answer(p, "recv", 0, Head(qs[p]))
  BY <1>1, <1>8, <1>9 DEF Answer, Fifo!Answer
<1>11. Fifo!Receive(p)
  BY <1>4, <1>8, <1>9, <1>10 DEF Receive, Fifo!Receive, Fifo!Receivers
<1> QED BY <1>11 DEF Fifo!Next

LEMMA RefineReceiveEmpty ==
  ASSUME IpcInv, IpcInv', NEW p \in Pids, ReceiveEmpty(p)
  PROVE  Fifo!Next
<1>0. p \in Targets /\ p # 0
  BY PidsAssumption
<1>1. PICK i \in Boxes : /\ MailboxFor(p, i) /\ CountFor(p, i) = 0
                         /\ boxPid' = [boxPid EXCEPT ![i] = p]
                         /\ boxHead' = [boxHead EXCEPT ![i] = HeadFor(p, i)]
                         /\ boxCount' = [boxCount EXCEPT ![i] = 0]
  BY DEF ReceiveEmpty
<1>2. boxPid[i] \in {p, 0}
  BY <1>1, MailboxForOwn
<1>3. /\ boxPid'[i] = p /\ boxMsgs' = boxMsgs
      /\ boxHead'[i] = HeadFor(p, i) /\ boxCount'[i] = 0
      /\ \A j \in Boxes : j # i => /\ boxHead'[j] = boxHead[j] /\ boxCount'[j] = boxCount[j]
                                    /\ boxPid'[j] = boxPid[j]
  BY <1>1 DEF ReceiveEmpty, IpcInv, TypeOK
<1>4. \A q \in Targets \ {0} : q # p => QueueOf(q)' = QueueOf(q)
  <2> SUFFICES ASSUME NEW q \in Targets \ {0}, q # p PROVE QueueOf(q)' = QueueOf(q)
    OBVIOUS
  <2>1. \A j \in Boxes : boxPid[j] = q <=> boxPid'[j] = q
    BY <1>2, <1>3
  <2>2. \A j \in Boxes : boxPid[j] = q => j # i
    BY <1>2
  <2> QED BY <1>3, <2>1, <2>2, QueueSame
<1>5. QueueOf(p) = RingSeq(boxMsgs[i], HeadFor(p, i), 0)
  BY <1>0, <1>1, QueueFor
<1>6. QueueOf(p)' = RingSeq(boxMsgs[i], HeadFor(p, i), 0)
  <2>1. QueueOf(boxPid[i])' = RingSeq(boxMsgs'[i], boxHead'[i], boxCount'[i])
    BY <1>0, <1>3, QueueOwnNext
  <2>2. QueueOf(p)' = RingSeq(boxMsgs'[i], boxHead'[i], boxCount'[i])
    BY <1>3, <2>1 DEF QueueOf, Contents
  <2> QED BY <1>3, <2>2
<1>7. QueueOf(p) = <<>>
  <2>1. HeadFor(p, i) \in Ring /\ boxMsgs[i] \in [Ring -> Msg] /\ 0 \in 0 .. Q
    BY ForType, ZeroInRing DEF IpcInv, TypeOK, Msg
  <2>2. /\ RingSeq(boxMsgs[i], HeadFor(p, i), 0) \in Seq(Msg)
        /\ Len(RingSeq(boxMsgs[i], HeadFor(p, i), 0)) = 0
    BY <2>1, RingSeqType
  <2> QED BY <1>5, <2>2, EmptySeq
<1>8. {boxPid'[j] : j \in Boxes} \ {0} = ({boxPid[j] : j \in Boxes} \ {0}) \cup {p}
  BY <1>0, <1>2, <1>3
<1> DEFINE qs == [q \in Targets \ {0} |-> QueueOf(q)]
<1>9. qs[p] = <<>> /\ qs' = qs
  BY <1>0, <1>4, <1>5, <1>6, <1>7
<1>10. result' = Fifo!Answer(p, "recv", -3, Fifo!NoMsg)
  BY DEF ReceiveEmpty, Answer, NoMsg, Fifo!Answer, Fifo!NoMsg
<1>11. Fifo!ReceiveEmpty(p)
  BY <1>8, <1>9, <1>10 DEF ReceiveEmpty, Fifo!ReceiveEmpty, Fifo!Receivers
<1> QED BY <1>11 DEF Fifo!Next

\* A call that fails changes no queue
LEMMA UnchangedMaps ==
  ASSUME UNCHANGED boxes
  PROVE  /\ UNCHANGED ({boxPid[i] : i \in Boxes} \ {0})
         /\ UNCHANGED [q \in Targets \ {0} |-> QueueOf(q)]
BY DEF boxes, QueueOf, Contents

LEMMA RefineFail ==
  ASSUME NEW p \in Pids,
         \/ \E call \in {"send", "recv"} : Denied(p, call)
         \/ \E to \in Targets : Refused(p, "send", to)
         \/ Refused(p, "recv", p)
  PROVE  Fifo!Next
<1>1. ASSUME NEW call, NEW code, Fail(p, call, code) PROVE Fifo!Fail(p, call, code)
  BY <1>1, UnchangedMaps DEF Fail, Answer, NoMsg, Fifo!Fail, Fifo!Answer, Fifo!NoMsg
<1>2. CASE \E call \in {"send", "recv"} : Denied(p, call)
  <2>1. PICK call \in {"send", "recv"} : Denied(p, call)
    BY <1>2
  <2>2. Fifo!Denied(p, call)
    BY <1>1, <2>1 DEF Denied, Fifo!Denied
  <2> QED BY <2>2 DEF Fifo!Next
<1>3. ASSUME NEW call, NEW q, Refused(p, call, q) PROVE Fifo!Refused(p, call, q)
  BY <1>1, <1>3 DEF Refused, NoMailbox, Fifo!Refused
<1>4. CASE \E to \in Targets : Refused(p, "send", to)
  <2>1. PICK to \in Targets : Refused(p, "send", to)
    BY <1>4
  <2>2. Fifo!Refused(p, "send", to)
    BY <1>3, <2>1
  <2> QED BY <2>2 DEF Fifo!Next
<1>5. CASE Refused(p, "recv", p)
  <2>1. Fifo!Refused(p, "recv", p)
    BY <1>3, <1>5
  <2> QED BY <2>1 DEF Fifo!Next
<1> QED BY <1>2, <1>4, <1>5

LEMMA RefineStep == IpcInv /\ IpcInv' /\ [Next]_vars => [Fifo!Next]_(Fifo!vars)
<1> SUFFICES ASSUME IpcInv, IpcInv', [Next]_vars PROVE [Fifo!Next]_(Fifo!vars)
  OBVIOUS
<1>1. CASE UNCHANGED vars
  BY <1>1, UnchangedMaps DEF vars, Fifo!vars
<1>2. CASE Next
  BY <1>2, RefineSend, RefineReceive, RefineReceiveEmpty, RefineFail DEF Next
<1> QED BY <1>1, <1>2

\* The mailbox table implements one bounded first-in first-out queue per pid
THEOREM Refinement == Spec => ImplementsFifo
BY RefineInit, RefineStep, IpcAlways, PTL DEF Spec, ImplementsFifo, Fifo!Spec
=============================================================================
