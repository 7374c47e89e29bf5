----------------------------- MODULE RpcProofs -----------------------------
(***************************************************************************)
(* Proofs about Rpc, for any clients, servers, mailbox size and bounds:    *)
(* types, that an answer taken is an answer to the same kind of request of *)
(* the same client, that answers follow the order of the calls, and that   *)
(* keys are read in the order of typing.                                   *)
(***************************************************************************)
EXTENDS Rpc, SequenceTheorems, TLAPS

LEMMA Bounds == Q \in Nat /\ SvcMax \in Nat /\ MaxCalls \in Nat /\ MaxKeys \in Nat
BY BoundsAssumption

LEMMA Apart == Clients \cap Servers = {} /\ 0 \notin Clients /\ 0 \notin Servers
               /\ Clients \subseteq Procs /\ Servers \subseteq Procs /\ Procs = Clients \cup Servers
BY ServersAssumption DEF Procs

Mailboxes == [Procs -> Seq(Messages)]

CallSet == [at : {"idle", "query", "send", "wait"}, type : CallTypes \cup {"none"},
            svc : Servers \cup {0}, n : 0 .. MaxCalls]
OpenSet == [at : {"query", "send", "wait"}, type : CallTypes, svc : Servers \cup {0}, n : Calls]
\* Where a client is tells what it knows of its call
CallOK(k) ==
  \/ k = NoCall
  \/ /\ k \in OpenSet
     /\ k.at # "query" => k.svc \in Servers

CallsOK == call \in [Clients -> CallSet] /\ \A c \in Clients : CallOK(call[c]) /\ call[c].n <= calls

TypeInv == TypeOK /\ CallsOK

\* A message about a call, not about a key
Callish(m) == m.type # "KBD_GET"
-----------------------------------------------------------------------------
(* Mailboxes *)

\* A mailbox gets the message at its end, or nothing changes; no other mailbox changes
LEMMA PutSpec ==
  ASSUME NEW b \in Mailboxes, \A p \in Procs : Len(b[p]) <= Q, NEW p \in Procs, NEW m \in Messages
  PROVE  /\ Put(b, p, m) \in Mailboxes
         /\ \A q \in Procs : Len(Put(b, p, m)[q]) <= Q
         /\ \A q \in Procs : q # p => Put(b, p, m)[q] = b[q]
         /\ \/ Put(b, p, m)[p] = b[p]
            \/ /\ Len(Put(b, p, m)[p]) = Len(b[p]) + 1
               /\ \A i \in 1 .. Len(b[p]) : Put(b, p, m)[p][i] = b[p][i]
               /\ Put(b, p, m)[p][Len(b[p]) + 1] = m
<1>1. CASE p \in Boxless \/ Len(b[p]) >= Q
  BY <1>1 DEF Put, Mailboxes
<1>2. CASE ~(p \in Boxless \/ Len(b[p]) >= Q)
  <2>1. b[p] \in Seq(Messages) /\ Len(b[p]) \in Nat /\ Len(b[p]) + 1 <= Q
    BY <1>2, Bounds DEF Mailboxes
  <2>2. Put(b, p, m) = [b EXCEPT ![p] = Append(b[p], m)]
    BY <1>2 DEF Put
  <2> DEFINE x == Append(b[p], m)
  <2>3. /\ x \in Seq(Messages) /\ Len(x) = Len(b[p]) + 1
        /\ \A i \in 1 .. Len(b[p]) : x[i] = b[p][i]
        /\ x[Len(b[p]) + 1] = m
    BY <2>1
  <2> HIDE DEF x
  <2>4. Put(b, p, m)[p] = x /\ \A q \in Procs : q # p => Put(b, p, m)[q] = b[q]
    BY <2>2 DEF x, Mailboxes
  <2>5. Put(b, p, m) \in Mailboxes
    BY <2>2, <2>3 DEF Mailboxes, x
  <2> QED BY <2>1, <2>3, <2>4, <2>5
<1> QED BY <1>1, <1>2

\* The oldest message goes, the others move up
LEMMA PopSpec ==
  ASSUME NEW b \in Mailboxes, \A p \in Procs : Len(b[p]) <= Q, NEW p \in Procs, b[p] # <<>>
  PROVE  LET t == [b EXCEPT ![p] = Tail(b[p])]
         IN  /\ t \in Mailboxes
             /\ \A q \in Procs : Len(t[q]) <= Q
             /\ \A q \in Procs : q # p => t[q] = b[q]
             /\ Len(t[p]) = Len(b[p]) - 1 /\ Len(b[p]) \in Nat /\ Len(b[p]) >= 1
             /\ \A i \in 1 .. Len(t[p]) : t[p][i] = b[p][i + 1]
             /\ Head(b[p]) = b[p][1] /\ Head(b[p]) \in Messages
<1> DEFINE t == [b EXCEPT ![p] = Tail(b[p])]
           x == Tail(b[p])
<1>1. b[p] \in Seq(Messages) /\ Len(b[p]) \in Nat /\ Len(b[p]) <= Q
  BY DEF Mailboxes
<1>2. /\ x \in Seq(Messages) /\ Len(x) = Len(b[p]) - 1 /\ Len(b[p]) >= 1
      /\ \A i \in 1 .. Len(x) : x[i] = b[p][i + 1]
      /\ Head(b[p]) = b[p][1] /\ Head(b[p]) \in Messages
  BY <1>1
<1>3. t[p] = x /\ (\A q \in Procs : q # p => t[q] = b[q]) /\ (x \in Seq(Messages) => t \in Mailboxes)
  BY DEF Mailboxes
<1> HIDE DEF x, t
<1>4. \A q \in Procs : Len(t[q]) <= Q
  BY <1>1, <1>2, <1>3, Bounds
<1> QED BY <1>1, <1>2, <1>3, <1>4 DEF t

Fits(b) == b \in Mailboxes /\ \A p \in Procs : Len(b[p]) <= Q
Popped(b, p, t) ==
  /\ \A q \in Procs : q # p => t[q] = b[q]
  /\ Len(t[p]) = Len(b[p]) - 1 /\ Len(b[p]) \in Nat /\ Len(b[p]) >= 1
  /\ \A i \in 1 .. Len(t[p]) : t[p][i] = b[p][i + 1]
  /\ Head(b[p]) = b[p][1]

LEMMA PopOf ==
  ASSUME NEW b, Fits(b), NEW p \in Procs, b[p] # <<>>, NEW t, t = [b EXCEPT ![p] = Tail(b[p])]
  PROVE  Popped(b, p, t)
<1>1. Popped(b, p, [b EXCEPT ![p] = Tail(b[p])])
  BY PopSpec DEF Fits, Popped
<1> QED BY <1>1

LEMMA PutOf ==
  ASSUME NEW b \in Mailboxes, \A p \in Procs : Len(b[p]) <= Q, NEW p \in Procs, NEW m \in Messages,
         NEW t, t = Put(b, p, m)
  PROVE  /\ \A q \in Procs : q # p => t[q] = b[q]
         /\ \/ t[p] = b[p]
            \/ /\ Len(t[p]) = Len(b[p]) + 1
               /\ \A i \in 1 .. Len(b[p]) : t[p][i] = b[p][i]
               /\ t[p][Len(b[p]) + 1] = m
BY PutSpec
-----------------------------------------------------------------------------
(* Types *)

LEMMA NoAboutIn == NoAbout \in Abouts /\ 0 \in 0 .. MaxKeys
BY Bounds DEF Abouts

LEMMA TypeInit == Init => TypeInv
<1> SUFFICES ASSUME Init PROVE TypeInv
  OBVIOUS
<1>1. TypeOK
  BY Bounds, EmptySeq DEF Init, TypeOK, NoCall
<1>2. \A c \in Clients : call[c] = NoCall /\ calls = 0
  BY DEF Init
<1>3. call \in [Clients -> CallSet]
  BY Bounds DEF Init, NoCall, CallSet
<1> QED BY <1>1, <1>2, <1>3 DEF TypeInv, CallsOK, CallOK, NoCall

LEMMA TypeFacts ==
  ASSUME TypeInv
  PROVE  /\ mail \in Mailboxes /\ \A p \in Procs : Len(mail[p]) <= Q
         /\ \A s \in Servers : serving[s] # NoRequest => serving[s] \in Messages
         /\ \A c \in Clients : call[c].at \in {"send", "wait"} =>
              call[c].svc \in Servers /\ call[c].n \in Calls /\ call[c].type \in CallTypes
BY DEF TypeInv, TypeOK, CallsOK, Mailboxes, CallOK, OpenSet, CallSet, NoCall

\* Messages of the library and of the kernel
LEMMA RequestType ==
  ASSUME TypeInv, NEW c \in Clients, call[c].at = "send"
  PROVE  /\ Message(c, call[c].type, About(c, call[c]), 0) \in Messages
         /\ About(c, call[c]) \in [n : Calls, by : {c}, to : {call[c].svc}, type : {call[c].type}]
         /\ About(c, call[c]).n = call[c].n
<1>1. call[c].svc \in Servers /\ call[c].n \in Calls /\ call[c].type \in CallTypes /\ c \in Procs
  BY TypeFacts, Apart
<1>2. /\ About(c, call[c]) \in [n : Calls, by : {c}, to : {call[c].svc}, type : {call[c].type}]
      /\ About(c, call[c]).n = call[c].n
  BY <1>1 DEF About
<1>3. About(c, call[c]) \in Abouts
  BY <1>1 DEF About, Abouts
<1> QED BY <1>1, <1>2, <1>3, NoAboutIn DEF Message, Messages, Types

LEMMA KbdGetType == ASSUME NEW c \in Clients PROVE Message(c, "KBD_GET", NoAbout, 0) \in Messages
BY NoAboutIn, Apart DEF Message, Messages, Types

LEMMA KeysType ==
  ASSUME TypeInv, NEW s
  PROVE  /\ KeyFor(s) \in 0 .. MaxKeys /\ KeysAfter(s) \in Seq(Keys)
         /\ keys # <<>> => Head(keys) \in Keys /\ Tail(keys) \in Seq(Keys)
<1>1. keys \in Seq(Keys)
  BY DEF TypeInv, TypeOK, CallsOK
<1>2. keys # <<>> => Head(keys) \in Keys /\ Tail(keys) \in Seq(Keys)
  BY <1>1
<1>3. KeyFor(s) \in Keys \cup {0} /\ Keys \cup {0} \subseteq 0 .. MaxKeys
  BY <1>2, Bounds DEF KeyFor, Keys
<1>4. KeysAfter(s) \in Seq(Keys)
  BY <1>1, <1>2 DEF KeysAfter
<1> QED BY <1>2, <1>3, <1>4

LEMMA ReplyType ==
  ASSUME TypeInv, NEW s \in Servers, serving[s] # NoRequest
  PROVE  Message(s, serving[s].type, serving[s].about, KeyFor(s)) \in Messages /\ serving[s].from \in Procs
<1>1. serving[s] \in Messages /\ s \in Procs /\ KeyFor(s) \in 0 .. MaxKeys
  BY TypeFacts, Apart, KeysType
<1> QED BY <1>1 DEF Message, Messages

\* Steps that change neither mailboxes nor what the servers work on
LEMMA TypeServerStep ==
  ASSUME TypeInv, NEW s \in Servers, ServerStep(s)
  PROVE  TypeInv'
<1>1. CASE Register(s)
  <2>1. ServiceOf(s) \in Names
    BY DEF ServiceOf, Names
  <2> QED BY <1>1, <2>1 DEF Register, TypeInv, TypeOK, CallsOK, history, reading
<1>2. CASE RegisterRefused(s)
  BY <1>2 DEF RegisterRefused, TypeInv, TypeOK, CallsOK, history, reading
<1>3. CASE Take(s)
  <2>1. s \in Procs /\ mail[s] # <<>>
    BY <1>3, Apart DEF Take
  <2>2. /\ mail' \in Mailboxes /\ \A p \in Procs : Len(mail'[p]) <= Q
        /\ Head(mail[s]) \in Messages
    BY <1>3, <2>1, TypeFacts, PopSpec DEF Take
  <2> QED BY <1>3, <2>2 DEF Take, TypeInv, TypeOK, CallsOK, Mailboxes, history, reading
<1>4. CASE Reply(s)
  <2>1. /\ mail' = Put(mail, serving[s].from, Message(s, serving[s].type, serving[s].about, KeyFor(s)))
        /\ serving[s] # NoRequest
    BY <1>4 DEF Reply
  <2>2. mail' \in Mailboxes /\ \A p \in Procs : Len(mail'[p]) <= Q
    BY <2>1, TypeFacts, PutSpec, ReplyType
  <2>3. keys' \in Seq(Keys)
    BY <1>4, KeysType DEF Reply
  <2> QED BY <1>4, <2>2, <2>3 DEF Reply, TypeInv, TypeOK, CallsOK, Mailboxes, history, reading
<1>5. CASE Exit(s)
  BY <1>5 DEF Exit, TypeInv, TypeOK, CallsOK, history, reading
<1> QED BY <1>1, <1>2, <1>3, <1>4, <1>5 DEF ServerStep

LEMMA ReturnType ==
  ASSUME TypeInv, NEW c \in Clients, Return(c), calls' = calls
  PROVE  CallsOK'
<1>1. NoCall \in CallSet /\ NoCall.n = 0
  BY Bounds DEF NoCall, CallSet
<1>2. call' = [call EXCEPT ![c] = NoCall]
  BY DEF Return
<1>3. \A d \in Clients : call'[d] = call[d] \/ call'[d] = NoCall
  BY <1>2 DEF TypeInv
<1>4. calls \in Nat
  BY Bounds DEF TypeInv, TypeOK, CallsOK
<1> QED BY <1>1, <1>2, <1>3, <1>4 DEF TypeInv, CallsOK, CallOK

LEMMA AfterQueryType == ASSUME TypeInv, NEW n \in Names PROVE AfterQuery(n) \in [Names -> Servers \cup {0}]
BY DEF AfterQuery, TypeInv, TypeOK, CallsOK

LEMMA NameForIn == ASSUME NEW t PROVE NameFor(t) \in Names
BY DEF NameFor, Names

\* The call record of a client moves on: typing of the whole step
LEMMA CallMoves ==
  ASSUME TypeInv, NEW c \in Clients, NEW k, call' = [call EXCEPT ![c] = k],
         k \in OpenSet,
         k.at # "query" => k.svc \in Servers, k.n <= calls', calls' \in 0 .. MaxCalls, calls' \in {calls, calls + 1}
  PROVE  CallsOK'
<1>1. k \in CallSet /\ CallOK(k)
  BY Bounds DEF CallOK, Calls, OpenSet, CallSet
<1>2. \A d \in Clients : call'[d] = IF d = c THEN k ELSE call[d]
  BY DEF TypeInv, CallsOK
<1>3. calls \in Nat /\ \A d \in Clients : call[d].n \in Nat /\ call[d].n <= calls
  BY Bounds DEF TypeInv, TypeOK, CallsOK, CallSet
<1> QED BY <1>1, <1>2, <1>3, Bounds DEF TypeInv, CallsOK, CallOK

LEMMA TypeCall ==
  ASSUME TypeInv, NEW c \in Clients, ClientStart(c)
  PROVE  TypeInv'
<1>1. PICK t \in CallTypes : Call(c, t)
  BY DEF ClientStart
<1> DEFINE k == [at |-> "query", type |-> t, svc |-> 0, n |-> calls + 1]
<1>2. calls \in 0 .. MaxCalls /\ calls' = calls + 1 /\ calls' \in 0 .. MaxCalls /\ calls + 1 \in Calls
  BY <1>1, Bounds DEF Call, TypeInv, TypeOK, CallsOK, Calls
<1>3. k \in OpenSet
      /\ k.at = "query" /\ k.n <= calls'
  BY <1>2 DEF OpenSet
<1>4. call' = [call EXCEPT ![c] = k]
  BY <1>1 DEF Call
<1> HIDE DEF k
<1>5. CallsOK'
  BY <1>2, <1>3, <1>4, CallMoves
<1> QED BY <1>1, <1>2, <1>5 DEF Call, TypeInv, TypeOK, CallsOK, CallSet, servers, history, reading

LEMMA TypeQuery == ASSUME TypeInv, NEW c \in Clients, Query(c) PROVE TypeInv'
<1> DEFINE s == svc[NameFor(call[c].type)]
           k == [call[c] EXCEPT !.svc = s, !.at = "send"]
<1>1. s \in Servers
  BY NameForIn DEF Query, Resolves, TypeInv, TypeOK, CallsOK
<1>2. call[c] \in OpenSet
      /\ call[c].n <= calls
  BY DEF Query, TypeInv, CallsOK, CallOK, NoCall
<1>3. k \in OpenSet
      /\ k.svc \in Servers /\ k.n <= calls
  BY <1>1, <1>2 DEF OpenSet
<1>4. call' = [call EXCEPT ![c] = k] /\ calls' = calls /\ calls \in 0 .. MaxCalls
  BY DEF Query, TypeInv, TypeOK, CallsOK
<1> HIDE DEF k
<1>5. CallsOK'
  BY <1>3, <1>4, CallMoves
<1> QED BY <1>5 DEF Query, TypeInv, TypeOK, CallsOK, CallSet, servers, history, reading

LEMMA TypeSend == ASSUME TypeInv, NEW c \in Clients, Send(c) PROVE TypeInv'
<1> DEFINE k == [call[c] EXCEPT !.at = "wait"]
<1>1. /\ mail' = Put(mail, call[c].svc, Message(c, call[c].type, About(c, call[c]), 0))
      /\ call' = [call EXCEPT ![c] = k] /\ calls' = calls /\ calls \in 0 .. MaxCalls /\ call[c].at = "send"
  BY DEF Send, TypeInv, TypeOK, CallsOK
<1>2. call[c].svc \in Servers /\ call[c].svc \in Procs
  BY <1>1, TypeFacts, Apart
<1>3. mail' \in Mailboxes /\ \A p \in Procs : Len(mail'[p]) <= Q
  BY <1>1, <1>2, TypeFacts, RequestType, PutSpec
<1>4. call[c] \in OpenSet
      /\ call[c].n <= calls
  BY <1>1 DEF TypeInv, CallsOK, CallOK, NoCall
<1>5. k \in OpenSet
      /\ k.svc \in Servers /\ k.n <= calls
  BY <1>2, <1>4 DEF OpenSet
<1> HIDE DEF k
<1>6. CallsOK'
  BY <1>1, <1>5, CallMoves
<1> QED BY <1>3, <1>6 DEF Send, TypeInv, TypeOK, CallsOK, CallSet, Mailboxes, servers, history, reading

LEMMA TypeTakeAnswer == ASSUME TypeInv, NEW c \in Clients, Accept(c) \/ Reject(c) PROVE TypeInv'
<1>1. /\ mail' = [mail EXCEPT ![c] = Tail(mail[c])] /\ mail[c] # <<>> /\ calls' = calls /\ Return(c)
      /\ UNCHANGED <<svc, servers, keys, typed, reading>> /\ failed' \subseteq failed \cup {c}
  BY DEF Accept, Reject, Fail
<1>2. /\ mail' \in Mailboxes /\ \A p \in Procs : Len(mail'[p]) <= Q
      /\ Head(mail[c]) \in Messages
  BY <1>1, TypeFacts, Apart, PopSpec
<1>3. last' \in [Clients -> [Servers -> 0 .. MaxCalls]]
  <2>1. CASE Reject(c)
    BY <2>1 DEF Reject, TypeInv, TypeOK, CallsOK
  <2>2. CASE Accept(c)
    <3> DEFINE m == Head(mail[c])
    <3>1. m.from \in Servers /\ m.about.n \in 0 .. MaxCalls
      <4>1. m.from = call[c].svc /\ call[c].svc \in Servers
        BY <2>2, TypeFacts DEF Accept, Answers
      <4>2. m.about \in Abouts
        BY <1>2 DEF Messages
      <4>3. m.about.n \in 0 .. MaxCalls
        BY <4>2, Bounds DEF Abouts, NoAbout, Calls
      <4> QED BY <4>1, <4>3
    <3>2. last' = [last EXCEPT ![c][m.from] = m.about.n]
      BY <2>2 DEF Accept
    <3> HIDE DEF m
    <3> QED BY <3>1, <3>2 DEF TypeInv, TypeOK, CallsOK
  <2> QED BY <2>1, <2>2
<1>4. CallsOK'
  BY <1>1, ReturnType
<1> QED BY <1>1, <1>2, <1>3, <1>4 DEF TypeInv, TypeOK, CallsOK, CallSet, Mailboxes, servers, reading

LEMMA TypeGiveUp ==
  ASSUME TypeInv, NEW c \in Clients, QueryGiveUp(c) \/ SendRefused(c) \/ WaitGiveUp(c)
  PROVE  TypeInv'
<1>1. /\ Return(c) /\ UNCHANGED <<mail, servers, calls, keys, typed, last, reading>>
      /\ failed' = failed \cup {c}
  BY DEF QueryGiveUp, SendRefused, WaitGiveUp, Fail
<1>2. svc' \in [Names -> Servers \cup {0}]
  <2>1. svc' = svc \/ svc' = AfterQuery(NameFor(call[c].type))
    BY DEF QueryGiveUp, SendRefused, WaitGiveUp
  <2> QED BY <2>1, AfterQueryType, NameForIn DEF TypeInv, TypeOK, CallsOK
<1>3. CallsOK'
  BY <1>1, ReturnType
<1> QED BY <1>1, <1>2, <1>3 DEF TypeInv, TypeOK, CallsOK, CallSet, servers, reading

LEMMA TypeQueryRetry == ASSUME TypeInv, NEW c \in Clients, QueryRetry(c) PROVE TypeInv'
<1>1. svc' \in [Names -> Servers \cup {0}]
  BY AfterQueryType, NameForIn DEF QueryRetry
<1> QED BY <1>1 DEF QueryRetry, TypeInv, TypeOK, CallsOK, servers, history, reading

LEMMA TypePress == ASSUME TypeInv, Press PROVE TypeInv'
<1>1. typed + 1 \in Keys /\ typed' \in 0 .. MaxKeys
  BY Bounds DEF Press, TypeInv, TypeOK, CallsOK, Keys
<1>2. keys' \in Seq(Keys)
  BY <1>1 DEF Press, TypeInv, TypeOK, CallsOK
<1> QED BY <1>1, <1>2 DEF Press, TypeInv, TypeOK, CallsOK, servers, history, reading

\* What a program reads is typed
LEMMA GiveType ==
  ASSUME TypeInv, NEW c \in Clients, NEW b, b = 0 \/ b = Stray \/ b \in Keys, Give(c, b)
  PROVE  /\ got' \in [Clients -> {Stray} \cup 0 .. MaxKeys] /\ read' \in [Clients -> 0 .. MaxKeys]
         /\ got'[c] = b
<1>1. b \in {Stray} \cup 0 .. MaxKeys /\ (b \in Keys => b \in 0 .. MaxKeys)
  BY Bounds DEF Keys
<1> QED BY <1>1 DEF Give, TypeInv, TypeOK

\* What SYS_READ does to the mailboxes: a request to the driver, then the reader's oldest message
LEMMA ReadServiceSteps ==
  ASSUME TypeInv, NEW c \in Clients, ReadService(c)
  PROVE  \E asked \in Mailboxes :
           /\ asked = Put(mail, svc["kbd"], Message(c, "KBD_GET", NoAbout, 0))
           /\ svc["kbd"] \in Servers /\ asked[c] = mail[c]
           /\ \A p \in Procs : Len(asked[p]) <= Q
           /\ got' \in [Clients -> {Stray} \cup 0 .. MaxKeys] /\ read' \in [Clients -> 0 .. MaxKeys]
           /\ \/ mail' = asked /\ read' = read /\ got'[c] = 0
              \/ /\ mail' = [asked EXCEPT ![c] = Tail(asked[c])] /\ asked[c] # <<>>
                 /\ \/ got'[c] = 0 /\ read' = read
                    \/ got'[c] = Stray /\ Callish(Head(mail[c])) /\ read' = read
                    \/ /\ got'[c] = Head(mail[c]).key /\ Head(mail[c]).key # 0
                       /\ read' = [read EXCEPT ![c] = Head(mail[c]).key]
<1> DEFINE asked == Put(mail, svc["kbd"], Message(c, "KBD_GET", NoAbout, 0))
<1>1. svc["kbd"] \in Servers /\ svc["kbd"] \in Procs /\ c # svc["kbd"] /\ c \in Procs
  BY Apart DEF ReadService, Resolves, TypeInv, TypeOK, CallsOK, Names
<1>2. asked \in Mailboxes /\ (\A p \in Procs : Len(asked[p]) <= Q) /\ asked[c] = mail[c]
  BY <1>1, TypeFacts, KbdGetType, PutSpec
<1>3. \/ mail' = asked /\ Give(c, 0)
      \/ /\ mail' = [asked EXCEPT ![c] = Tail(asked[c])] /\ asked[c] # <<>>
         /\ \E b \in Bytes(Head(asked[c])) : Give(c, b)
  BY DEF ReadService
<1> HIDE DEF asked
<1>4. 0 \notin Keys /\ Stray \notin Keys /\ Stray # 0
  BY DEF Keys, Stray
<1>5. ASSUME mail' = asked, Give(c, 0)
      PROVE  /\ got' \in [Clients -> {Stray} \cup 0 .. MaxKeys] /\ read' \in [Clients -> 0 .. MaxKeys]
             /\ got'[c] = 0 /\ read' = read
  <2>1. read' = read
    BY <1>4, <1>5 DEF Give
  <2> QED BY <1>5, <2>1, GiveType
<1>6. ASSUME asked[c] # <<>>, NEW b \in Bytes(Head(asked[c])), Give(c, b)
      PROVE  /\ got' \in [Clients -> {Stray} \cup 0 .. MaxKeys] /\ read' \in [Clients -> 0 .. MaxKeys]
             /\ \/ got'[c] = 0 /\ read' = read
                \/ got'[c] = Stray /\ Callish(Head(mail[c])) /\ read' = read
                \/ /\ got'[c] = Head(mail[c]).key /\ Head(mail[c]).key # 0
                   /\ read' = [read EXCEPT ![c] = Head(mail[c]).key]
  <2>1. Head(mail[c]) \in Messages /\ asked[c] = mail[c]
    <3>1. mail[c] \in Seq(Messages) /\ mail[c] # <<>> /\ asked[c] = mail[c]
      BY <1>1, <1>2, <1>6, TypeFacts DEF Mailboxes
    <3> QED BY <3>1
  <2>2. Head(mail[c]).key \in 0 .. MaxKeys
    BY <2>1 DEF Messages
  <2>3. \/ b = Head(mail[c]).key /\ b \in 0 .. MaxKeys
        \/ b \in {Stray, 0} /\ Callish(Head(mail[c]))
    BY <1>6, <2>1, <2>2 DEF Bytes, Callish
  <2>4. b = 0 \/ b = Stray \/ b \in Keys
    BY <2>3, Bounds DEF Keys
  <2>5. /\ got' \in [Clients -> {Stray} \cup 0 .. MaxKeys] /\ read' \in [Clients -> 0 .. MaxKeys]
        /\ got'[c] = b
    BY <1>6, <2>4, GiveType
  <2>6. read' = IF b \in Keys THEN [read EXCEPT ![c] = b] ELSE read
    BY <1>6 DEF Give
  <2>7. b \in Keys => b = Head(mail[c]).key /\ b # 0
    BY <1>4, <2>3
  <2>8. b \notin Keys => read' = read /\ (b = 0 \/ b = Stray)
    BY <2>4, <2>6
  <2>9. b = Stray => Callish(Head(mail[c]))
    BY <1>4, <2>3, Bounds DEF Stray
  <2> QED BY <2>5, <2>6, <2>7, <2>8, <2>9
<1> QED BY <1>1, <1>2, <1>3, <1>5, <1>6 DEF asked

LEMMA TypeReadService == ASSUME TypeInv, NEW c \in Clients, ReadService(c) PROVE TypeInv'
<1>1. PICK asked \in Mailboxes :
        /\ asked[c] = mail[c] /\ \A p \in Procs : Len(asked[p]) <= Q
        /\ got' \in [Clients -> {Stray} \cup 0 .. MaxKeys] /\ read' \in [Clients -> 0 .. MaxKeys]
        /\ \/ mail' = asked
           \/ mail' = [asked EXCEPT ![c] = Tail(asked[c])] /\ asked[c] # <<>>
  BY ReadServiceSteps
<1>2. asked[c] # <<>> => LET t == [asked EXCEPT ![c] = Tail(asked[c])]
                         IN  t \in Mailboxes /\ (\A p \in Procs : Len(t[p]) <= Q) /\ Head(asked[c]) \in Messages
  BY <1>1, Apart, PopSpec
<1>3. mail' \in Mailboxes /\ \A p \in Procs : Len(mail'[p]) <= Q
  BY <1>1, <1>2
<1> QED BY <1>1, <1>3 DEF ReadService, TypeInv, TypeOK, CallsOK, Mailboxes, servers

LEMMA TypeReadDirect == ASSUME TypeInv, NEW c \in Clients, ReadDirect(c) PROVE TypeInv'
<1>1. svc' \in [Names -> Servers \cup {0}]
  BY AfterQueryType DEF ReadDirect, Names
<1>2. /\ keys' \in Seq(Keys) /\ read' \in [Clients -> 0 .. MaxKeys]
      /\ got' \in [Clients -> {Stray} \cup 0 .. MaxKeys]
  <2>1. CASE keys = <<>>
    BY <2>1, GiveType DEF ReadDirect, TypeInv, TypeOK, CallsOK
  <2>2. CASE keys # <<>>
    BY <2>2, KeysType, GiveType DEF ReadDirect
  <2> QED BY <2>1, <2>2
<1> QED BY <1>1, <1>2 DEF ReadDirect, TypeInv, TypeOK, CallsOK, servers

LEMMA TypeStep == ASSUME TypeInv, [Next]_vars PROVE TypeInv'
<1>1. ASSUME NEW s \in Servers, ServerStep(s) PROVE TypeInv'
  BY <1>1, TypeServerStep
<1>2. ASSUME NEW c \in Clients, ClientStart(c) PROVE TypeInv'
  BY <1>2, TypeCall
<1>3. ASSUME NEW c \in Clients, ClientStep(c) PROVE TypeInv'
  BY <1>3, TypeQuery, TypeSend, TypeTakeAnswer, TypeGiveUp DEF ClientStep, Fails
<1>4. ASSUME NEW c \in Clients, QueryRetry(c) \/ ReadService(c) \/ ReadDirect(c) PROVE TypeInv'
  BY <1>4, TypeQueryRetry, TypeReadService, TypeReadDirect
<1>5. CASE Press
  BY <1>5, TypePress
<1>6. CASE UNCHANGED vars
  BY <1>6 DEF vars, TypeInv, TypeOK, CallsOK
<1> QED BY <1>1, <1>2, <1>3, <1>4, <1>5, <1>6 DEF Next
-----------------------------------------------------------------------------
(* Whose call a message is about, and the order of calls and of keys *)

Box(p) == 1 .. Len(mail[p])
N(m) == m.about.n

\* A request in the mailbox of server s, or taken by it; an answer in the mailbox of client c
RequestTo(m, s) ==
  m.from \in Clients /\ (Callish(m) => m.about \in [n : Calls, by : {m.from}, to : {s}, type : {m.type}])
AnswerTo(m, c) ==
  m.from \in Servers /\ (Callish(m) => m.about \in [n : Calls, by : {c}, to : {m.from}, type : {m.type}])

Linked ==
  /\ \A s \in Servers : \A i \in Box(s) : RequestTo(mail[s][i], s)
  /\ \A s \in Servers : serving[s] # NoRequest => RequestTo(serving[s], s)
  /\ \A c \in Clients : \A i \in Box(c) : AnswerTo(mail[c][i], c)

\* The least number a message of client c that has not left yet can have
Fresh(c) == IF call[c].at \in {"query", "send"} THEN call[c].n ELSE calls + 1

\* Between client c and server s, a call's number is known in one of these places; the numbers rise
\* from the answer last taken, through the answers in the client's mailbox, the request the server
\* works on and the requests in its mailbox, up to the call not yet sent
IsFrom(m, p) == m.from = p /\ Callish(m)
Serves(s, c) == serving[s] # NoRequest /\ IsFrom(serving[s], c)

Ordered(c, s) ==
  /\ last[c][s] < Fresh(c)
  /\ \A i \in Box(c) : IsFrom(mail[c][i], s) =>
       /\ last[c][s] < N(mail[c][i]) /\ N(mail[c][i]) < Fresh(c)
       /\ \A j \in Box(c) : i < j /\ IsFrom(mail[c][j], s) => N(mail[c][i]) < N(mail[c][j])
       /\ Serves(s, c) => N(mail[c][i]) < N(serving[s])
       /\ \A j \in Box(s) : IsFrom(mail[s][j], c) => N(mail[c][i]) < N(mail[s][j])
  /\ Serves(s, c) =>
       /\ last[c][s] < N(serving[s]) /\ N(serving[s]) < Fresh(c)
       /\ \A j \in Box(s) : IsFrom(mail[s][j], c) => N(serving[s]) < N(mail[s][j])
  /\ \A i \in Box(s) : IsFrom(mail[s][i], c) =>
       /\ last[c][s] < N(mail[s][i]) /\ N(mail[s][i]) < Fresh(c)
       /\ \A j \in Box(s) : i < j /\ IsFrom(mail[s][j], c) => N(mail[s][i]) < N(mail[s][j])
CallsOrdered == \A c \in Clients, s \in Servers : Ordered(c, s)

\* Keys rise from the one last read, through the answers in the reader's mailbox, to the controller
KeysOrdered ==
  /\ \A k \in 1 .. Len(keys) : keys[k] <= typed /\ \A l \in 1 .. Len(keys) : k < l => keys[k] < keys[l]
  /\ \A c \in Clients :
       /\ read[c] <= typed /\ \A k \in 1 .. Len(keys) : read[c] < keys[k]
       /\ \A i \in Box(c) : mail[c][i].key # 0 =>
            /\ read[c] < mail[c][i].key /\ mail[c][i].key <= typed
            /\ \A k \in 1 .. Len(keys) : mail[c][i].key < keys[k]
            /\ \A j \in Box(c) : i < j /\ mail[c][j].key # 0 => mail[c][i].key < mail[c][j].key

\* The name of the keyboard driver, once registered, is a driver's that runs; before that no driver
\* serves and no mailbox holds a key.  SYS_READ takes keys past the driver only then
DriverInv ==
  /\ svc["kbd"] # 0 => svc["kbd"] \in Kbd \cap alive /\ serverAt[svc["kbd"]] = "loop"
  /\ svc["kbd"] = 0 => /\ \A k \in Kbd : serverAt[k] = "start"
                       /\ \A c \in Clients : \A i \in Box(c) : mail[c][i].key = 0
  /\ \A s \in Servers : serving[s] # NoRequest => serverAt[s] = "loop"

RpcInv == TypeInv /\ Linked /\ CallsOrdered /\ KeysOrdered /\ DriverInv

\* What of mailbox p comes from q was there before, in the same order
KeptFrom(p, q) ==
  \E d \in {0, 1} : \A i \in Box(p)' : IsFrom(mail'[p][i], q) => i + d \in Box(p) /\ mail'[p][i] = mail[p][i + d]

\* Mailbox p is as it was, or m has come to its end
MayGain(p, m) ==
  \/ mail'[p] = mail[p]
  \/ /\ Len(mail'[p]) = Len(mail[p]) + 1 /\ mail'[p][Len(mail[p]) + 1] = m
     /\ \A i \in 1 .. Len(mail[p]) : mail'[p][i] = mail[p][i]

\* Mailbox p has lost its oldest message
Loses(p) ==
  /\ Len(mail'[p]) = Len(mail[p]) - 1 /\ Len(mail[p]) >= 1
  /\ \A i \in 1 .. Len(mail'[p]) : mail'[p][i] = mail[p][i + 1]

LEMMA Lengths == ASSUME TypeInv PROVE \A p \in Procs : Len(mail[p]) \in Nat
BY TypeFacts DEF Mailboxes

LEMMA KeptSame == ASSUME TypeInv, NEW p \in Procs, NEW q, mail'[p] = mail[p] PROVE KeptFrom(p, q)
<1>1. \A i \in Box(p)' : i + 0 \in Box(p) /\ mail'[p][i] = mail[p][i + 0]
  BY Lengths DEF Box
<1> QED BY <1>1 DEF KeptFrom

LEMMA KeptLosing == ASSUME TypeInv, NEW p \in Procs, NEW q, Loses(p) PROVE KeptFrom(p, q)
<1>1. \A i \in Box(p)' : i + 1 \in Box(p) /\ mail'[p][i] = mail[p][i + 1]
  BY Lengths DEF Box, Loses
<1> QED BY <1>1 DEF KeptFrom

LEMMA KeptGaining ==
  ASSUME TypeInv, NEW p \in Procs, NEW q, NEW m, MayGain(p, m), ~IsFrom(m, q)
  PROVE  KeptFrom(p, q)
<1>1. CASE mail'[p] = mail[p]
  BY <1>1, KeptSame
<1>2. CASE mail'[p] # mail[p]
  <2>1. \A i \in Box(p)' : IsFrom(mail'[p][i], q) => i + 0 \in Box(p) /\ mail'[p][i] = mail[p][i + 0]
    BY <1>2, Lengths DEF Box, MayGain
  <2> QED BY <2>1 DEF KeptFrom
<1> QED BY <1>1, <1>2

LEMMA Numbers ==
  ASSUME TypeInv
  PROVE  /\ \A c \in Clients : Fresh(c) \in Nat /\ Fresh(c) <= calls + 1
         /\ calls \in Nat /\ \A c \in Clients, s \in Servers : last[c][s] \in Nat
         /\ \A c \in Clients : call[c].n \in Nat /\ call[c].n <= calls
<1>1. calls \in Nat /\ \A c \in Clients : call[c].n \in Nat /\ call[c].n <= calls
  BY Bounds DEF TypeInv, TypeOK, CallsOK, CallSet
<1>2. \A c \in Clients, s \in Servers : last[c][s] \in Nat
  BY Bounds DEF TypeInv, TypeOK
<1> QED BY <1>1, <1>2 DEF Fresh

LEMMA FreshNext == ASSUME TypeInv', NEW c \in Clients PROVE Fresh(c)' \in Nat
<1>1. calls' \in 0 .. MaxCalls
  BY DEF TypeInv, TypeOK
<1>2. call'[c].n \in 0 .. MaxCalls
  BY DEF TypeInv, CallsOK, CallSet
<1>3. Fresh(c)' = call'[c].n \/ Fresh(c)' = calls' + 1
  BY DEF Fresh
<1>4. \A n \in 0 .. MaxCalls : n \in Nat /\ n + 1 \in Nat
  BY Bounds
<1> QED BY <1>1, <1>2, <1>3, <1>4

LEMMA LinkedNumbers ==
  ASSUME Linked
  PROVE  /\ \A s \in Servers : \A i \in Box(s) : Callish(mail[s][i]) => N(mail[s][i]) \in Nat
         /\ \A s \in Servers : serving[s] # NoRequest /\ Callish(serving[s]) => N(serving[s]) \in Nat
         /\ \A c \in Clients : \A i \in Box(c) : Callish(mail[c][i]) => N(mail[c][i]) \in Nat
BY Bounds DEF Linked, RequestTo, AnswerTo, N, Calls

\* A pair whose messages are all old, whose server works on no new request, and whose client took
\* no answer, stays in order
LEMMA OrderKept ==
  ASSUME RpcInv, TypeInv', NEW c \in Clients, NEW s \in Servers,
         KeptFrom(c, s), KeptFrom(s, c), serving'[s] = serving[s] \/ ~Serves(s, c)',
         last'[c][s] = last[c][s], Fresh(c) <= Fresh(c)'
  PROVE  Ordered(c, s)'
<1>1. Ordered(c, s)
  BY DEF RpcInv, CallsOrdered
<1>2. PICK d \in {0, 1} : \A i \in Box(c)' : IsFrom(mail'[c][i], s) => i + d \in Box(c) /\ mail'[c][i] = mail[c][i + d]
  BY DEF KeptFrom
<1>3. PICK e \in {0, 1} : \A i \in Box(s)' : IsFrom(mail'[s][i], c) => i + e \in Box(s) /\ mail'[s][i] = mail[s][i + e]
  BY DEF KeptFrom
<1>4. Fresh(c) \in Nat /\ Fresh(c)' \in Nat /\ last[c][s] \in Nat
  BY Numbers, FreshNext DEF RpcInv
<1>5. /\ \A i \in Box(s) : IsFrom(mail[s][i], c) => N(mail[s][i]) \in Nat
      /\ Serves(s, c) => N(serving[s]) \in Nat
      /\ \A i \in Box(c) : IsFrom(mail[c][i], s) => N(mail[c][i]) \in Nat
  BY LinkedNumbers DEF RpcInv, IsFrom, Serves
<1>6. Serves(s, c)' => Serves(s, c) /\ serving'[s] = serving[s]
  BY DEF Serves
<1>7. (\A i \in Box(c)' : i \in Int) /\ (\A i \in Box(s)' : i \in Int)
  BY DEF Box
<1>8. last'[c][s] < Fresh(c)'
  BY <1>1, <1>4 DEF Ordered
<1>9. ASSUME NEW i \in Box(c)', IsFrom(mail'[c][i], s)
      PROVE  /\ last'[c][s] < N(mail'[c][i]) /\ N(mail'[c][i]) < Fresh(c)'
             /\ \A j \in Box(c)' : i < j /\ IsFrom(mail'[c][j], s) => N(mail'[c][i]) < N(mail'[c][j])
             /\ Serves(s, c)' => N(mail'[c][i]) < N(serving'[s])
             /\ \A j \in Box(s)' : IsFrom(mail'[s][j], c) => N(mail'[c][i]) < N(mail'[s][j])
  <2>1. i + d \in Box(c) /\ mail'[c][i] = mail[c][i + d] /\ IsFrom(mail[c][i + d], s)
    BY <1>2, <1>9
  <2>2. /\ last[c][s] < N(mail[c][i + d]) /\ N(mail[c][i + d]) < Fresh(c)
        /\ Serves(s, c) => N(mail[c][i + d]) < N(serving[s])
        /\ \A j \in Box(s) : IsFrom(mail[s][j], c) => N(mail[c][i + d]) < N(mail[s][j])
        /\ \A j \in Box(c) : i + d < j /\ IsFrom(mail[c][j], s) => N(mail[c][i + d]) < N(mail[c][j])
    BY <1>1, <2>1 DEF Ordered
  <2>3. last'[c][s] < N(mail'[c][i]) /\ N(mail'[c][i]) < Fresh(c)'
    BY <1>4, <1>5, <2>1, <2>2
  <2>4. ASSUME NEW j \in Box(c)', i < j, IsFrom(mail'[c][j], s) PROVE N(mail'[c][i]) < N(mail'[c][j])
    <3>1. i + d < j + d
      BY <1>7, <2>4
    <3> QED BY <1>2, <2>1, <2>2, <2>4, <3>1
  <2> QED BY <1>3, <1>6, <2>1, <2>2, <2>3, <2>4
<1>10. ASSUME Serves(s, c)'
       PROVE  /\ last'[c][s] < N(serving'[s]) /\ N(serving'[s]) < Fresh(c)'
              /\ \A j \in Box(s)' : IsFrom(mail'[s][j], c) => N(serving'[s]) < N(mail'[s][j])
  BY <1>1, <1>3, <1>4, <1>5, <1>6, <1>10 DEF Ordered
<1>11. ASSUME NEW i \in Box(s)', IsFrom(mail'[s][i], c)
       PROVE  /\ last'[c][s] < N(mail'[s][i]) /\ N(mail'[s][i]) < Fresh(c)'
              /\ \A j \in Box(s)' : i < j /\ IsFrom(mail'[s][j], c) => N(mail'[s][i]) < N(mail'[s][j])
  <2>1. i + e \in Box(s) /\ mail'[s][i] = mail[s][i + e] /\ IsFrom(mail[s][i + e], c)
    BY <1>3, <1>11
  <2>2. /\ last[c][s] < N(mail[s][i + e]) /\ N(mail[s][i + e]) < Fresh(c)
        /\ \A j \in Box(s) : i + e < j /\ IsFrom(mail[s][j], c) => N(mail[s][i + e]) < N(mail[s][j])
    BY <1>1, <2>1 DEF Ordered
  <2>3. last'[c][s] < N(mail'[s][i]) /\ N(mail'[s][i]) < Fresh(c)'
    BY <1>4, <1>5, <2>1, <2>2
  <2>4. ASSUME NEW j \in Box(s)', i < j, IsFrom(mail'[s][j], c) PROVE N(mail'[s][i]) < N(mail'[s][j])
    <3>1. i + e < j + e
      BY <1>7, <2>4
    <3> QED BY <1>3, <2>1, <2>2, <2>4, <3>1
  <2> QED BY <2>3, <2>4
<1> QED BY <1>8, <1>9, <1>10, <1>11 DEF Ordered

\* What was there stays linked
LEMMA LinkedKept ==
  ASSUME Linked,
         \A s \in Servers : \A i \in Box(s)' :
           (\E j \in Box(s) : mail'[s][i] = mail[s][j]) \/ RequestTo(mail'[s][i], s),
         \A s \in Servers : serving'[s] = serving[s] \/ serving'[s] = NoRequest \/ RequestTo(serving'[s], s),
         \A c \in Clients : \A i \in Box(c)' :
           (\E j \in Box(c) : mail'[c][i] = mail[c][j]) \/ AnswerTo(mail'[c][i], c)
  PROVE  Linked'
<1>1. ASSUME NEW s \in Servers, NEW i \in Box(s)' PROVE RequestTo(mail'[s][i], s)
  BY DEF Linked
<1>2. ASSUME NEW c \in Clients, NEW i \in Box(c)' PROVE AnswerTo(mail'[c][i], c)
  BY DEF Linked
<1>3. ASSUME NEW s \in Servers, serving'[s] # NoRequest PROVE RequestTo(serving'[s], s)
  BY <1>3 DEF Linked
<1> QED BY <1>1, <1>2, <1>3 DEF Linked, RequestTo, AnswerTo, Callish

LEMMA OldSame == ASSUME TypeInv, NEW p \in Procs, mail'[p] = mail[p]
                 PROVE  \A i \in Box(p)' : \E j \in Box(p) : mail'[p][i] = mail[p][j]
BY DEF Box

LEMMA OldLosing == ASSUME TypeInv, NEW p \in Procs, Loses(p)
                   PROVE  \A i \in Box(p)' : \E j \in Box(p) : mail'[p][i] = mail[p][j]
<1>1. \A i \in Box(p)' : i + 1 \in Box(p) /\ mail'[p][i] = mail[p][i + 1]
  BY Lengths DEF Box, Loses
<1> QED BY <1>1

LEMMA OldGaining == ASSUME TypeInv, NEW p \in Procs, NEW m, MayGain(p, m)
                    PROVE  \A i \in Box(p)' : (\E j \in Box(p) : mail'[p][i] = mail[p][j]) \/ mail'[p][i] = m
<1>1. CASE mail'[p] = mail[p]
  BY <1>1, OldSame
<1>2. CASE mail'[p] # mail[p]
  <2>1. \A i \in Box(p)' : (i \in Box(p) /\ mail'[p][i] = mail[p][i]) \/ mail'[p][i] = m
    BY <1>2, Lengths DEF Box, MayGain
  <2> QED BY <2>1
<1> QED BY <1>1, <1>2

\* Keys: nothing was typed or read, and the mailboxes of the clients hold no new key
LEMMA KeyOrderKept ==
  ASSUME RpcInv, UNCHANGED <<keys, typed, read>>,
         \A c \in Clients : \E d \in {0, 1} : \A i \in Box(c)' :
           mail'[c][i].key # 0 => i + d \in Box(c) /\ mail'[c][i] = mail[c][i + d]
  PROVE  KeysOrdered'
<1>1. KeysOrdered
  BY DEF RpcInv
<1>2. ASSUME NEW c \in Clients, NEW i \in Box(c)', mail'[c][i].key # 0
      PROVE  /\ read[c] < mail'[c][i].key /\ mail'[c][i].key <= typed
             /\ \A k \in 1 .. Len(keys) : mail'[c][i].key < keys[k]
             /\ \A j \in Box(c)' : i < j /\ mail'[c][j].key # 0 => mail'[c][i].key < mail'[c][j].key
  <2>1. PICK d \in {0, 1} : \A j \in Box(c)' : mail'[c][j].key # 0 => j + d \in Box(c) /\ mail'[c][j] = mail[c][j + d]
    OBVIOUS
  <2>2. i + d \in Box(c) /\ mail'[c][i] = mail[c][i + d]
    BY <1>2, <2>1
  <2>3. /\ read[c] < mail[c][i + d].key /\ mail[c][i + d].key <= typed
        /\ \A k \in 1 .. Len(keys) : mail[c][i + d].key < keys[k]
        /\ \A j \in Box(c) : i + d < j /\ mail[c][j].key # 0 => mail[c][i + d].key < mail[c][j].key
    BY <1>1, <1>2, <2>2 DEF KeysOrdered
  <2>4. ASSUME NEW j \in Box(c)', i < j, mail'[c][j].key # 0 PROVE mail'[c][i].key < mail'[c][j].key
    <3>1. i + d < j + d
      BY <2>4 DEF Box
    <3> QED BY <2>1, <2>2, <2>3, <2>4, <3>1
  <2> QED BY <2>2, <2>3, <2>4
<1> QED BY <1>1, <1>2 DEF KeysOrdered

LEMMA KeySame == ASSUME TypeInv, NEW p \in Procs, mail'[p] = mail[p]
  PROVE  \E d \in {0, 1} : \A i \in Box(p)' : mail'[p][i].key # 0 => i + d \in Box(p) /\ mail'[p][i] = mail[p][i + d]
<1>1. \A i \in Box(p)' : i + 0 \in Box(p) /\ mail'[p][i] = mail[p][i + 0]
  BY Lengths DEF Box
<1> QED BY <1>1

LEMMA KeyLosing == ASSUME TypeInv, NEW p \in Procs, Loses(p)
  PROVE  \E d \in {0, 1} : \A i \in Box(p)' : mail'[p][i].key # 0 => i + d \in Box(p) /\ mail'[p][i] = mail[p][i + d]
<1>1. \A i \in Box(p)' : i + 1 \in Box(p) /\ mail'[p][i] = mail[p][i + 1]
  BY Lengths DEF Box, Loses
<1> QED BY <1>1

\* Steps that leave mailboxes, requests and answers alone
LEMMA MailStep ==
  ASSUME RpcInv, TypeInv', UNCHANGED <<mail, last>>,
         \A s \in Servers : serving'[s] = serving[s] \/ serving'[s] = NoRequest,
         \A c \in Clients : Fresh(c) <= Fresh(c)'
  PROVE  Linked' /\ CallsOrdered'
<1>1. TypeInv /\ Linked
  BY DEF RpcInv
<1>2. \A p \in Procs : mail'[p] = mail[p]
  OBVIOUS
<1>3. Linked'
  BY <1>1, <1>2, LinkedKept, OldSame, Apart
<1>4. ASSUME NEW c \in Clients, NEW s \in Servers PROVE Ordered(c, s)'
  <2>1. KeptFrom(c, s) /\ KeptFrom(s, c)
    BY <1>1, <1>2, KeptSame, Apart
  <2>2. serving'[s] = serving[s] \/ ~Serves(s, c)'
    BY DEF Serves
  <2> QED BY <2>1, <2>2, OrderKept
<1> QED BY <1>3, <1>4 DEF CallsOrdered

LEMMA MailPop ==
  ASSUME TypeInv, NEW p \in Procs, mail[p] # <<>>, mail' = [mail EXCEPT ![p] = Tail(mail[p])]
  PROVE  /\ Loses(p) /\ \A q \in Procs : q # p => mail'[q] = mail[q]
         /\ Head(mail[p]) = mail[p][1] /\ 1 \in Box(p) /\ Len(mail[p]) \in Nat /\ mail[p][1] \in Messages
<1>1. mail \in Mailboxes /\ \A q \in Procs : Len(mail[q]) <= Q
  BY TypeFacts
<1>2. /\ \A q \in Procs : q # p => mail'[q] = mail[q]
      /\ Len(mail'[p]) = Len(mail[p]) - 1 /\ Len(mail[p]) \in Nat /\ Len(mail[p]) >= 1
      /\ \A i \in 1 .. Len(mail'[p]) : mail'[p][i] = mail[p][i + 1]
      /\ Head(mail[p]) = mail[p][1] /\ Head(mail[p]) \in Messages
  BY <1>1, PopSpec
<1> QED BY <1>2 DEF Loses, Box

LEMMA MailPut ==
  ASSUME TypeInv, NEW p \in Procs, NEW m \in Messages, mail' = Put(mail, p, m)
  PROVE  MayGain(p, m) /\ \A q \in Procs : q # p => mail'[q] = mail[q]
<1>1. mail \in Mailboxes /\ \A q \in Procs : Len(mail[q]) <= Q
  BY TypeFacts
<1> QED BY <1>1, PutSpec DEF MayGain

\* A server takes a request: its mailbox loses it, and it is the oldest of its client
LEMMA TakeStep ==
  ASSUME RpcInv, TypeInv', NEW s \in Servers, Take(s)
  PROVE  Linked' /\ CallsOrdered' /\ KeysOrdered'
<1>1. TypeInv /\ Linked /\ CallsOrdered /\ s \in Procs
  BY Apart DEF RpcInv
<1>2. /\ serving[s] = NoRequest /\ mail[s] # <<>> /\ mail' = [mail EXCEPT ![s] = Tail(mail[s])]
      /\ serving' = [serving EXCEPT ![s] = Head(mail[s])] /\ UNCHANGED <<call, calls, keys, typed, last, read>>
  BY DEF Take, history, reading
<1>3. Loses(s) /\ (\A q \in Procs : q # s => mail'[q] = mail[q]) /\ Head(mail[s]) = mail[s][1] /\ 1 \in Box(s)
      /\ Len(mail[s]) \in Nat
  BY <1>1, <1>2, MailPop
<1>4. serving'[s] = mail[s][1] /\ \A r \in Servers : r # s => serving'[r] = serving[r]
  BY <1>1, <1>2, <1>3 DEF TypeInv, TypeOK
<1>5. \A c \in Clients : mail'[c] = mail[c] /\ Fresh(c)' = Fresh(c) /\ c # s /\ c \in Procs
  BY <1>2, <1>3, Apart DEF Fresh
<1>6. RequestTo(mail[s][1], s)
  BY <1>1, <1>3 DEF Linked
<1>7. \A r \in Servers : \A i \in Box(r)' : \E j \in Box(r) : mail'[r][i] = mail[r][j]
  BY <1>1, <1>3, OldSame, OldLosing, Apart
<1>8. \A c \in Clients : \A i \in Box(c)' : \E j \in Box(c) : mail'[c][i] = mail[c][j]
  BY <1>1, <1>5, OldSame
<1>9. Linked'
  BY <1>1, <1>4, <1>6, <1>7, <1>8, LinkedKept
<1>10. ASSUME NEW c \in Clients, NEW r \in Servers PROVE Ordered(c, r)'
  <2>1. KeptFrom(c, r)
    BY <1>1, <1>5, KeptSame
  <2>2. KeptFrom(r, c) /\ r \in Procs
    BY <1>1, <1>3, KeptSame, KeptLosing, Apart
  <2>3. Fresh(c)' = Fresh(c) /\ Fresh(c) \in Nat
    BY <1>1, <1>5, Numbers
  <2>4. CASE serving'[r] = serving[r] \/ ~Serves(r, c)'
    BY <1>2, <2>1, <2>2, <2>3, <2>4, OrderKept
  <2>5. CASE ~(serving'[r] = serving[r] \/ ~Serves(r, c)')
    <3>1. r = s /\ IsFrom(mail[s][1], c) /\ ~Serves(s, c) /\ Serves(s, c)'
      BY <1>2, <1>4, <2>5 DEF Serves
    <3>2. Ordered(c, s)
      BY <1>1 DEF CallsOrdered
    <3>3. \A i \in Box(s)' : i + 1 \in Box(s) /\ mail'[s][i] = mail[s][i + 1] /\ 1 < i + 1
      BY <1>3 DEF Loses, Box
    <3>4. \A i, j \in Box(s)' : i < j => i + 1 < j + 1
      BY DEF Box
    <3>5. /\ last'[c][s] = last[c][s] /\ mail'[c] = mail[c] /\ Box(c)' = Box(c) /\ serving'[s] = mail[s][1]
          /\ Fresh(c)' = Fresh(c)
      BY <1>2, <1>4, <1>5, <2>3 DEF Box
    <3>6. Ordered(c, s)'
      <4>1. last'[c][s] < Fresh(c)'
        BY <3>2, <3>5 DEF Ordered
      <4>2. ASSUME NEW i \in Box(c)', IsFrom(mail'[c][i], s)
            PROVE  /\ last'[c][s] < N(mail'[c][i]) /\ N(mail'[c][i]) < Fresh(c)'
                   /\ \A j \in Box(c)' : i < j /\ IsFrom(mail'[c][j], s) => N(mail'[c][i]) < N(mail'[c][j])
                   /\ Serves(s, c)' => N(mail'[c][i]) < N(serving'[s])
                   /\ \A j \in Box(s)' : IsFrom(mail'[s][j], c) => N(mail'[c][i]) < N(mail'[s][j])
        BY <1>3, <3>1, <3>2, <3>3, <3>5, <4>2 DEF Ordered
      <4>3. /\ last'[c][s] < N(serving'[s]) /\ N(serving'[s]) < Fresh(c)'
            /\ \A j \in Box(s)' : IsFrom(mail'[s][j], c) => N(serving'[s]) < N(mail'[s][j])
        BY <1>3, <3>1, <3>2, <3>3, <3>5 DEF Ordered
      <4>4. ASSUME NEW i \in Box(s)', IsFrom(mail'[s][i], c)
            PROVE  /\ last'[c][s] < N(mail'[s][i]) /\ N(mail'[s][i]) < Fresh(c)'
                   /\ \A j \in Box(s)' : i < j /\ IsFrom(mail'[s][j], c) => N(mail'[s][i]) < N(mail'[s][j])
        BY <3>2, <3>3, <3>4, <3>5, <4>4 DEF Ordered
      <4> QED BY <4>1, <4>2, <4>3, <4>4 DEF Ordered
    <3> QED BY <3>1, <3>6
  <2> QED BY <2>4, <2>5
<1>11. KeysOrdered'
  <2>1. \A c \in Clients : \E d \in {0, 1} : \A i \in Box(c)' :
           mail'[c][i].key # 0 => i + d \in Box(c) /\ mail'[c][i] = mail[c][i + d]
    BY <1>1, <1>5, KeySame
  <2> QED BY <1>2, <2>1, KeyOrderKept
<1> QED BY <1>9, <1>10, <1>11 DEF CallsOrdered

\* A client sends: its number is above every one its server knows of it
LEMMA SendStep ==
  ASSUME RpcInv, TypeInv', NEW c \in Clients, Send(c)
  PROVE  Linked' /\ CallsOrdered' /\ KeysOrdered'
<1>1. TypeInv /\ Linked /\ CallsOrdered
  BY DEF RpcInv
<1>2. PICK s, m :
      /\ s = call[c].svc /\ m = Message(c, call[c].type, About(c, call[c]), 0)
      /\ call[c].at = "send" /\ mail' = Put(mail, s, m) /\ call' = [call EXCEPT ![c].at = "wait"]
      /\ UNCHANGED <<serving, calls, keys, typed, last, read>>
  BY DEF Send, servers, history, reading
<1>3. s \in Servers /\ s \in Procs /\ call[c].type \in CallTypes
  BY <1>1, <1>2, TypeFacts, Apart
<1>4. /\ m \in Messages /\ N(m) = call[c].n /\ m.from = c /\ m.key = 0 /\ RequestTo(m, s)
      /\ \A q : IsFrom(m, q) <=> q = c
  <2>1. /\ m \in Messages /\ About(c, call[c]) \in [n : Calls, by : {c}, to : {s}, type : {call[c].type}]
        /\ About(c, call[c]).n = call[c].n
    BY <1>1, <1>2, RequestType
  <2>2. m.from = c /\ m.about = About(c, call[c]) /\ m.type = call[c].type /\ m.key = 0
    BY <1>2 DEF Message
  <2> QED BY <1>3, <2>1, <2>2 DEF N, RequestTo, IsFrom, Callish, CallTypes
<1>5. MayGain(s, m) /\ \A q \in Procs : q # s => mail'[q] = mail[q]
  BY <1>1, <1>2, <1>3, <1>4, MailPut
<1>6. \A d \in Clients : mail'[d] = mail[d] /\ d # s /\ d \in Procs
  BY <1>3, <1>5, Apart
<1>7. /\ Fresh(c) = call[c].n /\ Fresh(c)' = calls + 1 /\ Fresh(c) < Fresh(c)'
      /\ \A d \in Clients : d # c => Fresh(d)' = Fresh(d)
  <2>1. call'[c].at = "wait" /\ \A d \in Clients : d # c => call'[d] = call[d]
    BY <1>1, <1>2 DEF TypeInv, CallsOK, CallSet
  <2>2. call[c].n \in Nat /\ calls \in Nat /\ call[c].n <= calls
    BY <1>1, Numbers
  <2> QED BY <1>2, <2>1, <2>2 DEF Fresh
<1>8. Linked'
  <2>1. \A r \in Servers : \A i \in Box(r)' :
          (\E j \in Box(r) : mail'[r][i] = mail[r][j]) \/ RequestTo(mail'[r][i], r)
    BY <1>1, <1>4, <1>5, OldSame, OldGaining, Apart
  <2>2. \A d \in Clients : \A i \in Box(d)' : \E j \in Box(d) : mail'[d][i] = mail[d][j]
    BY <1>1, <1>6, OldSame
  <2>3. \A r \in Servers : serving'[r] = serving[r]
    BY <1>2
  <2> QED BY <1>1, <2>1, <2>2, <2>3, LinkedKept
<1>9. ASSUME NEW d \in Clients, NEW r \in Servers PROVE Ordered(d, r)'
  <2>1. KeptFrom(d, r) /\ Fresh(d) <= Fresh(d)' /\ r \in Procs
    BY <1>1, <1>6, <1>7, KeptSame, Numbers, Apart
  <2>2. serving'[r] = serving[r] /\ last'[d][r] = last[d][r]
    BY <1>2
  <2>3. CASE r # s \/ d # c \/ mail'[s] = mail[s]
    <3>1. KeptFrom(r, d)
      BY <1>1, <1>4, <1>5, <2>1, <2>3, KeptSame, KeptGaining
    <3> QED BY <2>1, <2>2, <3>1, OrderKept
  <2>4. CASE r = s /\ d = c /\ mail'[s] # mail[s]
    <3>1. Ordered(c, s)
      BY <1>1, <1>3 DEF CallsOrdered
    <3>2. Len(mail[s]) \in Nat /\ Len(mail'[s]) = Len(mail[s]) + 1
      BY <1>1, <1>3, <1>5, <2>4, Lengths DEF MayGain
    <3>3. \A i \in Box(s)' : (i \in Box(s) /\ mail'[s][i] = mail[s][i]) \/ (i = Len(mail[s]) + 1 /\ mail'[s][i] = m)
      BY <1>5, <2>4, <3>2 DEF MayGain, Box
    <3>4. \A i, j \in Box(s)' : i < j => i \in Box(s)
      BY <3>2 DEF Box
    <3>5. mail'[c] = mail[c] /\ Box(c)' = Box(c) /\ (Serves(s, c)' <=> Serves(s, c)) /\ serving'[s] = serving[s]
      BY <1>2, <1>6 DEF Box, Serves
    <3>6. last'[c][s] = last[c][s] /\ N(m) = Fresh(c) /\ Fresh(c) < Fresh(c)'
      BY <1>4, <1>7, <2>2, <2>4
    <3>7. last[c][s] \in Nat /\ Fresh(c) \in Nat /\ Fresh(c)' \in Nat
      BY <1>1, <1>3, Numbers, FreshNext
    <3>8. /\ \A i \in Box(s) : IsFrom(mail[s][i], c) => N(mail[s][i]) \in Nat
          /\ Serves(s, c) => N(serving[s]) \in Nat
          /\ \A i \in Box(c) : IsFrom(mail[c][i], s) => N(mail[c][i]) \in Nat
      BY <1>1, <1>3, LinkedNumbers DEF IsFrom, Serves
    <3>9. last'[c][s] < Fresh(c)'
      BY <3>1, <3>6, <3>7 DEF Ordered
    <3>10. ASSUME NEW i \in Box(c)', IsFrom(mail'[c][i], s)
           PROVE  /\ last'[c][s] < N(mail'[c][i]) /\ N(mail'[c][i]) < Fresh(c)'
                  /\ \A j \in Box(c)' : i < j /\ IsFrom(mail'[c][j], s) => N(mail'[c][i]) < N(mail'[c][j])
                  /\ Serves(s, c)' => N(mail'[c][i]) < N(serving'[s])
                  /\ \A j \in Box(s)' : IsFrom(mail'[s][j], c) => N(mail'[c][i]) < N(mail'[s][j])
      BY <3>1, <3>3, <3>5, <3>6, <3>7, <3>8, <3>10 DEF Ordered
    <3>11. ASSUME Serves(s, c)'
           PROVE  /\ last'[c][s] < N(serving'[s]) /\ N(serving'[s]) < Fresh(c)'
                  /\ \A j \in Box(s)' : IsFrom(mail'[s][j], c) => N(serving'[s]) < N(mail'[s][j])
      BY <3>1, <3>3, <3>5, <3>6, <3>7, <3>8, <3>11 DEF Ordered
    <3>12. ASSUME NEW i \in Box(s)', IsFrom(mail'[s][i], c)
           PROVE  /\ last'[c][s] < N(mail'[s][i]) /\ N(mail'[s][i]) < Fresh(c)'
                  /\ \A j \in Box(s)' : i < j /\ IsFrom(mail'[s][j], c) => N(mail'[s][i]) < N(mail'[s][j])
      <4>1. CASE i \in Box(s) /\ mail'[s][i] = mail[s][i]
        BY <3>1, <3>3, <3>6, <3>7, <3>8, <3>12, <4>1 DEF Ordered
      <4>2. CASE i = Len(mail[s]) + 1 /\ mail'[s][i] = m
        <5>1. \A j \in Box(s)' : ~(i < j)
          BY <3>2, <4>2 DEF Box
        <5> QED BY <3>1, <3>6, <3>7, <4>2, <5>1 DEF Ordered
      <4> QED BY <3>3, <4>1, <4>2
    <3> QED BY <2>4, <3>9, <3>10, <3>11, <3>12 DEF Ordered
  <2> QED BY <2>3, <2>4
<1>10. KeysOrdered'
  <2>1. \A d \in Clients : \E e \in {0, 1} : \A i \in Box(d)' :
           mail'[d][i].key # 0 => i + e \in Box(d) /\ mail'[d][i] = mail[d][i + e]
    BY <1>1, <1>6, KeySame
  <2> QED BY <1>2, <2>1, KeyOrderKept
<1> QED BY <1>8, <1>9, <1>10 DEF CallsOrdered

\* Steps that touch neither mailboxes nor keys
LEMMA QuietStep ==
  ASSUME RpcInv, TypeInv', UNCHANGED <<mail, keys, typed, last, read>>,
         \A s \in Servers : serving'[s] = serving[s] \/ serving'[s] = NoRequest,
         \A c \in Clients : Fresh(c) <= Fresh(c)'
  PROVE  Linked' /\ CallsOrdered' /\ KeysOrdered'
<1>1. \A c \in Clients : \E e \in {0, 1} : \A i \in Box(c)' :
        mail'[c][i].key # 0 => i + e \in Box(c) /\ mail'[c][i] = mail[c][i + e]
  BY KeySame, Apart DEF RpcInv
<1> QED BY <1>1, KeyOrderKept, MailStep

LEMMA QuietServer ==
  ASSUME RpcInv, TypeInv', NEW s \in Servers, Register(s) \/ RegisterRefused(s) \/ Exit(s)
  PROVE  Linked' /\ CallsOrdered' /\ KeysOrdered'
<1>1. UNCHANGED <<mail, call, calls, keys, typed, last, read>>
  BY DEF Register, RegisterRefused, Exit, history, reading
<1>2. \A r \in Servers : serving'[r] = serving[r] \/ serving'[r] = NoRequest
  BY DEF Register, RegisterRefused, Exit, RpcInv, TypeInv, TypeOK
<1>3. \A c \in Clients : Fresh(c)' = Fresh(c) /\ Fresh(c) \in Nat
  BY <1>1, Numbers DEF RpcInv, Fresh
<1> QED BY <1>1, <1>2, <1>3, QuietStep

LEMMA ReturnFresh ==
  ASSUME TypeInv, NEW c \in Clients, Return(c), calls' = calls
  PROVE  \A d \in Clients : Fresh(d) <= Fresh(d)'
<1>1. call'[c] = NoCall /\ \A d \in Clients : d # c => call'[d] = call[d]
  BY DEF Return, TypeInv, CallsOK
<1>2. Fresh(c)' = calls + 1 /\ \A d \in Clients : d # c => Fresh(d)' = Fresh(d)
  BY <1>1 DEF Fresh, NoCall
<1> QED BY <1>2, Numbers

LEMMA QuietClient ==
  ASSUME RpcInv, TypeInv', NEW c \in Clients,
         \/ ClientStart(c) \/ Query(c) \/ QueryRetry(c)
         \/ QueryGiveUp(c) \/ SendRefused(c) \/ WaitGiveUp(c)
  PROVE  Linked' /\ CallsOrdered' /\ KeysOrdered'
<1>1. UNCHANGED <<mail, serving, keys, typed, last, read>> /\ TypeInv
  BY DEF ClientStart, Call, Query, QueryRetry, QueryGiveUp, SendRefused, WaitGiveUp, Fail, servers, history, reading, RpcInv
<1>2. \A d \in Clients : Fresh(d) <= Fresh(d)'
  <2>1. CASE ClientStart(c)
    <3>1. /\ call[c].at = "idle" /\ calls' = calls + 1
          /\ \E t \in CallTypes : call' = [call EXCEPT ![c] = [at |-> "query", type |-> t, svc |-> 0, n |-> calls + 1]]
      BY <2>1 DEF ClientStart, Call
    <3>2. call'[c].at = "query" /\ call'[c].n = calls + 1 /\ \A d \in Clients : d # c => call'[d] = call[d]
      BY <1>1, <3>1 DEF TypeInv, CallsOK
    <3>3. Fresh(c) = calls + 1 /\ Fresh(c)' = calls + 1
      BY <3>1, <3>2 DEF Fresh
    <3>4. \A d \in Clients : d # c => Fresh(d) <= Fresh(d)'
      BY <1>1, <3>1, <3>2, Numbers DEF Fresh
    <3> QED BY <1>1, <3>3, <3>4, Numbers
  <2>2. CASE Query(c)
    <3>1. call[c].at = "query" /\ calls' = calls /\ \A d \in Clients : d # c => call'[d] = call[d]
      BY <1>1, <2>2 DEF Query, TypeInv, CallsOK
    <3>2. call'[c].at = "send" /\ call'[c].n = call[c].n
      BY <1>1, <2>2 DEF Query, TypeInv, CallsOK, CallSet
    <3>3. \A d \in Clients : Fresh(d)' = Fresh(d)
      BY <3>1, <3>2 DEF Fresh
    <3> QED BY <1>1, <3>3, Numbers
  <2>3. CASE QueryRetry(c)
    <3>1. \A d \in Clients : Fresh(d)' = Fresh(d)
      BY <2>3 DEF QueryRetry, Fresh
    <3> QED BY <1>1, <3>1, Numbers
  <2>4. CASE QueryGiveUp(c) \/ SendRefused(c) \/ WaitGiveUp(c)
    BY <1>1, <2>4, ReturnFresh DEF QueryGiveUp, SendRefused, WaitGiveUp, Fail
  <2> QED BY <2>1, <2>2, <2>3, <2>4
<1> QED BY <1>1, <1>2, QuietStep

\* A client takes the oldest message of its mailbox for an answer, or refuses it: what is left of
\* that server's answers is younger
LEMMA AnswerStep ==
  ASSUME RpcInv, TypeInv', NEW c \in Clients, Accept(c) \/ Reject(c)
  PROVE  Linked' /\ CallsOrdered' /\ KeysOrdered'
<1>1. TypeInv /\ Linked /\ CallsOrdered /\ c \in Procs
  BY Apart DEF RpcInv
<1>2. /\ call[c].at = "wait" /\ mail[c] # <<>> /\ mail' = [mail EXCEPT ![c] = Tail(mail[c])] /\ Return(c)
      /\ UNCHANGED <<serving, calls, keys, typed, read>>
  BY DEF Accept, Reject, Fail, servers, history, reading
<1>3. /\ Loses(c) /\ (\A q \in Procs : q # c => mail'[q] = mail[q]) /\ Head(mail[c]) = mail[c][1] /\ 1 \in Box(c)
      /\ Len(mail[c]) \in Nat
  BY <1>1, <1>2, MailPop
<1>4. \A p \in Procs : mail'[p] = mail[p] \/ Loses(p)
  BY <1>3
<1>5. \A d \in Clients : Fresh(d) <= Fresh(d)'
  BY <1>1, <1>2, ReturnFresh
<1>6. Linked'
  <2>1. \A p \in Procs : \A i \in Box(p)' : \E j \in Box(p) : mail'[p][i] = mail[p][j]
    BY <1>1, <1>4, OldSame, OldLosing
  <2>2. \A s \in Servers : \A i \in Box(s)' : \E j \in Box(s) : mail'[s][i] = mail[s][j]
    BY <2>1, Apart
  <2>3. \A d \in Clients : \A i \in Box(d)' : \E j \in Box(d) : mail'[d][i] = mail[d][j]
    BY <2>1, Apart
  <2>4. \A s \in Servers : serving'[s] = serving[s]
    BY <1>2
  <2> QED BY <1>1, <2>2, <2>3, <2>4, LinkedKept
<1>7. ASSUME NEW d \in Clients, NEW s \in Servers PROVE Ordered(d, s)'
  <2>1. KeptFrom(d, s) /\ KeptFrom(s, d)
    BY <1>1, <1>4, KeptSame, KeptLosing, Apart
  <2>2. CASE last'[d][s] = last[d][s]
    BY <1>2, <1>5, <2>1, <2>2, OrderKept
  <2>3. CASE last'[d][s] # last[d][s]
    <3>1. Accept(c)
      BY <2>3 DEF Reject, history, reading
    <3>2. Answers(c, mail[c][1]) /\ last' = [last EXCEPT ![c][mail[c][1].from] = N(mail[c][1])]
      BY <1>3, <3>1 DEF Accept, N
    <3>3. d = c /\ mail[c][1].from = s /\ last'[c][s] = N(mail[c][1])
      BY <1>1, <2>3, <3>2 DEF TypeInv, TypeOK
    <3>4. call[c].type \in CallTypes
      BY <1>1, <1>2, TypeFacts
    <3>5. IsFrom(mail[c][1], s)
      BY <3>2, <3>3, <3>4 DEF Answers, IsFrom, Callish, CallTypes
    <3>6. Ordered(c, s)
      BY <1>1 DEF CallsOrdered
    <3>7. \A i \in Box(c)' : i + 1 \in Box(c) /\ mail'[c][i] = mail[c][i + 1] /\ 1 < i + 1
      BY <1>3 DEF Loses, Box
    <3>8. \A i, j \in Box(c)' : i < j => i + 1 < j + 1
      BY DEF Box
    <3>9. mail'[s] = mail[s] /\ Box(s)' = Box(s) /\ serving'[s] = serving[s] /\ (Serves(s, c)' <=> Serves(s, c))
      BY <1>2, <1>3, Apart DEF Box, Serves
    <3>10. /\ Fresh(c) \in Nat /\ Fresh(c)' \in Nat /\ Fresh(c) <= Fresh(c)'
           /\ \A i \in Box(s) : IsFrom(mail[s][i], c) => N(mail[s][i]) \in Nat
           /\ Serves(s, c) => N(serving[s]) \in Nat
           /\ \A i \in Box(c) : IsFrom(mail[c][i], s) => N(mail[c][i]) \in Nat
      BY <1>1, <1>5, Numbers, FreshNext, LinkedNumbers DEF IsFrom, Serves
    <3>11. last'[c][s] < Fresh(c)'
      BY <1>3, <3>3, <3>5, <3>6, <3>10 DEF Ordered
    <3>12. ASSUME NEW i \in Box(c)', IsFrom(mail'[c][i], s)
           PROVE  /\ last'[c][s] < N(mail'[c][i]) /\ N(mail'[c][i]) < Fresh(c)'
                  /\ \A j \in Box(c)' : i < j /\ IsFrom(mail'[c][j], s) => N(mail'[c][i]) < N(mail'[c][j])
                  /\ Serves(s, c)' => N(mail'[c][i]) < N(serving'[s])
                  /\ \A j \in Box(s)' : IsFrom(mail'[s][j], c) => N(mail'[c][i]) < N(mail'[s][j])
      <4>1. last'[c][s] < N(mail'[c][i]) /\ N(mail'[c][i]) < Fresh(c)'
        BY <1>3, <3>3, <3>5, <3>6, <3>7, <3>10, <3>12 DEF Ordered
      <4>2. \A j \in Box(c)' : i < j /\ IsFrom(mail'[c][j], s) => N(mail'[c][i]) < N(mail'[c][j])
        BY <3>6, <3>7, <3>8, <3>12 DEF Ordered
      <4> QED BY <3>6, <3>7, <3>9, <3>12, <4>1, <4>2 DEF Ordered
    <3>13. ASSUME Serves(s, c)'
           PROVE  /\ last'[c][s] < N(serving'[s]) /\ N(serving'[s]) < Fresh(c)'
                  /\ \A j \in Box(s)' : IsFrom(mail'[s][j], c) => N(serving'[s]) < N(mail'[s][j])
      BY <1>3, <3>3, <3>5, <3>6, <3>9, <3>10, <3>13 DEF Ordered
    <3>14. ASSUME NEW i \in Box(s)', IsFrom(mail'[s][i], c)
           PROVE  /\ last'[c][s] < N(mail'[s][i]) /\ N(mail'[s][i]) < Fresh(c)'
                  /\ \A j \in Box(s)' : i < j /\ IsFrom(mail'[s][j], c) => N(mail'[s][i]) < N(mail'[s][j])
      BY <1>3, <3>3, <3>5, <3>6, <3>9, <3>10, <3>14 DEF Ordered
    <3> QED BY <3>3, <3>11, <3>12, <3>13, <3>14 DEF Ordered
  <2> QED BY <2>2, <2>3
<1>8. KeysOrdered'
  <2>1. \A d \in Clients : \E e \in {0, 1} : \A i \in Box(d)' :
           mail'[d][i].key # 0 => i + e \in Box(d) /\ mail'[d][i] = mail[d][i + e]
    BY <1>1, <1>4, KeySame, KeyLosing, Apart
  <2> QED BY <1>2, <2>1, KeyOrderKept
<1> QED BY <1>6, <1>7, <1>8 DEF CallsOrdered

LEMMA KeySeq ==
  ASSUME TypeInv
  PROVE  /\ Len(keys) \in Nat /\ \A k \in 1 .. Len(keys) : keys[k] \in Nat
         /\ typed \in Nat /\ \A c \in Clients : read[c] \in Nat
         /\ \A c \in Clients : \A i \in Box(c) : mail[c][i].key \in Nat
         /\ keys # <<>> => /\ 1 \in 1 .. Len(keys) /\ Head(keys) = keys[1] /\ Head(keys) # 0
                           /\ Len(Tail(keys)) = Len(keys) - 1
                           /\ \A k \in 1 .. Len(Tail(keys)) : Tail(keys)[k] = keys[k + 1] /\ k + 1 \in 1 .. Len(keys)
<1>1. keys \in Seq(Keys) /\ typed \in 0 .. MaxKeys /\ read \in [Clients -> 0 .. MaxKeys]
  BY DEF TypeInv, TypeOK
<1>2. Keys \subseteq Nat /\ 0 .. MaxKeys \subseteq Nat /\ 0 \notin Keys
  BY Bounds DEF Keys
<1>3. Len(keys) \in Nat /\ \A k \in 1 .. Len(keys) : keys[k] \in Keys
  BY <1>1
<1>4. keys # <<>> => /\ 1 \in 1 .. Len(keys) /\ Head(keys) = keys[1]
                     /\ Len(Tail(keys)) = Len(keys) - 1
                     /\ \A k \in 1 .. Len(Tail(keys)) : Tail(keys)[k] = keys[k + 1] /\ k + 1 \in 1 .. Len(keys)
  BY <1>1, <1>3
<1>5. \A c \in Clients : \A i \in Box(c) : mail[c][i].key \in Nat
  <2>1. \A c \in Clients : \A i \in Box(c) : mail[c][i] \in Messages
    BY TypeFacts, Apart DEF Mailboxes, Box
  <2> QED BY <1>2, <2>1 DEF Messages
<1> QED BY <1>1, <1>2, <1>3, <1>4, <1>5

\* A server answers: the answer follows those in the client's mailbox, and comes before the
\* requests that wait.  A key goes from the controller into the answer
LEMMA ReplyStep ==
  ASSUME RpcInv, TypeInv', NEW s \in Servers, Reply(s)
  PROVE  Linked' /\ CallsOrdered' /\ KeysOrdered'
<1>1. TypeInv /\ Linked /\ CallsOrdered /\ KeysOrdered
  BY DEF RpcInv
<1>2. PICK c, m :
      /\ c = serving[s].from /\ m = Message(s, serving[s].type, serving[s].about, KeyFor(s))
      /\ serving[s] # NoRequest /\ mail' = Put(mail, c, m) /\ keys' = KeysAfter(s)
      /\ serving' = [serving EXCEPT ![s] = NoRequest] /\ UNCHANGED <<call, calls, typed, last, read>>
  BY DEF Reply, history, reading
<1>3. RequestTo(serving[s], s) /\ c \in Clients /\ c \in Procs /\ s \in Procs
  BY <1>1, <1>2, Apart DEF Linked, RequestTo
<1>4. /\ m \in Messages /\ m.from = s /\ m.type = serving[s].type /\ m.about = serving[s].about
      /\ m.key = KeyFor(s) /\ N(m) = N(serving[s])
  BY <1>1, <1>2, ReplyType DEF Message, N
<1>5. MayGain(c, m) /\ \A q \in Procs : q # c => mail'[q] = mail[q]
  BY <1>1, <1>2, <1>3, <1>4, MailPut
<1>6. AnswerTo(m, c) /\ (\A q : IsFrom(m, q) => q = s /\ Serves(s, c))
  BY <1>2, <1>3, <1>4 DEF RequestTo, AnswerTo, Callish, IsFrom, Serves
<1>7. \A r \in Servers : mail'[r] = mail[r] /\ r # c /\ r \in Procs
  BY <1>3, <1>5, Apart
<1>8. \A d \in Clients : Fresh(d)' = Fresh(d) /\ Fresh(d) \in Nat
  BY <1>1, <1>2, Numbers DEF Fresh
<1>9. serving'[s] = NoRequest /\ \A r \in Servers : r # s => serving'[r] = serving[r]
  BY <1>1, <1>2 DEF TypeInv, TypeOK
<1>10. Linked'
  <2>1. \A d \in Clients : \A i \in Box(d)' :
          (\E j \in Box(d) : mail'[d][i] = mail[d][j]) \/ AnswerTo(mail'[d][i], d)
    BY <1>1, <1>5, <1>6, OldSame, OldGaining, Apart
  <2>2. \A r \in Servers : \A i \in Box(r)' : \E j \in Box(r) : mail'[r][i] = mail[r][j]
    BY <1>1, <1>7, OldSame
  <2>3. \A r \in Servers : serving'[r] = serving[r] \/ serving'[r] = NoRequest
    BY <1>9
  <2> QED BY <1>1, <2>1, <2>2, <2>3, LinkedKept
<1>11. ASSUME NEW d \in Clients, NEW r \in Servers PROVE Ordered(d, r)'
  <2>1. KeptFrom(r, d) /\ Fresh(d) <= Fresh(d)' /\ d \in Procs
    BY <1>1, <1>7, <1>8, KeptSame, Apart
  <2>2. (serving'[r] = serving[r] \/ ~Serves(r, d)') /\ last'[d][r] = last[d][r]
    BY <1>2, <1>9 DEF Serves
  <2>3. CASE d # c \/ ~IsFrom(m, r) \/ mail'[c] = mail[c]
    <3>1. KeptFrom(d, r)
      BY <1>1, <1>5, <2>1, <2>3, KeptSame, KeptGaining
    <3> QED BY <2>1, <2>2, <3>1, OrderKept
  <2>4. CASE d = c /\ IsFrom(m, r) /\ mail'[c] # mail[c]
    <3>1. Ordered(c, s) /\ r = s /\ Serves(s, c) /\ ~Serves(s, c)'
      BY <1>1, <1>3, <1>6, <1>9, <2>4 DEF CallsOrdered, Serves
    <3>2. Len(mail[c]) \in Nat /\ Len(mail'[c]) = Len(mail[c]) + 1
      BY <1>1, <1>3, <1>5, <2>4, Lengths DEF MayGain
    <3>3. \A i \in Box(c)' : (i \in Box(c) /\ mail'[c][i] = mail[c][i]) \/ (i = Len(mail[c]) + 1 /\ mail'[c][i] = m)
      BY <1>5, <2>4, <3>2 DEF MayGain, Box
    <3>4. \A i, j \in Box(c)' : i < j => i \in Box(c) /\ mail'[c][i] = mail[c][i]
      BY <1>5, <2>4, <3>2 DEF MayGain, Box
    <3>5. mail'[s] = mail[s] /\ Box(s)' = Box(s)
      BY <1>7 DEF Box
    <3>6. last'[c][s] = last[c][s] /\ N(m) = N(serving[s]) /\ Fresh(c)' = Fresh(c)
      BY <1>4, <1>8, <2>2, <2>4, <3>1
    <3>7. last'[c][s] < Fresh(c)'
      BY <3>1, <3>6 DEF Ordered
    <3>8. ASSUME NEW i \in Box(c)', IsFrom(mail'[c][i], s)
           PROVE  /\ last'[c][s] < N(mail'[c][i]) /\ N(mail'[c][i]) < Fresh(c)'
                  /\ \A j \in Box(c)' : i < j /\ IsFrom(mail'[c][j], s) => N(mail'[c][i]) < N(mail'[c][j])
                  /\ \A j \in Box(s)' : IsFrom(mail'[s][j], c) => N(mail'[c][i]) < N(mail'[s][j])
      <4>1. CASE i \in Box(c) /\ mail'[c][i] = mail[c][i]
        BY <3>1, <3>3, <3>5, <3>6, <3>8, <4>1 DEF Ordered
      <4>2. CASE i = Len(mail[c]) + 1 /\ mail'[c][i] = m
        <5>1. \A j \in Box(c)' : ~(i < j)
          BY <3>2, <4>2 DEF Box
        <5> QED BY <3>1, <3>5, <3>6, <4>2, <5>1 DEF Ordered
      <4> QED BY <3>3, <4>1, <4>2
    <3>9. ASSUME NEW i \in Box(s)', IsFrom(mail'[s][i], c)
           PROVE  /\ last'[c][s] < N(mail'[s][i]) /\ N(mail'[s][i]) < Fresh(c)'
                  /\ \A j \in Box(s)' : i < j /\ IsFrom(mail'[s][j], c) => N(mail'[s][i]) < N(mail'[s][j])
      BY <3>1, <3>5, <3>6, <3>9 DEF Ordered
    <3> QED BY <2>4, <3>1, <3>7, <3>8, <3>9 DEF Ordered
  <2> QED BY <2>3, <2>4
<1>12. KeysOrdered'
  <2>1. CASE s \in Kbd /\ keys # <<>>
    <3>1. keys' = Tail(keys) /\ m.key = keys[1]
      BY <1>1, <1>2, <1>4, <2>1, KeySeq DEF KeyFor, KeysAfter
    <3>2. /\ 1 \in 1 .. Len(keys) /\ Len(keys') = Len(keys) - 1 /\ Len(keys) \in Nat
          /\ \A k \in 1 .. Len(keys') : keys'[k] = keys[k + 1] /\ k + 1 \in 1 .. Len(keys)
      BY <1>1, <2>1, <3>1, KeySeq
    <3>3. /\ \A k \in 1 .. Len(keys') : 1 < k + 1
          /\ \A k, l \in 1 .. Len(keys') : k < l => k + 1 < l + 1
      BY <3>2
    <3>4. ASSUME NEW k \in 1 .. Len(keys')
          PROVE  keys'[k] <= typed' /\ \A l \in 1 .. Len(keys') : k < l => keys'[k] < keys'[l]
      BY <1>1, <1>2, <3>2, <3>3 DEF KeysOrdered
    <3>5. ASSUME NEW d \in Clients
          PROVE  /\ read'[d] <= typed' /\ \A k \in 1 .. Len(keys') : read'[d] < keys'[k]
                 /\ \A i \in Box(d)' : mail'[d][i].key # 0 =>
                      /\ read'[d] < mail'[d][i].key /\ mail'[d][i].key <= typed'
                      /\ \A k \in 1 .. Len(keys') : mail'[d][i].key < keys'[k]
                      /\ \A j \in Box(d)' : i < j /\ mail'[d][j].key # 0 => mail'[d][i].key < mail'[d][j].key
      <4>1. read'[d] <= typed' /\ \A k \in 1 .. Len(keys') : read'[d] < keys'[k]
        BY <1>1, <1>2, <3>2, <3>3 DEF KeysOrdered
      <4>2. ASSUME NEW i \in Box(d)', mail'[d][i].key # 0
            PROVE  /\ read'[d] < mail'[d][i].key /\ mail'[d][i].key <= typed'
                   /\ \A k \in 1 .. Len(keys') : mail'[d][i].key < keys'[k]
                   /\ \A j \in Box(d)' : i < j /\ mail'[d][j].key # 0 => mail'[d][i].key < mail'[d][j].key
        <5>1. d \in Procs /\ Len(mail[d]) \in Nat
          BY <1>1, Apart, Lengths
        <5>2. CASE mail'[d] = mail[d]
          <6>1. Box(d)' = Box(d)
            BY <5>2 DEF Box
          <6> QED BY <1>1, <1>2, <3>2, <4>2, <5>2, <6>1 DEF KeysOrdered
        <5>3. CASE mail'[d] # mail[d]
          <6>1. d = c /\ Len(mail'[d]) = Len(mail[d]) + 1 /\ mail'[d][Len(mail[d]) + 1] = m
                /\ \A j \in 1 .. Len(mail[d]) : mail'[d][j] = mail[d][j]
            BY <1>5, <5>1, <5>3 DEF MayGain
          <6>2. \A j \in Box(d)' : (j \in Box(d) /\ mail'[d][j] = mail[d][j])
                                     \/ (j = Len(mail[d]) + 1 /\ mail'[d][j] = m)
            BY <5>1, <6>1 DEF Box
          <6>3. CASE i \in Box(d) /\ mail'[d][i] = mail[d][i]
            BY <1>1, <1>2, <3>1, <3>2, <4>2, <6>2, <6>3 DEF KeysOrdered
          <6>4. CASE i = Len(mail[d]) + 1 /\ mail'[d][i] = m
            <7>1. \A j \in Box(d)' : ~(i < j)
              BY <5>1, <6>1, <6>4 DEF Box
            <7> QED BY <1>1, <1>2, <3>1, <3>2, <3>3, <6>4, <7>1 DEF KeysOrdered
          <6> QED BY <6>2, <6>3, <6>4
        <5> QED BY <5>2, <5>3
      <4> QED BY <4>1, <4>2
    <3> QED BY <3>4, <3>5 DEF KeysOrdered
  <2>2. CASE ~(s \in Kbd /\ keys # <<>>)
    <3>1. keys' = keys /\ m.key = 0
      BY <1>2, <1>4, <2>2 DEF KeyFor, KeysAfter
    <3>2. ASSUME NEW d \in Clients
          PROVE  \E e \in {0, 1} : \A i \in Box(d)' :
                   mail'[d][i].key # 0 => i + e \in Box(d) /\ mail'[d][i] = mail[d][i + e]
      <4>1. CASE mail'[d] = mail[d]
        BY <1>1, <4>1, KeySame, Apart
      <4>2. CASE mail'[d] # mail[d]
        <5>1. d = c /\ Len(mail[d]) \in Nat
          BY <1>1, <1>5, <4>2, Apart, Lengths
        <5>2. \A i \in Box(d)' : mail'[d][i].key # 0 => i + 0 \in Box(d) /\ mail'[d][i] = mail[d][i + 0]
          BY <1>5, <3>1, <4>2, <5>1 DEF MayGain, Box
        <5> QED BY <5>2
      <4> QED BY <4>1, <4>2
    <3> QED BY <1>2, <3>1, <3>2, KeyOrderKept
  <2> QED BY <2>1, <2>2
<1> QED BY <1>10, <1>11, <1>12 DEF CallsOrdered

\* SYS_READ through the driver: a request that is about no call, and the oldest message of the
\* reader gone
LEMMA ReadServiceStep ==
  ASSUME RpcInv, TypeInv', NEW c \in Clients, ReadService(c)
  PROVE  Linked' /\ CallsOrdered' /\ KeysOrdered'
<1>1. TypeInv /\ Linked /\ CallsOrdered /\ KeysOrdered /\ c \in Procs
  BY Apart DEF RpcInv
<1>2. PICK s, m : s = svc["kbd"] /\ m = Message(c, "KBD_GET", NoAbout, 0)
  OBVIOUS
<1>3. PICK asked \in Mailboxes :
        /\ asked = Put(mail, s, m) /\ s \in Servers /\ asked[c] = mail[c]
        /\ \A p \in Procs : Len(asked[p]) <= Q
        /\ \/ mail' = asked /\ read' = read
           \/ /\ mail' = [asked EXCEPT ![c] = Tail(asked[c])] /\ asked[c] # <<>>
              /\ \/ read' = read
                 \/ Head(mail[c]).key # 0 /\ read' = [read EXCEPT ![c] = Head(mail[c]).key]
  BY <1>1, <1>2, ReadServiceSteps
<1>4. UNCHANGED <<serving, call, calls, keys, typed, last>>
  BY DEF ReadService, servers
<1>5. s \in Procs /\ s # c /\ m \in Messages /\ m.from = c /\ ~Callish(m) /\ m.key = 0
  BY <1>2, <1>3, Apart, KbdGetType DEF Message, Callish
<1>6. /\ \A q \in Procs : q # s => asked[q] = mail[q]
      /\ \/ asked[s] = mail[s]
         \/ /\ Len(asked[s]) = Len(mail[s]) + 1
            /\ \A i \in 1 .. Len(mail[s]) : asked[s][i] = mail[s][i]
            /\ asked[s][Len(mail[s]) + 1] = m
  <2>1. mail \in Mailboxes /\ \A p \in Procs : Len(mail[p]) <= Q
    BY <1>1, TypeFacts
  <2>2. asked = Put(mail, s, m) /\ s \in Procs /\ m \in Messages
    BY <1>3, <1>5
  <2> QED BY ONLY <2>1, <2>2, PutOf
<1>7. /\ \A q \in Procs : q # c => mail'[q] = asked[q]
      /\ \/ mail'[c] = mail[c] /\ read' = read
         \/ /\ Loses(c) /\ 1 \in Box(c)
            /\ \/ read' = read
               \/ mail[c][1].key # 0 /\ read' = [read EXCEPT ![c] = mail[c][1].key]
  <2>1. CASE mail' = asked /\ read' = read
    BY <1>3, <2>1
  <2>2. CASE /\ mail' = [asked EXCEPT ![c] = Tail(asked[c])] /\ asked[c] # <<>>
             /\ \/ read' = read
                \/ Head(mail[c]).key # 0 /\ read' = [read EXCEPT ![c] = Head(mail[c]).key]
    <3>1. /\ \A q \in Procs : q # c => mail'[q] = asked[q]
          /\ Len(mail'[c]) = Len(asked[c]) - 1 /\ Len(asked[c]) \in Nat /\ Len(asked[c]) >= 1
          /\ \A i \in 1 .. Len(mail'[c]) : mail'[c][i] = asked[c][i + 1]
          /\ Head(asked[c]) = asked[c][1]
      <4>1. PICK t : t = mail'
        OBVIOUS
      <4>2. Fits(asked) /\ c \in Procs /\ asked[c] # <<>> /\ t = [asked EXCEPT ![c] = Tail(asked[c])]
        BY <1>1, <1>3, <2>2, <4>1 DEF Fits
      <4>3. Popped(asked, c, t)
        BY <4>2, PopOf
      <4> QED BY <4>1, <4>3 DEF Popped
    <3> QED BY <1>3, <2>2, <3>1 DEF Loses, Box
  <2> QED BY <1>3, <2>1, <2>2
<1>8. MayGain(s, m) /\ (\A q \in Procs : q # s /\ q # c => mail'[q] = mail[q]) /\ (mail'[c] = mail[c] \/ Loses(c))
  BY <1>5, <1>6, <1>7 DEF MayGain
<1>9. \A d \in Clients : (mail'[d] = mail[d] \/ Loses(d)) /\ d \in Procs /\ d # s
  BY <1>3, <1>8, Apart
<1>10. \A r \in Servers : (mail'[r] = mail[r] \/ MayGain(r, m)) /\ r \in Procs
  BY <1>1, <1>8, Apart
<1>11. RequestTo(m, s) /\ (\A r : RequestTo(m, r)) /\ \A d : ~IsFrom(m, d)
  BY <1>5 DEF RequestTo, IsFrom
<1>12. Linked'
  <2>1. \A d \in Clients : \A i \in Box(d)' : \E j \in Box(d) : mail'[d][i] = mail[d][j]
    BY <1>1, <1>9, OldSame, OldLosing
  <2>2. \A r \in Servers : \A i \in Box(r)' :
          (\E j \in Box(r) : mail'[r][i] = mail[r][j]) \/ RequestTo(mail'[r][i], r)
    BY <1>1, <1>10, <1>11, OldSame, OldGaining
  <2>3. \A r \in Servers : serving'[r] = serving[r]
    BY <1>4
  <2> QED BY <1>1, <2>1, <2>2, <2>3, LinkedKept
<1>13. ASSUME NEW d \in Clients, NEW r \in Servers PROVE Ordered(d, r)'
  <2>1. KeptFrom(d, r)
    BY <1>1, <1>9, KeptSame, KeptLosing
  <2>2. KeptFrom(r, d)
    BY <1>1, <1>10, <1>11, KeptSame, KeptGaining
  <2>3. Fresh(d) <= Fresh(d)' /\ serving'[r] = serving[r] /\ last'[d][r] = last[d][r]
    BY <1>1, <1>4, Numbers DEF Fresh
  <2> QED BY <2>1, <2>2, <2>3, OrderKept
<1>14. KeysOrdered'
  <2>1. CASE read' = read
    <3>1. \A d \in Clients : \E e \in {0, 1} : \A i \in Box(d)' :
             mail'[d][i].key # 0 => i + e \in Box(d) /\ mail'[d][i] = mail[d][i + e]
      BY <1>1, <1>9, KeySame, KeyLosing
    <3> QED BY <1>4, <2>1, <3>1, KeyOrderKept
  <2>2. CASE read' # read
    <3>1. /\ Loses(c) /\ 1 \in Box(c) /\ mail[c][1].key # 0
          /\ read' = [read EXCEPT ![c] = mail[c][1].key]
      BY <1>7, <2>2
    <3>2. read'[c] = mail[c][1].key /\ \A d \in Clients : d # c => read'[d] = read[d]
      BY <1>1, <3>1 DEF TypeInv, TypeOK
    <3>3. \A i \in Box(c)' : i + 1 \in Box(c) /\ mail'[c][i] = mail[c][i + 1] /\ 1 < i + 1
      BY <1>1, <3>1, Lengths DEF Loses, Box
    <3>4. \A i, j \in Box(c)' : i < j => i + 1 < j + 1
      BY DEF Box
    <3>5. \A d \in Clients : d # c => mail'[d] = mail[d] /\ Box(d)' = Box(d)
      BY <1>8, <1>9 DEF Box
    <3>6. /\ read'[c] <= typed /\ \A k \in 1 .. Len(keys) : read'[c] < keys[k]
          /\ \A i \in Box(c)' : mail'[c][i].key # 0 =>
               /\ read'[c] < mail'[c][i].key /\ mail'[c][i].key <= typed
               /\ \A k \in 1 .. Len(keys) : mail'[c][i].key < keys[k]
      BY <1>1, <3>1, <3>2, <3>3 DEF KeysOrdered
    <3>7. \A i, j \in Box(c)' : i < j /\ mail'[c][i].key # 0 /\ mail'[c][j].key # 0
                                  => mail'[c][i].key < mail'[c][j].key
      BY <1>1, <3>3, <3>4 DEF KeysOrdered
    <3>8. ASSUME NEW d \in Clients, d # c
          PROVE  /\ read'[d] <= typed /\ \A k \in 1 .. Len(keys) : read'[d] < keys[k]
                 /\ \A i \in Box(d)' : mail'[d][i].key # 0 =>
                      /\ read'[d] < mail'[d][i].key /\ mail'[d][i].key <= typed
                      /\ \A k \in 1 .. Len(keys) : mail'[d][i].key < keys[k]
                      /\ \A j \in Box(d)' : i < j /\ mail'[d][j].key # 0 => mail'[d][i].key < mail'[d][j].key
      BY <1>1, <3>2, <3>5, <3>8 DEF KeysOrdered
    <3>9. \A k \in 1 .. Len(keys) : keys[k] <= typed /\ \A l \in 1 .. Len(keys) : k < l => keys[k] < keys[l]
      BY <1>1 DEF KeysOrdered
    <3> QED BY <1>4, <3>6, <3>7, <3>8, <3>9 DEF KeysOrdered
  <2> QED BY <2>1, <2>2
<1> QED BY <1>12, <1>13, <1>14 DEF CallsOrdered

\* SYS_READ without the driver: the oldest key of the controller, above every key in an answer
LEMMA ReadDirectStep ==
  ASSUME RpcInv, TypeInv', NEW c \in Clients, ReadDirect(c)
  PROVE  Linked' /\ CallsOrdered' /\ KeysOrdered'
<1>1. TypeInv /\ KeysOrdered /\ c \in Procs
  BY Apart DEF RpcInv
<1>2. /\ UNCHANGED <<mail, serving, call, calls, typed, last>>
      /\ ~Resolves("kbd")
      /\ \/ keys' = keys /\ read' = read
         \/ keys # <<>> /\ keys' = Tail(keys) /\ read' = [read EXCEPT ![c] = Head(keys)]
  <2>1. keys # <<>> => Head(keys) \in Keys
    BY <1>1, KeysType
  <2>2. 0 \notin Keys
    BY DEF Keys
  <2> QED BY <2>1, <2>2 DEF ReadDirect, servers, Give
<1>3. \A d \in Clients : \A i \in Box(d) : mail[d][i].key = 0
  BY <1>2 DEF RpcInv, DriverInv, Resolves
<1>4. Linked' /\ CallsOrdered'
  <2>1. \A d \in Clients : Fresh(d)' = Fresh(d) /\ Fresh(d) \in Nat
    BY <1>1, <1>2, Numbers DEF Fresh
  <2>2. \A s \in Servers : serving'[s] = serving[s]
    BY <1>2
  <2> QED BY <1>2, <2>1, <2>2, MailStep
<1>5. CASE keys' = keys /\ read' = read
  <2>1. \A d \in Clients : \E e \in {0, 1} : \A i \in Box(d)' :
          mail'[d][i].key # 0 => i + e \in Box(d) /\ mail'[d][i] = mail[d][i + e]
    BY <1>1, <1>2, KeySame, Apart
  <2> QED BY <1>2, <1>4, <1>5, <2>1, KeyOrderKept
<1>6. CASE keys # <<>> /\ keys' = Tail(keys) /\ read' = [read EXCEPT ![c] = Head(keys)]
  <2>1. /\ 1 \in 1 .. Len(keys) /\ Len(keys') = Len(keys) - 1 /\ Len(keys) \in Nat /\ Head(keys) = keys[1]
        /\ \A k \in 1 .. Len(keys') : keys'[k] = keys[k + 1] /\ k + 1 \in 1 .. Len(keys)
    BY <1>1, <1>6, KeySeq
  <2>2. /\ \A k \in 1 .. Len(keys') : 1 < k + 1
        /\ \A k, l \in 1 .. Len(keys') : k < l => k + 1 < l + 1
    BY <2>1
  <2>3. read'[c] = keys[1] /\ \A d \in Clients : d # c => read'[d] = read[d]
    BY <1>1, <1>6, <2>1 DEF TypeInv, TypeOK
  <2>4. \A k \in 1 .. Len(keys') : keys'[k] <= typed /\ \A l \in 1 .. Len(keys') : k < l => keys'[k] < keys'[l]
    BY <1>1, <2>1, <2>2 DEF KeysOrdered
  <2>5. \A d \in Clients : read'[d] <= typed /\ \A k \in 1 .. Len(keys') : read'[d] < keys'[k]
    BY <1>1, <2>1, <2>2, <2>3 DEF KeysOrdered
  <2>6. \A d \in Clients : \A i \in Box(d)' : mail'[d][i].key = 0
    BY <1>2, <1>3 DEF Box
  <2> QED BY <1>2, <1>4, <2>4, <2>5, <2>6 DEF KeysOrdered
<1> QED BY <1>2, <1>5, <1>6

LEMMA PressStep ==
  ASSUME RpcInv, TypeInv', Press
  PROVE  Linked' /\ CallsOrdered' /\ KeysOrdered'
<1>1. TypeInv /\ KeysOrdered
  BY DEF RpcInv
<1>2. /\ UNCHANGED <<mail, serving, call, calls, last, read>>
      /\ typed' = typed + 1 /\ keys' = Append(keys, typed + 1)
  BY DEF Press, servers, history, reading
<1>3. Linked' /\ CallsOrdered'
  <2>1. \A d \in Clients : Fresh(d)' = Fresh(d) /\ Fresh(d) \in Nat
    BY <1>1, <1>2, Numbers DEF Fresh
  <2>2. \A s \in Servers : serving'[s] = serving[s]
    BY <1>2
  <2> QED BY <1>2, <2>1, <2>2, MailStep
<1>4. /\ typed \in Nat /\ Len(keys) \in Nat /\ \A k \in 1 .. Len(keys) : keys[k] \in Nat
      /\ \A d \in Clients : read[d] \in Nat
      /\ \A d \in Clients : \A i \in Box(d) : mail[d][i].key \in Nat
  BY <1>1, KeySeq
<1>5. Len(keys') = Len(keys) + 1 /\ keys'[Len(keys) + 1] = typed + 1
      /\ \A k \in 1 .. Len(keys) : keys'[k] = keys[k]
  <2>1. keys \in Seq(Keys)
    BY <1>1 DEF TypeInv, TypeOK
  <2> QED BY <1>2, <2>1
<1>6. \A k \in 1 .. Len(keys') : (k \in 1 .. Len(keys) /\ keys'[k] = keys[k]) \/ (k = Len(keys) + 1 /\ keys'[k] = typed + 1)
  BY <1>4, <1>5
<1>7. ASSUME NEW k \in 1 .. Len(keys')
      PROVE  keys'[k] <= typed' /\ \A l \in 1 .. Len(keys') : k < l => keys'[k] < keys'[l]
  <2>1. CASE k \in 1 .. Len(keys) /\ keys'[k] = keys[k]
    <3>1. keys[k] <= typed /\ \A l \in 1 .. Len(keys) : k < l => keys[k] < keys[l]
      BY <1>1, <2>1 DEF KeysOrdered
    <3> QED BY <1>2, <1>4, <1>6, <2>1, <3>1
  <2>2. CASE k = Len(keys) + 1 /\ keys'[k] = typed + 1
    <3>1. \A l \in 1 .. Len(keys') : ~(k < l)
      BY <1>4, <1>5, <2>2
    <3> QED BY <1>2, <1>4, <2>2, <3>1
  <2> QED BY <1>6, <2>1, <2>2
<1>8. ASSUME NEW d \in Clients
      PROVE  /\ read'[d] <= typed' /\ \A k \in 1 .. Len(keys') : read'[d] < keys'[k]
             /\ \A i \in Box(d)' : mail'[d][i].key # 0 =>
                  /\ read'[d] < mail'[d][i].key /\ mail'[d][i].key <= typed'
                  /\ \A k \in 1 .. Len(keys') : mail'[d][i].key < keys'[k]
                  /\ \A j \in Box(d)' : i < j /\ mail'[d][j].key # 0 => mail'[d][i].key < mail'[d][j].key
  <2>1. read[d] <= typed /\ \A k \in 1 .. Len(keys) : read[d] < keys[k]
    BY <1>1 DEF KeysOrdered
  <2>2. read'[d] <= typed' /\ \A k \in 1 .. Len(keys') : read'[d] < keys'[k]
    BY <1>2, <1>4, <1>6, <2>1
  <2>3. ASSUME NEW i \in Box(d)', mail'[d][i].key # 0
        PROVE  /\ read'[d] < mail'[d][i].key /\ mail'[d][i].key <= typed'
               /\ \A k \in 1 .. Len(keys') : mail'[d][i].key < keys'[k]
               /\ \A j \in Box(d)' : i < j /\ mail'[d][j].key # 0 => mail'[d][i].key < mail'[d][j].key
    <3>1. i \in Box(d) /\ mail'[d] = mail[d] /\ Box(d)' = Box(d)
      BY <1>2 DEF Box
    <3>2. /\ read[d] < mail[d][i].key /\ mail[d][i].key <= typed
          /\ \A k \in 1 .. Len(keys) : mail[d][i].key < keys[k]
          /\ \A j \in Box(d) : i < j /\ mail[d][j].key # 0 => mail[d][i].key < mail[d][j].key
      BY <1>1, <2>3, <3>1 DEF KeysOrdered
    <3> QED BY <1>2, <1>4, <1>6, <3>1, <3>2
  <2> QED BY <2>2, <2>3
<1> QED BY <1>3, <1>7, <1>8 DEF KeysOrdered
-----------------------------------------------------------------------------
(* The keyboard driver and its name *)

LEMMA DriverIs == \A s \in Servers : ServiceOf(s) = "kbd" <=> s \in Kbd
BY ServersAssumption DEF ServiceOf, Servers

\* Steps after which every key in a mailbox was there before, and the servers do not go back
LEMMA DriverKept ==
  ASSUME RpcInv, svc'["kbd"] = svc["kbd"],
         \A c \in Clients : \A i \in Box(c)' : mail'[c][i].key = 0 \/ \E j \in Box(c) : mail'[c][i] = mail[c][j],
         \A s \in Servers : serverAt'[s] = serverAt[s] \/ (serverAt'[s] = "loop" /\ s \notin Kbd),
         \A s \in Kbd : s \in alive /\ serverAt[s] = "loop" => s \in alive',
         \A s \in Servers : serving'[s] # NoRequest => serverAt'[s] = "loop"
  PROVE  DriverInv'
<1>1. DriverInv /\ Kbd \subseteq Servers
  BY DEF RpcInv, Servers
<1>2. svc'["kbd"] # 0 => svc'["kbd"] \in Kbd \cap alive' /\ serverAt'[svc'["kbd"]] = "loop"
  BY <1>1 DEF DriverInv
<1>3. ASSUME svc'["kbd"] = 0
      PROVE  /\ \A k \in Kbd : serverAt'[k] = "start"
             /\ \A c \in Clients : \A i \in Box(c)' : mail'[c][i].key = 0
  <2>1. \A k \in Kbd : serverAt'[k] = "start"
    BY <1>1, <1>3 DEF DriverInv
  <2>2. \A c \in Clients : \A i \in Box(c) : mail[c][i].key = 0
    BY <1>1, <1>3 DEF DriverInv
  <2> QED BY <2>1, <2>2
<1> QED BY <1>2, <1>3 DEF DriverInv

LEMMA DriverServer == ASSUME RpcInv, NEW s \in Servers, ServerStep(s) PROVE DriverInv'
<1>1. TypeInv /\ DriverInv /\ s \in Procs /\ Kbd \subseteq Servers
  BY Apart DEF RpcInv, Servers
<1>2. ASSUME mail' = mail
      PROVE  \A c \in Clients : \A i \in Box(c)' : \E j \in Box(c) : mail'[c][i] = mail[c][j]
  BY <1>2 DEF Box
<1>3. CASE Register(s)
  <2>1. /\ s \in alive /\ serverAt[s] = "start" /\ UNCHANGED <<alive, mail, serving>>
        /\ svc' = [svc EXCEPT ![ServiceOf(s)] = s] /\ serverAt' = [serverAt EXCEPT ![s] = "loop"]
    BY <1>3 DEF Register
  <2>2. serverAt'[s] = "loop" /\ \A r \in Servers : r # s => serverAt'[r] = serverAt[r]
    BY <1>1, <2>1 DEF TypeInv, TypeOK
  <2>3. \A r \in Servers : serving'[r] # NoRequest => serverAt'[r] = "loop"
    BY <1>1, <2>1, <2>2 DEF DriverInv
  <2>4. CASE s \in Kbd
    <3>1. svc'["kbd"] = s
      BY <1>1, <2>1, <2>4, DriverIs DEF TypeInv, TypeOK, Names
    <3>2. s # 0
      BY Apart
    <3> QED BY <2>1, <2>2, <2>3, <2>4, <3>1, <3>2 DEF DriverInv
  <2>5. CASE s \notin Kbd
    <3>1. svc'["kbd"] = svc["kbd"]
      BY <1>1, <2>1, <2>5, DriverIs DEF TypeInv, TypeOK, Names
    <3> QED BY <1>1, <1>2, <2>1, <2>2, <2>3, <2>5, <3>1, DriverKept
  <2> QED BY <2>4, <2>5
<1>4. CASE RegisterRefused(s)
  <2>1. UNCHANGED <<svc, mail, serverAt, serving>> /\ alive' = alive \ {s} /\ serverAt[s] = "start"
    BY <1>4 DEF RegisterRefused
  <2>2. \A r \in Servers : serving'[r] # NoRequest => serverAt'[r] = "loop"
    BY <1>1, <2>1 DEF DriverInv
  <2> QED BY <1>2, <2>1, <2>2, DriverKept
<1>5. CASE Take(s)
  <2>1. /\ UNCHANGED <<svc, alive, serverAt>> /\ serverAt[s] = "loop" /\ mail[s] # <<>>
        /\ mail' = [mail EXCEPT ![s] = Tail(mail[s])] /\ serving' = [serving EXCEPT ![s] = Head(mail[s])]
    BY <1>5 DEF Take
  <2>2. \A c \in Clients : mail'[c] = mail[c]
    BY <1>1, <2>1, MailPop, Apart
  <2>3. \A c \in Clients : \A i \in Box(c)' : \E j \in Box(c) : mail'[c][i] = mail[c][j]
    BY <2>2 DEF Box
  <2>4. \A r \in Servers : serving'[r] # NoRequest => serverAt'[r] = "loop"
    BY <1>1, <2>1 DEF DriverInv, TypeInv, TypeOK
  <2> QED BY <2>1, <2>3, <2>4, DriverKept
<1>6. CASE Reply(s)
  <2>1. PICK c, m :
        /\ c = serving[s].from /\ m = Message(s, serving[s].type, serving[s].about, KeyFor(s))
        /\ serving[s] # NoRequest /\ mail' = Put(mail, c, m) /\ UNCHANGED <<svc, alive, serverAt>>
        /\ serving' = [serving EXCEPT ![s] = NoRequest]
    BY <1>6 DEF Reply
  <2>2. m \in Messages /\ c \in Procs /\ m.key = KeyFor(s)
    BY <1>1, <2>1, ReplyType DEF Message
  <2>3. MayGain(c, m) /\ \A q \in Procs : q # c => mail'[q] = mail[q]
    BY <1>1, <2>1, <2>2, MailPut
  <2>4. \A r \in Servers : serving'[r] # NoRequest => serverAt'[r] = "loop"
    BY <1>1, <2>1 DEF DriverInv, TypeInv, TypeOK
  <2>5. CASE s \in Kbd
    <3>1. serverAt[s] = "loop" /\ svc["kbd"] # 0
      BY <1>1, <2>1, <2>5 DEF DriverInv
    <3> QED BY <1>1, <2>1, <2>4, <3>1 DEF DriverInv
  <2>6. CASE s \notin Kbd
    <3>1. m.key = 0
      BY <2>2, <2>6 DEF KeyFor
    <3>2. \A p \in Procs : \A i \in Box(p)' : mail'[p][i].key = 0 \/ \E j \in Box(p) : mail'[p][i] = mail[p][j]
      BY <1>1, <2>2, <2>3, <3>1, OldSame, OldGaining
    <3> QED BY <2>1, <2>4, <3>2, DriverKept, Apart
  <2> QED BY <2>5, <2>6
<1>7. CASE Exit(s)
  <2>1. /\ UNCHANGED <<svc, mail, serverAt>> /\ alive' = alive \ {s} /\ s \in Mortal
        /\ serving' = [serving EXCEPT ![s] = NoRequest]
    BY <1>7 DEF Exit
  <2>2. s \notin Kbd
    BY <2>1, DriverStays
  <2>3. \A r \in Servers : serving'[r] # NoRequest => serverAt'[r] = "loop"
    BY <1>1, <2>1 DEF DriverInv, TypeInv, TypeOK
  <2> QED BY <1>2, <2>1, <2>2, <2>3, DriverKept
<1> QED BY <1>3, <1>4, <1>5, <1>6, <1>7 DEF ServerStep

\* Clients leave the servers alone, put no key into a mailbox, and clear only a dead entry
LEMMA DriverClient ==
  ASSUME RpcInv, NEW c \in Clients,
         ClientStart(c) \/ ClientStep(c) \/ QueryRetry(c) \/ ReadService(c) \/ ReadDirect(c)
  PROVE  DriverInv'
<1>1. TypeInv /\ DriverInv /\ c \in Procs
  BY Apart DEF RpcInv
<1>2. UNCHANGED <<serverAt, serving, alive>>
  BY DEF ClientStart, Call, ClientStep, Query, Send, Accept, Fails, QueryGiveUp, SendRefused, Reject, WaitGiveUp,
         QueryRetry, ReadService, ReadDirect, servers
<1>3. svc'["kbd"] = svc["kbd"]
  <2>1. "kbd" \in Names /\ \A t : NameFor(t) \in Names \ {"kbd"}
    BY DEF Names, NameFor
  <2>2. \A n \in Names \ {"kbd"} : AfterQuery(n)["kbd"] = svc["kbd"]
    BY <1>1, <2>1 DEF AfterQuery, TypeInv, TypeOK
  <2>3. AfterQuery("kbd")["kbd"] = svc["kbd"]
    BY <1>1, <2>1 DEF AfterQuery, Resolves, DriverInv, TypeInv, TypeOK
  <2>4. svc' = svc \/ svc' = AfterQuery(NameFor(call[c].type)) \/ svc' = AfterQuery("kbd")
    BY DEF ClientStart, Call, ClientStep, Query, Send, Accept, Fails, QueryGiveUp, SendRefused, Reject, WaitGiveUp,
           QueryRetry, ReadService, ReadDirect
  <2> QED BY <2>1, <2>2, <2>3, <2>4
<1>4. \A d \in Clients : mail'[d] = mail[d] \/ Loses(d)
  <2>1. CASE ReadService(c)
    <3>1. PICK asked \in Mailboxes :
            /\ asked = Put(mail, svc["kbd"], Message(c, "KBD_GET", NoAbout, 0))
            /\ svc["kbd"] \in Servers
            /\ \A p \in Procs : Len(asked[p]) <= Q
            /\ \/ mail' = asked
               \/ mail' = [asked EXCEPT ![c] = Tail(asked[c])] /\ asked[c] # <<>>
      BY <1>1, <2>1, ReadServiceSteps
    <3>2. \A d \in Clients : asked[d] = mail[d]
      BY <1>1, <3>1, PutSpec, TypeFacts, KbdGetType, Apart
    <3>3. CASE mail' = asked
      BY <3>2, <3>3
    <3>4. CASE mail' = [asked EXCEPT ![c] = Tail(asked[c])] /\ asked[c] # <<>>
      <4>1. asked \in Mailboxes /\ \A p \in Procs : Len(asked[p]) <= Q
        BY <3>1
      <4>2. /\ \A q \in Procs : q # c => mail'[q] = asked[q]
            /\ Len(mail'[c]) = Len(asked[c]) - 1 /\ Len(asked[c]) >= 1
            /\ \A i \in 1 .. Len(mail'[c]) : mail'[c][i] = asked[c][i + 1]
        <5>1. PICK t : t = mail'
          OBVIOUS
        <5>2. Fits(asked) /\ c \in Procs /\ asked[c] # <<>> /\ t = [asked EXCEPT ![c] = Tail(asked[c])]
          BY <1>1, <3>4, <4>1, <5>1 DEF Fits
        <5>3. Popped(asked, c, t)
          BY <5>2, PopOf
        <5> QED BY <5>1, <5>3 DEF Popped
      <4> QED BY <3>2, <4>2, Apart DEF Loses
    <3> QED BY <3>1, <3>3, <3>4
  <2>2. CASE Accept(c) \/ Reject(c)
    <3>1. mail[c] # <<>> /\ mail' = [mail EXCEPT ![c] = Tail(mail[c])]
      BY <2>2 DEF Accept, Reject
    <3> QED BY <1>1, <3>1, MailPop, Apart
  <2>3. CASE Send(c)
    <3>1. /\ mail' = Put(mail, call[c].svc, Message(c, call[c].type, About(c, call[c]), 0)) /\ call[c].at = "send"
          /\ call[c].svc \in Servers
      BY <1>1, <2>3, TypeFacts DEF Send
    <3>2. \A q \in Procs : q # call[c].svc => mail'[q] = mail[q]
      BY <1>1, <3>1, MailPut, RequestType, Apart
    <3> QED BY <3>1, <3>2, Apart
  <2>4. CASE ~(ReadService(c) \/ Accept(c) \/ Reject(c) \/ Send(c))
    <3>1. mail' = mail
      BY <2>4 DEF ClientStart, Call, ClientStep, Query, Fails, QueryGiveUp, SendRefused, WaitGiveUp,
                  QueryRetry, ReadDirect
    <3> QED BY <3>1
  <2> QED BY <2>1, <2>2, <2>3, <2>4
<1>5. \A d \in Clients : \A i \in Box(d)' : \E j \in Box(d) : mail'[d][i] = mail[d][j]
  BY <1>1, <1>4, OldSame, OldLosing, Apart
<1>6. \A s \in Servers : serving'[s] # NoRequest => serverAt'[s] = "loop"
  BY <1>1, <1>2 DEF DriverInv
<1> QED BY <1>2, <1>3, <1>5, <1>6, DriverKept
-----------------------------------------------------------------------------
(* The invariant of the whole, and what it shows *)

LEMMA RpcInit == Init => RpcInv
<1> SUFFICES ASSUME Init PROVE RpcInv
  OBVIOUS
<1>1. TypeInv
  BY TypeInit
<1>2. /\ \A p \in Procs : mail[p] = <<>>
      /\ \A s \in Servers : serving[s] = NoRequest /\ serverAt[s] = "start"
      /\ \A c \in Clients : call[c] = NoCall /\ read[c] = 0 /\ \A s \in Servers : last[c][s] = 0
      /\ keys = <<>> /\ typed = 0 /\ calls = 0 /\ svc["kbd"] = 0
  BY DEF Init, Names
<1>3. (\A p \in Procs : Box(p) = {}) /\ 1 .. Len(keys) = {}
  BY <1>2 DEF Box
<1>4. \A c \in Clients : Box(c) = {}
  BY <1>3, Apart
<1>5. \A s \in Servers : Box(s) = {} /\ ~\E c : Serves(s, c)
  BY <1>2, <1>3, Apart DEF Serves
<1>6. \A c \in Clients, s \in Servers : last[c][s] < Fresh(c)
  BY <1>2 DEF Fresh, NoCall
<1>7. Linked
  BY <1>2, <1>4, <1>5 DEF Linked
<1>8. CallsOrdered
  BY <1>4, <1>5, <1>6 DEF CallsOrdered, Ordered
<1>9. KeysOrdered
  BY <1>2, <1>3, <1>4 DEF KeysOrdered
<1>10. DriverInv
  BY <1>2, <1>4 DEF DriverInv, Servers
<1> QED BY <1>1, <1>7, <1>8, <1>9, <1>10 DEF RpcInv

LEMMA RpcStep == ASSUME RpcInv, [Next]_vars PROVE RpcInv'
<1>1. TypeInv'
  BY TypeStep DEF RpcInv
<1>2. ASSUME NEW s \in Servers, ServerStep(s) PROVE RpcInv'
  <2>1. Linked' /\ CallsOrdered' /\ KeysOrdered'
    BY <1>1, <1>2, QuietServer, TakeStep, ReplyStep DEF ServerStep
  <2> QED BY <1>1, <1>2, <2>1, DriverServer DEF RpcInv
<1>3. ASSUME NEW c \in Clients,
             ClientStart(c) \/ ClientStep(c) \/ QueryRetry(c) \/ ReadService(c) \/ ReadDirect(c)
      PROVE  RpcInv'
  <2>1. Linked' /\ CallsOrdered' /\ KeysOrdered'
    BY <1>1, <1>3, QuietClient, SendStep, AnswerStep, ReadServiceStep, ReadDirectStep DEF ClientStep, Fails
  <2> QED BY <1>1, <1>3, <2>1, DriverClient DEF RpcInv
<1>4. CASE Press
  <2>1. Linked' /\ CallsOrdered' /\ KeysOrdered'
    BY <1>1, <1>4, PressStep
  <2>2. DriverInv'
    BY <1>4 DEF Press, servers, RpcInv, DriverInv, Box
  <2> QED BY <1>1, <2>1, <2>2 DEF RpcInv
<1>5. CASE UNCHANGED vars
  BY <1>5 DEF vars, RpcInv, TypeInv, TypeOK, CallsOK, Linked, CallsOrdered, Ordered, Fresh, Serves, KeysOrdered,
              DriverInv, Box
<1> QED BY <1>2, <1>3, <1>4, <1>5 DEF Next

LEMMA RpcInvariant == Spec => []RpcInv
BY RpcInit, RpcStep, PTL DEF Spec

\* What spud_auth_rpc and spud_fsd_rpc accept is the answer of the server they asked to a request of
\* the same type that the same client sent to that server
LEMMA AcceptKind ==
  ASSUME RpcInv, NEW c \in Clients, Accept(c)
  PROVE  /\ 1 \in Box(c) /\ Head(mail[c]) = mail[c][1] /\ IsFrom(mail[c][1], call[c].svc)
         /\ call[c].svc \in Servers
         /\ Head(mail[c]).about \in [n : Calls, by : {c}, to : {call[c].svc}, type : {call[c].type}]
<1>1. TypeInv /\ Linked /\ c \in Procs
  BY Apart DEF RpcInv
<1>2. mail[c] # <<>> /\ call[c].at = "wait" /\ Answers(c, Head(mail[c])) /\ mail' = [mail EXCEPT ![c] = Tail(mail[c])]
  BY DEF Accept
<1>3. Head(mail[c]) = mail[c][1] /\ 1 \in Box(c)
  BY <1>1, <1>2, MailPop
<1>4. call[c].type \in CallTypes /\ call[c].svc \in Servers
  BY <1>1, <1>2, TypeFacts
<1>5. IsFrom(mail[c][1], call[c].svc)
  BY <1>2, <1>3, <1>4 DEF Answers, IsFrom, Callish, CallTypes
<1>6. AnswerTo(mail[c][1], c)
  BY <1>1, <1>3 DEF Linked
<1> QED BY <1>2, <1>3, <1>4, <1>5, <1>6 DEF AnswerTo, IsFrom, Answers

-----------------------------------------------------------------------------
(* Replies left over: they are of clients one of whose calls has failed *)

\* What a request of client c that has no reply taken yet, or a reply to it, is about
Pending(c, a) ==
  \/ \E i \in Box(c) : Callish(mail[c][i]) /\ mail[c][i].about = a
  \/ \E s \in Servers : Serves(s, c) /\ serving[s].about = a
  \/ \E s \in Servers : \E i \in Box(s) : IsFrom(mail[s][i], c) /\ mail[s][i].about = a

\* As long as no call of a client has failed, what is pending is the call it waits in
Flight == \A c \in Clients \ failed : \A a : Pending(c, a) => call[c].at = "wait" /\ a = About(c, call[c])

\* Messages that were there before, requests that go from a mailbox to a server and from there into
\* a reply: nothing new is pending
LEMMA PendingKept ==
  ASSUME NEW c \in Clients,
         \A i \in Box(c)' : Callish(mail'[c][i]) =>
           \/ \E j \in Box(c) : mail'[c][i] = mail[c][j]
           \/ \E s \in Servers : Serves(s, c) /\ serving[s].about = mail'[c][i].about,
         \A s \in Servers : Serves(s, c)' =>
           serving'[s] = serving[s] \/ \E j \in Box(s) : serving'[s] = mail[s][j],
         \A s \in Servers : \A i \in Box(s)' : IsFrom(mail'[s][i], c) => \E j \in Box(s) : mail'[s][i] = mail[s][j]
  PROVE  \A a : Pending(c, a)' => Pending(c, a)
<1> SUFFICES ASSUME NEW a, Pending(c, a)' PROVE Pending(c, a)
  OBVIOUS
<1>1. ASSUME NEW i \in Box(c)', Callish(mail'[c][i]), mail'[c][i].about = a PROVE Pending(c, a)
  BY <1>1 DEF Pending
<1>2. ASSUME NEW s \in Servers, Serves(s, c)', serving'[s].about = a PROVE Pending(c, a)
  BY <1>2 DEF Pending, Serves
<1>3. ASSUME NEW s \in Servers, NEW i \in Box(s)', IsFrom(mail'[s][i], c), mail'[s][i].about = a PROVE Pending(c, a)
  BY <1>3 DEF Pending
<1> QED BY <1>1, <1>2, <1>3 DEF Pending

LEMMA FlightKept ==
  ASSUME Flight, failed \subseteq failed', \A c \in Clients : \A a : Pending(c, a)' => Pending(c, a),
         \A c \in Clients \ failed' : call'[c] = call[c] \/ call[c].at # "wait"
  PROVE  Flight'
BY DEF Flight, About

\* Steps that bring no message: the mailboxes only lose, the servers only give up requests
LEMMA PendingLost ==
  ASSUME TypeInv, \A p \in Procs : mail'[p] = mail[p] \/ Loses(p),
         \A s \in Servers : serving'[s] = serving[s] \/ serving'[s] = NoRequest
  PROVE  \A c \in Clients : \A a : Pending(c, a)' => Pending(c, a)
<1>1. \A p \in Procs : \A i \in Box(p)' : \E j \in Box(p) : mail'[p][i] = mail[p][j]
  BY OldSame, OldLosing
<1>2. \A s \in Servers, c \in Clients : Serves(s, c)' => serving'[s] = serving[s]
  BY DEF Serves
<1> QED BY <1>1, <1>2, PendingKept, Apart

LEMMA FlightServer == ASSUME RpcInv, Flight, NEW s \in Servers, ServerStep(s) PROVE Flight'
<1>1. TypeInv /\ Linked /\ s \in Procs
  BY Apart DEF RpcInv
<1>2. UNCHANGED <<call, failed>>
  BY DEF ServerStep, Register, RegisterRefused, Take, Reply, Exit, history
<1>3. CASE Register(s) \/ RegisterRefused(s) \/ Exit(s)
  <2>1. mail' = mail /\ \A r \in Servers : serving'[r] = serving[r] \/ serving'[r] = NoRequest
    BY <1>1, <1>3 DEF Register, RegisterRefused, Exit, TypeInv, TypeOK
  <2> QED BY <1>1, <1>2, <2>1, PendingLost, FlightKept
<1>4. CASE Take(s)
  <2>1. mail[s] # <<>> /\ mail' = [mail EXCEPT ![s] = Tail(mail[s])] /\ serving' = [serving EXCEPT ![s] = Head(mail[s])]
    BY <1>4 DEF Take
  <2>2. Loses(s) /\ (\A q \in Procs : q # s => mail'[q] = mail[q]) /\ Head(mail[s]) = mail[s][1] /\ 1 \in Box(s)
    BY <1>1, <2>1, MailPop
  <2>3. \A p \in Procs : \A i \in Box(p)' : \E j \in Box(p) : mail'[p][i] = mail[p][j]
    BY <1>1, <2>2, OldSame, OldLosing
  <2>4. \A r \in Servers : serving'[r] = serving[r] \/ \E j \in Box(r) : serving'[r] = mail[r][j]
    BY <1>1, <2>1, <2>2 DEF TypeInv, TypeOK
  <2> QED BY <1>1, <1>2, <2>3, <2>4, PendingKept, FlightKept, Apart
<1>5. CASE Reply(s)
  <2>1. PICK d, m :
        /\ d = serving[s].from /\ m = Message(s, serving[s].type, serving[s].about, KeyFor(s))
        /\ serving[s] # NoRequest /\ mail' = Put(mail, d, m) /\ serving' = [serving EXCEPT ![s] = NoRequest]
    BY <1>5 DEF Reply
  <2>2. d \in Clients /\ d \in Procs /\ m \in Messages
    BY <1>1, <2>1, ReplyType, Apart DEF Linked, RequestTo
  <2>3. MayGain(d, m) /\ \A q \in Procs : q # d => mail'[q] = mail[q]
    BY <1>1, <2>1, <2>2, MailPut
  <2>4. Callish(m) => Serves(s, d) /\ serving[s].about = m.about
    BY <2>1 DEF Callish, Message, Serves, IsFrom
  <2>5. \A r \in Servers : serving'[r] = serving[r] \/ serving'[r] = NoRequest
    BY <1>1, <2>1 DEF TypeInv, TypeOK
  <2>6. \A p \in Procs : \A i \in Box(p)' :
          (\E j \in Box(p) : mail'[p][i] = mail[p][j]) \/ (p = d /\ mail'[p][i] = m)
    BY <1>1, <2>2, <2>3, OldSame, OldGaining
  <2>7. ASSUME NEW c \in Clients
        PROVE  \A a : Pending(c, a)' => Pending(c, a)
    <3>1. \A i \in Box(c)' : Callish(mail'[c][i]) =>
            \/ \E j \in Box(c) : mail'[c][i] = mail[c][j]
            \/ \E r \in Servers : Serves(r, c) /\ serving[r].about = mail'[c][i].about
      BY <2>4, <2>6, Apart
    <3>2. \A r \in Servers : Serves(r, c)' => serving'[r] = serving[r]
      BY <2>5 DEF Serves
    <3>3. \A r \in Servers : \A i \in Box(r)' : \E j \in Box(r) : mail'[r][i] = mail[r][j]
      BY <2>2, <2>6, Apart
    <3> QED BY <3>1, <3>2, <3>3, PendingKept
  <2> QED BY <1>2, <2>7, FlightKept
<1> QED BY <1>3, <1>4, <1>5 DEF ServerStep

\* A client's request becomes pending when it begins to wait for the answer
LEMMA FlightSend == ASSUME RpcInv, Flight, NEW c \in Clients, Send(c) PROVE Flight'
<1>1. TypeInv /\ Linked /\ c \in Procs
  BY Apart DEF RpcInv
<1>2. PICK s, m :
      /\ s = call[c].svc /\ m = Message(c, call[c].type, About(c, call[c]), 0)
      /\ call[c].at = "send" /\ mail' = Put(mail, s, m) /\ call' = [call EXCEPT ![c].at = "wait"]
      /\ UNCHANGED <<serving, failed>>
  BY DEF Send, servers, history
<1>3. s \in Servers /\ s \in Procs /\ m \in Messages /\ m.from = c /\ m.about = About(c, call[c])
  BY <1>1, <1>2, TypeFacts, RequestType, Apart DEF Message
<1>4. MayGain(s, m) /\ \A q \in Procs : q # s => mail'[q] = mail[q]
  BY <1>1, <1>2, <1>3, MailPut
<1>5. \A p \in Procs : \A i \in Box(p)' :
        (\E j \in Box(p) : mail'[p][i] = mail[p][j]) \/ (p = s /\ mail'[p][i] = m)
  BY <1>1, <1>3, <1>4, OldSame, OldGaining
<1>6. call[c] \in CallSet /\ call'[c] = [call[c] EXCEPT !.at = "wait"] /\ \A d \in Clients : d # c => call'[d] = call[d]
  BY <1>1, <1>2 DEF TypeInv, CallsOK
<1>7. call'[c].at = "wait" /\ About(c, call'[c]) = About(c, call[c])
  BY <1>6 DEF About, CallSet
<1>8. ASSUME NEW d \in Clients, d # c PROVE \A a : Pending(d, a)' => Pending(d, a)
  <2>1. \A i \in Box(d)' : \E j \in Box(d) : mail'[d][i] = mail[d][j]
    BY <1>3, <1>5, Apart
  <2>2. \A r \in Servers : \A i \in Box(r)' : IsFrom(mail'[r][i], d) => \E j \in Box(r) : mail'[r][i] = mail[r][j]
    BY <1>3, <1>5, <1>8, Apart DEF IsFrom
  <2> QED BY <1>2, <2>1, <2>2, PendingKept
<1>9. ASSUME c \notin failed, NEW a, Pending(c, a)' PROVE a = About(c, call[c])
  <2>1. \A b : ~Pending(c, b)
    BY <1>2, <1>9 DEF Flight
  <2>2. ASSUME NEW i \in Box(c)', Callish(mail'[c][i]), mail'[c][i].about = a PROVE FALSE
    <3>1. \E j \in Box(c) : mail'[c][i] = mail[c][j]
      BY <1>1, <1>3, <1>5, Apart
    <3> QED BY <2>1, <2>2, <3>1 DEF Pending
  <2>3. ASSUME NEW r \in Servers, Serves(r, c)', serving'[r].about = a PROVE FALSE
    BY <1>2, <2>1, <2>3 DEF Pending, Serves
  <2>4. ASSUME NEW r \in Servers, NEW i \in Box(r)', IsFrom(mail'[r][i], c), mail'[r][i].about = a
        PROVE  a = About(c, call[c])
    <3>1. ~\E j \in Box(r) : mail'[r][i] = mail[r][j]
      BY <2>1, <2>4 DEF Pending
    <3>2. mail'[r][i] = m
      BY <1>5, <3>1, Apart
    <3> QED BY <1>3, <2>4, <3>2
  <2> QED BY <1>9, <2>2, <2>3, <2>4 DEF Pending
<1>10. ASSUME NEW d \in Clients \ failed', NEW a, Pending(d, a)'
       PROVE  call'[d].at = "wait" /\ a = About(d, call'[d])
  <2>1. d \in Clients \ failed
    BY <1>2
  <2>2. CASE d = c
    BY <1>7, <1>9, <1>10, <2>1, <2>2
  <2>3. CASE d # c
    BY <1>6, <1>8, <1>10, <2>1, <2>3 DEF Flight
  <2> QED BY <2>2, <2>3
<1> QED BY <1>10 DEF Flight

\* The answer taken was the only message pending: the answers of a server rise, and none is above
\* the call the client waits in
LEMMA FlightAccept == ASSUME RpcInv, RpcInv', Flight, NEW c \in Clients, Accept(c) PROVE Flight'
<1>1. TypeInv /\ Linked /\ c \in Procs
  BY Apart DEF RpcInv
<1>2. /\ mail[c] # <<>> /\ call[c].at = "wait" /\ mail' = [mail EXCEPT ![c] = Tail(mail[c])] /\ Return(c)
      /\ UNCHANGED <<serving, failed>>
      /\ last' = [last EXCEPT ![c][Head(mail[c]).from] = Head(mail[c]).about.n]
  BY DEF Accept, servers
<1>3. /\ 1 \in Box(c) /\ Head(mail[c]) = mail[c][1] /\ IsFrom(mail[c][1], call[c].svc) /\ call[c].svc \in Servers
  BY AcceptKind
<1>4. Loses(c) /\ \A q \in Procs : q # c => mail'[q] = mail[q]
  BY <1>1, <1>2, MailPop
<1>5. \A d \in Clients : \A a : Pending(d, a)' => Pending(d, a)
  BY <1>1, <1>2, <1>4, PendingLost
<1>6. \A d \in Clients : d # c => call'[d] = call[d]
  BY <1>1, <1>2 DEF Return, TypeInv, CallsOK
<1> PICK s \in Servers : s = call[c].svc
  BY <1>3
<1>7. last'[c][s] = N(mail[c][1])
  BY <1>1, <1>2, <1>3 DEF IsFrom, N, TypeInv, TypeOK
<1>8. ASSUME c \notin failed, NEW a, Pending(c, a)' PROVE FALSE
  <2>1. a = About(c, call[c]) /\ mail[c][1].about = About(c, call[c])
    <3>1. Pending(c, mail[c][1].about)
      BY <1>3 DEF Pending, IsFrom
    <3> QED BY <1>5, <1>8, <3>1 DEF Flight
  <2>2. a.n = last'[c][s] /\ a.to = s
    BY <1>7, <2>1 DEF About, N
  <2>3. Ordered(c, s)' /\ Linked' /\ last'[c][s] \in Nat
    BY <1>3, Bounds DEF RpcInv, CallsOrdered, TypeInv, TypeOK
  <2>4. ASSUME NEW i \in Box(c)', Callish(mail'[c][i]), mail'[c][i].about = a PROVE FALSE
    <3>1. AnswerTo(mail'[c][i], c)
      BY <2>3, <2>4 DEF Linked
    <3>2. IsFrom(mail'[c][i], s)
      BY <2>2, <2>4, <3>1 DEF AnswerTo, IsFrom
    <3> QED BY <2>2, <2>3, <2>4, <3>2 DEF Ordered, N
  <2>5. ASSUME NEW r \in Servers, Serves(r, c)', serving'[r].about = a PROVE FALSE
    <3>1. RequestTo(serving'[r], r) /\ Callish(serving'[r])
      BY <2>3, <2>5 DEF Linked, Serves, IsFrom
    <3>2. r = s
      BY <2>2, <2>5, <3>1 DEF RequestTo
    <3> QED BY <2>2, <2>3, <2>5, <3>2 DEF Ordered, N
  <2>6. ASSUME NEW r \in Servers, NEW i \in Box(r)', IsFrom(mail'[r][i], c), mail'[r][i].about = a PROVE FALSE
    <3>1. RequestTo(mail'[r][i], r) /\ Callish(mail'[r][i])
      BY <2>3, <2>6 DEF Linked, IsFrom
    <3>2. r = s
      BY <2>2, <2>6, <3>1 DEF RequestTo
    <3> QED BY <2>2, <2>3, <2>6, <3>2 DEF Ordered, N
  <2> QED BY <1>8, <2>4, <2>5, <2>6 DEF Pending
<1> QED BY <1>2, <1>5, <1>6, <1>8 DEF Flight

LEMMA FlightClient ==
  ASSUME RpcInv, RpcInv', Flight, NEW c \in Clients,
         ClientStart(c) \/ ClientStep(c) \/ QueryRetry(c) \/ ReadService(c) \/ ReadDirect(c)
  PROVE  Flight'
<1>1. TypeInv /\ Linked /\ c \in Procs
  BY Apart DEF RpcInv
<1>2. CASE Send(c)
  BY <1>2, FlightSend
<1>3. CASE Accept(c)
  BY <1>3, FlightAccept
<1>4. CASE Reject(c)
  <2>1. /\ mail[c] # <<>> /\ mail' = [mail EXCEPT ![c] = Tail(mail[c])] /\ serving' = serving
        /\ failed' = failed \cup {c} /\ call' = [call EXCEPT ![c] = NoCall]
    BY <1>4 DEF Reject, Fail, Return, servers
  <2>2. \A p \in Procs : mail'[p] = mail[p] \/ Loses(p)
    BY <1>1, <2>1, MailPop
  <2>3. \A d \in Clients : \A a : Pending(d, a)' => Pending(d, a)
    BY <1>1, <2>1, <2>2, PendingLost
  <2>4. \A d \in Clients \ failed' : call'[d] = call[d]
    BY <1>1, <2>1 DEF TypeInv, CallsOK
  <2> QED BY <2>1, <2>3, <2>4, FlightKept
<1>5. CASE QueryGiveUp(c) \/ SendRefused(c) \/ WaitGiveUp(c)
  <2>1. mail' = mail /\ serving' = serving /\ failed' = failed \cup {c} /\ call' = [call EXCEPT ![c] = NoCall]
    BY <1>5 DEF QueryGiveUp, SendRefused, WaitGiveUp, Fail, Return, servers
  <2>2. \A d \in Clients : \A a : Pending(d, a)' => Pending(d, a)
    BY <1>1, <2>1, PendingLost
  <2>3. \A d \in Clients \ failed' : call'[d] = call[d]
    BY <1>1, <2>1 DEF TypeInv, CallsOK
  <2> QED BY <2>1, <2>2, <2>3, FlightKept
<1>6. CASE ClientStart(c) \/ Query(c) \/ QueryRetry(c) \/ ReadDirect(c)
  <2>1. mail' = mail /\ serving' = serving /\ failed' = failed
    BY <1>6 DEF ClientStart, Call, Query, QueryRetry, ReadDirect, servers, history
  <2>2. \A d \in Clients : \A a : Pending(d, a)' => Pending(d, a)
    BY <1>1, <2>1, PendingLost
  <2>3. \A d \in Clients : call'[d] = call[d] \/ call[d].at # "wait"
    BY <1>1, <1>6 DEF ClientStart, Call, Query, QueryRetry, ReadDirect, TypeInv, CallsOK
  <2> QED BY <2>1, <2>2, <2>3, FlightKept
<1>7. CASE ReadService(c)
  <2>1. UNCHANGED <<serving, call, failed>>
    BY <1>7 DEF ReadService, servers
  <2>2. PICK s, m : s = svc["kbd"] /\ m = Message(c, "KBD_GET", NoAbout, 0)
    OBVIOUS
  <2>3. PICK asked \in Mailboxes :
          /\ asked = Put(mail, s, m) /\ s \in Servers /\ asked[c] = mail[c]
          /\ \A p \in Procs : Len(asked[p]) <= Q
          /\ \/ mail' = asked
             \/ mail' = [asked EXCEPT ![c] = Tail(asked[c])] /\ asked[c] # <<>>
    BY <1>1, <1>7, <2>2, ReadServiceSteps
  <2>4. s \in Procs /\ s # c /\ m \in Messages /\ ~Callish(m)
    BY <2>2, <2>3, Apart, KbdGetType DEF Message, Callish
  <2>5. /\ \A q \in Procs : q # s => asked[q] = mail[q]
        /\ \/ asked[s] = mail[s]
           \/ /\ Len(asked[s]) = Len(mail[s]) + 1
              /\ \A i \in 1 .. Len(mail[s]) : asked[s][i] = mail[s][i]
              /\ asked[s][Len(mail[s]) + 1] = m
    BY <1>1, <2>3, <2>4, PutOf, TypeFacts
  <2>6. (\A q \in Procs : q # c => mail'[q] = asked[q]) /\ (mail'[c] = mail[c] \/ Loses(c))
    <3>1. CASE mail' = asked
      BY <2>3, <3>1
    <3>2. CASE mail' = [asked EXCEPT ![c] = Tail(asked[c])] /\ asked[c] # <<>>
      <4>1. PICK t : t = mail'
        OBVIOUS
      <4>2. Fits(asked) /\ c \in Procs /\ asked[c] # <<>> /\ t = [asked EXCEPT ![c] = Tail(asked[c])]
        BY <1>1, <2>3, <3>2, <4>1 DEF Fits
      <4>3. Popped(asked, c, t)
        BY <4>2, PopOf
      <4> QED BY <2>3, <4>1, <4>3 DEF Popped, Loses
    <3> QED BY <2>3, <3>1, <3>2
  <2>7. MayGain(s, m) /\ \A q \in Procs : q # s => mail'[q] = mail[q] \/ Loses(q)
    BY <1>1, <2>4, <2>5, <2>6 DEF MayGain
  <2>8. \A p \in Procs : \A i \in Box(p)' : (\E j \in Box(p) : mail'[p][i] = mail[p][j]) \/ mail'[p][i] = m
    BY <1>1, <2>4, <2>7, OldSame, OldLosing, OldGaining
  <2>9. ASSUME NEW d \in Clients PROVE \A a : Pending(d, a)' => Pending(d, a)
    <3>1. \A i \in Box(d)' : Callish(mail'[d][i]) => \E j \in Box(d) : mail'[d][i] = mail[d][j]
      BY <2>4, <2>8, Apart
    <3>2. \A r \in Servers : \A i \in Box(r)' : IsFrom(mail'[r][i], d) => \E j \in Box(r) : mail'[r][i] = mail[r][j]
      BY <2>4, <2>8, Apart DEF IsFrom
    <3> QED BY <2>1, <3>1, <3>2, PendingKept
  <2> QED BY <2>1, <2>9, FlightKept
<1> QED BY <1>2, <1>3, <1>4, <1>5, <1>6, <1>7 DEF ClientStep, Fails

LEMMA FlightInit == Init => Flight
<1> SUFFICES ASSUME Init PROVE Flight
  OBVIOUS
<1>1. /\ \A p \in Procs : mail[p] = <<>>
      /\ \A s \in Servers : serving[s] = NoRequest
  BY DEF Init
<1>2. \A p \in Procs : Box(p) = {}
  BY <1>1 DEF Box
<1> QED BY <1>1, <1>2, Apart DEF Flight, Pending, Serves

LEMMA FlightStep == ASSUME RpcInv, RpcInv', Flight, [Next]_vars PROVE Flight'
<1>1. ASSUME mail' = mail, UNCHANGED <<serving, call, failed>> PROVE Flight'
  BY <1>1 DEF Flight, Pending, Serves, Box
<1>2. CASE Press
  BY <1>1, <1>2 DEF Press, servers, history
<1>3. CASE UNCHANGED vars
  BY <1>1, <1>3 DEF vars
<1> QED BY <1>2, <1>3, FlightServer, FlightClient DEF Next

LEMMA FlightInvariant == Spec => []Flight
<1>1. RpcInv /\ Flight /\ [Next]_vars => Flight'
  BY RpcStep, FlightStep
<1> QED BY <1>1, FlightInit, RpcInvariant, PTL DEF Spec

\* Types: calls in progress, requests and answers have the shape the library gives them, and
\* ipc_send and ipc_reply never fill a mailbox beyond IPC_QUEUE_MAX
THEOREM RpcTypes == Spec => []TypeOK
<1>1. RpcInv => TypeOK
  BY DEF RpcInv, TypeInv
<1> QED BY <1>1, RpcInvariant, PTL

\* An answer taken by spud_auth_rpc or spud_fsd_rpc is one of the asked server's to a request of
\* this client of the same type, for any number of clients, servers, calls and mailbox places,
\* although the library compares only the sender and the type
THEOREM AnswersOfOwnKind == Spec => AnswerKind
<1>1. ASSUME RpcInv, [Next]_vars
      PROVE  [\A c \in Clients :
                Accept(c) => Head(mail[c]).about \in
                               [n : Calls, by : {c}, to : {call[c].svc}, type : {call[c].type}]]_vars
  BY <1>1, AcceptKind
<1> QED BY <1>1, RpcInvariant, PTL DEF Spec, AnswerKind

\* Answers taken from one server follow the order of the calls and never repeat, with time-outs,
\* refused answers, lost messages and servers that exit
THEOREM AnswersOrdered == Spec => AnswersInOrder
<1>1. ASSUME RpcInv, NEW c \in Clients, Accept(c)
      PROVE  Head(mail[c]).about.n > last[c][Head(mail[c]).from]
  <2>1. /\ 1 \in Box(c) /\ Head(mail[c]) = mail[c][1] /\ IsFrom(mail[c][1], call[c].svc)
        /\ call[c].svc \in Servers
    BY <1>1, AcceptKind
  <2>2. last[c][call[c].svc] < N(mail[c][1])
    BY <1>1, <2>1 DEF RpcInv, CallsOrdered, Ordered
  <2>3. last[c][call[c].svc] \in Nat /\ N(mail[c][1]) \in Nat
    BY <1>1, <2>1, Numbers, LinkedNumbers DEF RpcInv, IsFrom
  <2> QED BY <2>1, <2>2, <2>3 DEF IsFrom, N
<1>2. ASSUME RpcInv, [Next]_vars
      PROVE  [\A c \in Clients : Accept(c) => Head(mail[c]).about.n > last[c][Head(mail[c]).from]]_vars
  BY <1>1, <1>2
<1> QED BY <1>2, RpcInvariant, PTL DEF Spec, AnswersInOrder

\* What SYS_READ gives a program is a key it has not read, in the order of typing, from before the
\* driver registers to after it, with answers of the driver that came late and wait in the mailbox;
\* or it is the start of a reply to a call of the program's own, one of whose calls has failed
THEOREM KeysReadInOrder == Spec => KeysInOrder
<1>1. ASSUME RpcInv, Flight, NEW c \in Clients, ReadService(c), got'[c] # 0
      PROVE  \/ got'[c] \in read[c] + 1 .. typed
             \/ got'[c] = Stray /\ Head(mail[c]).about.by = c /\ c \in failed
  <2>1. PICK asked :
          /\ asked[c] = mail[c] /\ asked[c] # <<>>
          /\ \/ got'[c] = Stray /\ Callish(Head(mail[c]))
             \/ got'[c] = Head(mail[c]).key /\ Head(mail[c]).key # 0
    BY <1>1, ReadServiceSteps DEF RpcInv
  <2>2. Head(mail[c]) = mail[c][1] /\ 1 \in Box(c)
    <3>1. mail[c] \in Seq(Messages)
      BY <1>1, TypeFacts, Apart DEF RpcInv, Mailboxes
    <3> QED BY <2>1, <3>1 DEF Box
  <2>3. CASE got'[c] = Stray /\ Callish(Head(mail[c]))
    <3>1. Head(mail[c]).about.by = c
      BY <1>1, <2>2, <2>3 DEF RpcInv, Linked, AnswerTo
    <3>2. Pending(c, mail[c][1].about)
      BY <2>2, <2>3 DEF Pending
    <3>3. call[c].at = "idle"
      BY <1>1 DEF ReadService
    <3>4. c \in failed
      BY <3>2, <3>3, <1>1 DEF Flight
    <3> QED BY <2>3, <3>1, <3>4
  <2>4. CASE got'[c] = Head(mail[c]).key /\ Head(mail[c]).key # 0
    <3>1. /\ read[c] < mail[c][1].key /\ mail[c][1].key <= typed
          /\ read[c] \in Nat /\ mail[c][1].key \in Nat /\ typed \in Nat
      BY <1>1, <2>2, <2>4, KeySeq DEF RpcInv, KeysOrdered
    <3> QED BY <2>2, <2>4, <3>1
  <2> QED BY <2>1, <2>3, <2>4
<1>2. ASSUME RpcInv, NEW c \in Clients, ReadDirect(c), got'[c] # 0 PROVE got'[c] \in read[c] + 1 .. typed
  <2>1. CASE keys = <<>>
    BY <1>2, <2>1 DEF ReadDirect, Give, RpcInv, TypeInv, TypeOK
  <2>2. CASE keys # <<>>
    <3>1. got'[c] = Head(keys)
      BY <1>2, <2>2 DEF ReadDirect, Give, RpcInv, TypeInv, TypeOK
    <3>2. 1 \in 1 .. Len(keys) /\ Head(keys) = keys[1] /\ keys[1] \in Nat /\ read[c] \in Nat /\ typed \in Nat
      BY <1>2, <2>2, KeySeq DEF RpcInv
    <3>3. read[c] < keys[1] /\ keys[1] <= typed
      BY <1>2, <3>2 DEF RpcInv, KeysOrdered
    <3> QED BY <3>1, <3>2, <3>3
  <2> QED BY <2>1, <2>2
<1>3. ASSUME RpcInv, Flight, [Next]_vars
      PROVE  [\A c \in Clients :
                (ReadService(c) \/ ReadDirect(c)) /\ got'[c] # 0 =>
                  \/ got'[c] \in read[c] + 1 .. typed
                  \/ got'[c] = Stray /\ Head(mail[c]).about.by = c /\ c \in failed]_vars
  BY <1>1, <1>2, <1>3
<1> QED BY <1>3, RpcInvariant, FlightInvariant, PTL DEF Spec, KeysInOrder
=============================================================================
