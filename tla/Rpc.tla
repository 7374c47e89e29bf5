-------------------------------- MODULE Rpc --------------------------------
(***************************************************************************)
(* Services in user space: the kernel's registry of names (svc.c), the     *)
(* server loop and the clients of the library spud.h, and SYS_READ, which  *)
(* makes the kernel a client of the keyboard driver with the mailbox of    *)
(* the program that reads.  Mailboxes are the queues of MailFifo, which    *)
(* the mailbox table of Ipc implements.                                    *)
(*                                                                         *)
(* Every system call is one step; a program may lose the CPU between any   *)
(* two of them.  Messages carry a sender and a type, nothing else ties a   *)
(* reply to its request.  The field about is history: it names the call a  *)
(* message is about, follows a request into its reply, and no guard reads  *)
(* it.                                                                     *)
(***************************************************************************)
EXTENDS Integers, Sequences, FiniteSets

CONSTANTS
  Clients,          \* programs that call services and read keys
  Auth, Fsd, Kbd,   \* the servers started for each name, in any order
  Mortal,           \* servers that may exit while registered
  Boxless,          \* processes that found the mailbox table full
  Q,                \* IPC_QUEUE_MAX
  SvcMax,           \* SVC_MAX
  Patient,          \* whether the retry budgets outlast every server
  MaxCalls, MaxKeys \* bounds: calls made, keys typed

Servers == Auth \cup Fsd \cup Kbd
Procs == Clients \cup Servers
Names == {"auth", "fsd", "kbd"}
CallTypes == {"AUTH_COUNT", "AUTH_LOGIN", "FS_AUDIT"}
Types == CallTypes \cup {"KBD_GET"}
Calls == 1 .. MaxCalls
Keys == 1 .. MaxKeys

ASSUME ServersAssumption ==
  /\ Auth \cap Fsd = {} /\ Auth \cap Kbd = {} /\ Fsd \cap Kbd = {}
  /\ Clients \cap Servers = {} /\ 0 \notin Procs
\* The keyboard driver never leaves spud_svc_serve once it has its name, and no system call ends
\* another process
ASSUME DriverStays == Kbd \cap Mortal = {}
ASSUME BoundsAssumption == {Q, SvcMax, MaxCalls, MaxKeys} \subseteq Nat /\ Patient \in BOOLEAN

ServiceOf(s) == CASE s \in Auth -> "auth" [] s \in Fsd -> "fsd" [] OTHER -> "kbd"
NameFor(t) == IF t = "FS_AUDIT" THEN "fsd" ELSE "auth"

Message(p, t, a, k) == [from |-> p, type |-> t, about |-> a, key |-> k]
NoRequest == [from |-> 0]

\* A client's place in a call, and the call's number; the histories in messages
NoCall == [at |-> "idle", type |-> "none", svc |-> 0, n |-> 0]
About(c, k) == [n |-> k.n, by |-> c, to |-> k.svc, type |-> k.type]
NoAbout == [n |-> 0]
Abouts == [n : Calls, by : Clients, to : Servers, type : CallTypes] \cup {NoAbout}
Messages == [from : Procs, type : Types, about : Abouts, key : 0 .. MaxKeys]

VARIABLES
  svc,      \* svc_table: the pid registered for each name, 0 if none is active
  alive,    \* processes that have not exited
  mail,     \* the mailbox of each process, oldest message first
  serverAt, \* where a server is: before it registers, in its loop
  serving,  \* the request a server has taken and not yet answered
  call,     \* where each client is in spud_auth_rpc or spud_fsd_rpc
  calls,    \* how many calls were made
  keys,     \* keys waiting in the keyboard controller
  typed,    \* how many keys were typed
  last,     \* history: the call whose answer each client last took from each server
  got,      \* what the last SYS_READ gave each client, 0 if nothing
  read,     \* history: the last key typed that SYS_READ gave each client
  failed    \* history: clients one of whose calls has failed

vars == <<svc, alive, mail, serverAt, serving, call, calls, keys, typed, last, got, read, failed>>
reading == <<got, read>>
history == <<last, reading, failed>>
servers == <<serverAt, serving, alive>>
-----------------------------------------------------------------------------
(***************************************************************************)
(* Mailboxes and the registry.                                             *)
(***************************************************************************)
\* Faulty variant: the check for a full mailbox is missing
PutUnchecked(boxes, p, m) ==
  IF p \in Boxless THEN boxes ELSE [boxes EXCEPT ![p] = Append(boxes[p], m)]

\* ipc_send and ipc_reply: a full mailbox, and a process without one, lose the message
Put(boxes, p, m) ==
  IF p \in Boxless \/ Len(boxes[p]) >= Q THEN boxes
  ELSE [boxes EXCEPT ![p] = Append(boxes[p], m)]

\* svc_query finds a process that runs; an entry of a dead one is cleared on the way
Resolves(n) == svc[n] # 0 /\ svc[n] \in alive
AfterQuery(n) == IF Resolves(n) THEN svc ELSE [svc EXCEPT ![n] = 0]

Active == {n \in Names : svc[n] # 0}
-----------------------------------------------------------------------------
(***************************************************************************)
(* Servers: spud_svc_serve and the main functions around it.  The keyboard *)
(* driver empties the controller before it registers: a key lost there is  *)
(* a key not typed.                                                        *)
(***************************************************************************)
\* svc_register: a name that is there changes hands, a new one needs a free entry
Register(s) ==
  /\ s \in alive /\ serverAt[s] = "start"
  /\ ServiceOf(s) \in Active \/ Cardinality(Active) < SvcMax
  /\ svc' = [svc EXCEPT ![ServiceOf(s)] = s]
  /\ serverAt' = [serverAt EXCEPT ![s] = "loop"]
  /\ UNCHANGED <<alive, mail, serving, call, calls, keys, typed, history>>

\* The registry is full: spud_svc_serve returns and main exits
RegisterRefused(s) ==
  /\ s \in alive /\ serverAt[s] = "start"
  /\ ServiceOf(s) \notin Active /\ Cardinality(Active) >= SvcMax
  /\ alive' = alive \ {s}
  /\ UNCHANGED <<svc, mail, serverAt, serving, call, calls, keys, typed, history>>

\* SYS_IPC_RECV in the server loop
Take(s) ==
  /\ s \in alive /\ serverAt[s] = "loop"
  /\ serving[s] = NoRequest /\ mail[s] # <<>>
  /\ serving' = [serving EXCEPT ![s] = Head(mail[s])]
  /\ mail' = [mail EXCEPT ![s] = Tail(mail[s])]
  /\ UNCHANGED <<svc, alive, serverAt, call, calls, keys, typed, history>>

\* What kbd_handler puts into its answer: the next key, or nothing.  A key is a character that is
\* no dead key: what the decoders hold back and when is left out
KeyFor(s) == IF s \in Kbd /\ keys # <<>> THEN Head(keys) ELSE 0
KeysAfter(s) == IF s \in Kbd /\ keys # <<>> THEN Tail(keys) ELSE keys

\* Faulty variant: the loop answers a request again before it takes the next
ReplyTwice(s) ==
  /\ s \in alive /\ serving[s] # NoRequest
  /\ LET r == serving[s]
     IN  mail' = Put(mail, r.from, Message(s, r.type, r.about, KeyFor(s)))
  /\ keys' = KeysAfter(s)
  /\ UNCHANGED <<svc, alive, serverAt, serving, call, calls, typed, history>>

\* Faulty variant: a key stays in the controller after the driver has answered with it
ReplyKeepsKey(s) ==
  /\ s \in alive /\ serving[s] # NoRequest
  /\ LET r == serving[s]
     IN  mail' = Put(mail, r.from, Message(s, r.type, r.about, KeyFor(s)))
  /\ serving' = [serving EXCEPT ![s] = NoRequest]
  /\ UNCHANGED <<svc, alive, serverAt, call, calls, keys, typed, history>>

\* The handler and SYS_IPC_REPLY
Reply(s) ==
  /\ s \in alive /\ serving[s] # NoRequest
  /\ LET r == serving[s]
     IN  mail' = Put(mail, r.from, Message(s, r.type, r.about, KeyFor(s)))
  /\ keys' = KeysAfter(s)
  /\ serving' = [serving EXCEPT ![s] = NoRequest]
  /\ UNCHANGED <<svc, alive, serverAt, call, calls, typed, history>>

\* SYS_EXIT by a program that registered a name; nothing unregisters it
Exit(s) ==
  /\ s \in alive \cap Mortal /\ serverAt[s] = "loop"
  /\ alive' = alive \ {s}
  /\ serving' = [serving EXCEPT ![s] = NoRequest]
  /\ UNCHANGED <<svc, mail, serverAt, call, calls, keys, typed, history>>
-----------------------------------------------------------------------------
(***************************************************************************)
(* Clients: spud_auth_rpc and spud_fsd_rpc, and the callers that fall back *)
(* on a system call when these fail.                                       *)
(***************************************************************************)
\* The call returns
Return(c) == call' = [call EXCEPT ![c] = NoCall]

\* It returns a failure; the caller goes on with a system call, or with an error
Fail(c) == Return(c) /\ failed' = failed \cup {c}

Call(c, t) ==
  /\ call[c].at = "idle" /\ calls < MaxCalls
  /\ calls' = calls + 1
  /\ call' = [call EXCEPT ![c] = [at |-> "query", type |-> t, svc |-> 0, n |-> calls + 1]]
  /\ UNCHANGED <<svc, mail, servers, keys, typed, history>>

\* spud_svc_query_retry: a try that finds the service
Query(c) ==
  /\ call[c].at = "query" /\ Resolves(NameFor(call[c].type))
  /\ call' = [call EXCEPT ![c].svc = svc[NameFor(call[c].type)], ![c].at = "send"]
  /\ UNCHANGED <<svc, mail, servers, calls, keys, typed, history>>

\* A try that does not, with tries left
QueryRetry(c) ==
  /\ call[c].at = "query" /\ ~Resolves(NameFor(call[c].type))
  /\ svc' = AfterQuery(NameFor(call[c].type))
  /\ UNCHANGED <<mail, servers, call, calls, keys, typed, history>>

\* The last try does not either
QueryGiveUp(c) ==
  /\ ~Patient
  /\ call[c].at = "query" /\ ~Resolves(NameFor(call[c].type))
  /\ svc' = AfterQuery(NameFor(call[c].type))
  /\ Fail(c)
  /\ UNCHANGED <<mail, servers, calls, keys, typed, last, reading>>

\* SYS_IPC_SEND; the server may be gone by now
Send(c) ==
  LET k == call[c]
  IN  /\ k.at = "send" /\ k.svc \notin Boxless
      /\ mail' = Put(mail, k.svc, Message(c, k.type, About(c, k), 0))
      /\ call' = [call EXCEPT ![c].at = "wait"]
      /\ UNCHANGED <<svc, servers, calls, keys, typed, history>>

\* The server has no mailbox and there is none left for it
SendRefused(c) ==
  /\ call[c].at = "send" /\ call[c].svc \in Boxless
  /\ Fail(c)
  /\ UNCHANGED <<svc, mail, servers, calls, keys, typed, last, reading>>

\* Faulty variant: a reply is taken without looking at its type
AnswersAnyType(c, m) == m.from = call[c].svc

\* The reply that spud_auth_rpc and spud_fsd_rpc accept
Answers(c, m) == m.type = call[c].type /\ m.from = call[c].svc

\* spud_ipc_recv_retry: a try that finds a message, which is the answer
Accept(c) ==
  /\ call[c].at = "wait" /\ mail[c] # <<>>
  /\ Answers(c, Head(mail[c]))
  /\ mail' = [mail EXCEPT ![c] = Tail(mail[c])]
  /\ last' = [last EXCEPT ![c][Head(mail[c]).from] = Head(mail[c]).about.n]
  /\ Return(c)
  /\ UNCHANGED <<svc, servers, calls, keys, typed, reading, failed>>

\* ... which is not: the message is gone and the call fails
Reject(c) ==
  /\ call[c].at = "wait" /\ mail[c] # <<>>
  /\ ~Answers(c, Head(mail[c]))
  /\ mail' = [mail EXCEPT ![c] = Tail(mail[c])]
  /\ Fail(c)
  /\ UNCHANGED <<svc, servers, calls, keys, typed, last, reading>>

\* Faulty variant: the client waits for its answer without a budget
WaitForever(c) == call[c].at = "wait" /\ mail[c] = <<>> /\ UNCHANGED vars

\* The last of the tries finds the mailbox empty
WaitGiveUp(c) ==
  /\ ~Patient
  /\ call[c].at = "wait" /\ mail[c] = <<>>
  /\ Fail(c)
  /\ UNCHANGED <<svc, mail, servers, calls, keys, typed, last, reading>>
-----------------------------------------------------------------------------
(***************************************************************************)
(* The keyboard.                                                           *)
(***************************************************************************)
\* The controller takes a key
Press ==
  /\ typed < MaxKeys
  /\ typed' = typed + 1
  /\ keys' = Append(keys, typed + 1)
  /\ UNCHANGED <<svc, mail, servers, call, calls, history>>

\* A byte nobody typed: the first of a reply of authd or fsd
Stray == -1

\* The byte SYS_READ finds at the start of a message: the driver's answer holds a key or nothing,
\* the other replies a character ('0', '1', text), an audit trail with no entry nothing
Bytes(m) ==
  CASE m.type = "KBD_GET" -> {m.key}
    [] m.type = "FS_AUDIT" -> {Stray, 0}
    [] OTHER -> {Stray}

\* The program gets byte b
Give(c, b) ==
  /\ got' = [got EXCEPT ![c] = b]
  /\ read' = IF b \in Keys THEN [read EXCEPT ![c] = b] ELSE read

\* SYS_READ with the driver registered: a request to the driver, then one message of the reader's
\* own mailbox, whichever it is; neither its sender nor its type is looked at
ReadService(c) ==
  /\ call[c].at = "idle" /\ Resolves("kbd")
  /\ LET asked == Put(mail, svc["kbd"], Message(c, "KBD_GET", NoAbout, 0))
     IN  IF svc["kbd"] \in Boxless \/ asked[c] = <<>>
         THEN mail' = asked /\ Give(c, 0)
         ELSE /\ mail' = [asked EXCEPT ![c] = Tail(asked[c])]
              /\ \E b \in Bytes(Head(asked[c])) : Give(c, b)
  /\ UNCHANGED <<svc, servers, call, calls, keys, typed, last, failed>>

\* SYS_READ without it: keyboard_getc_nonblock
ReadDirect(c) ==
  /\ call[c].at = "idle" /\ ~Resolves("kbd")
  /\ svc' = AfterQuery("kbd")
  /\ IF keys = <<>> THEN Give(c, 0) /\ UNCHANGED keys
     ELSE Give(c, Head(keys)) /\ keys' = Tail(keys)
  /\ UNCHANGED <<mail, servers, call, calls, typed, last, failed>>
-----------------------------------------------------------------------------
Init ==
  /\ svc = [n \in Names |-> 0]
  /\ alive = Procs
  /\ mail = [p \in Procs |-> <<>>]
  /\ serverAt = [s \in Servers |-> "start"]
  /\ serving = [s \in Servers |-> NoRequest]
  /\ call = [c \in Clients |-> NoCall]
  /\ calls = 0
  /\ keys = <<>>
  /\ typed = 0
  /\ last = [c \in Clients |-> [s \in Servers |-> 0]]
  /\ got = [c \in Clients |-> 0]
  /\ read = [c \in Clients |-> 0]
  /\ failed = {}

ServerStep(s) ==
  Register(s) \/ RegisterRefused(s) \/ Take(s) \/ Reply(s) \/ Exit(s)

\* The ways a call fails
Fails(c) == QueryGiveUp(c) \/ SendRefused(c) \/ Reject(c) \/ WaitGiveUp(c)

\* What a client inside a call does next
ClientStep(c) ==
  \/ Query(c) \/ Send(c) \/ Accept(c)
  \/ Fails(c)

ClientStart(c) == \E t \in CallTypes : Call(c, t)

Next ==
  \/ \E s \in Servers : ServerStep(s)
  \/ \E c \in Clients :
       ClientStart(c) \/ ClientStep(c) \/ QueryRetry(c) \/ ReadService(c) \/ ReadDirect(c)
  \/ Press

\* A client in a call keeps running, and its budgets of tries run out
Spec == Init /\ [][Next]_vars /\ \A c \in Clients : WF_vars(ClientStep(c))
-----------------------------------------------------------------------------
(***************************************************************************)
(* Properties.                                                             *)
(***************************************************************************)
\* Every variable keeps its type; a mailbox never holds more than it has room for
TypeOK ==
  /\ svc \in [Names -> Servers \cup {0}]
  /\ alive \subseteq Procs
  /\ mail \in [Procs -> Seq(Messages)] /\ \A p \in Procs : Len(mail[p]) <= Q
  /\ serverAt \in [Servers -> {"start", "loop"}]
  /\ serving \in [Servers -> Messages \cup {NoRequest}]
  /\ \A c \in Clients :
       /\ call[c].at \in {"idle", "query", "send", "wait"}
       /\ call[c].svc \in Servers \cup {0} /\ call[c].n \in 0 .. MaxCalls
  /\ got \in [Clients -> {Stray} \cup 0 .. MaxKeys]
  /\ read \in [Clients -> 0 .. MaxKeys]
  /\ failed \subseteq Clients
  /\ last \in [Clients -> [Servers -> 0 .. MaxCalls]]
  /\ calls \in 0 .. MaxCalls /\ typed \in 0 .. MaxKeys
  /\ keys \in Seq(Keys)

\* A reply may come late and be taken for the answer of a later call, but the answers a client
\* takes from one server never repeat and never go back: with time-outs, rejected replies and
\* full mailboxes, what spud_auth_rpc returns follows the order of the calls
AnswersInOrder ==
  [][\A c \in Clients :
       Accept(c) => Head(mail[c]).about.n > last[c][Head(mail[c]).from]]_vars

\* What a client takes as an answer was made by the server it asked, for a request of the same
\* type that this client had sent to that server: never a keyboard answer, never an answer
\* to another operation or to another client
AnswerKind ==
  [][\A c \in Clients :
       Accept(c) => Head(mail[c]).about \in
                      [n : Calls, by : {c}, to : {call[c].svc}, type : {call[c].type}]]_vars

\* A byte SYS_READ gives a program is a key typed that comes after every key the program has read,
\* through the driver's start and with answers of the driver left in the mailbox across RPC calls;
\* or it is no key but the start of a reply to a call of this program, and then one of its calls
\* has failed.  A program none of whose calls has failed reads keys only
KeysInOrder ==
  [][\A c \in Clients :
       (ReadService(c) \/ ReadDirect(c)) /\ got'[c] # 0 =>
         \/ got'[c] \in read[c] + 1 .. typed
         \/ got'[c] = Stray /\ Head(mail[c]).about.by = c /\ c \in failed]_vars

\* Every call returns, whatever the servers do: dead, not yet started, full or without mailbox
CallReturns == \A c \in Clients : call[c].at # "idle" ~> call[c].at = "idle"

\* What the comment of spud_auth_rpc says: the first call decides whether a boot uses authd or the
\* system calls, so that once authd has answered no call falls back on the kernel's own store
SingleFlow ==
  [][\A c \in Clients :
       Fails(c) /\ NameFor(call[c].type) = "auth" => \A s \in Auth : last[c][s] = 0]_vars
=============================================================================
