------------------------------- MODULE Sessao ------------------------------
(***************************************************************************)
(* Sessions: the accounts of the kernel (auth.c) and those of the service  *)
(* 'auth' (authd.c), tickets, consent to contracts (synallagma.c), and the *)
(* rights of the programs a session starts (cap.c, elf.c).  init starts    *)
(* spoudazo, which counts accounts, creates the sovereign, logs in and     *)
(* starts the shell praxia; without spoudazo, init runs login.c and        *)
(* shell.c in ring 0.                                                      *)
(*                                                                         *)
(* Each call of a ring-3 program to the accounts is a request to authd; if *)
(* no reply of the right type comes in time, the library makes the system  *)
(* call of the same name instead, and the late reply stays in the mailbox. *)
(* A password stands for its salted hash, a ticket's index for its token.  *)
(*                                                                         *)
(* auth_hash_password turns interrupts on (auth.c:60).  A call that stores *)
(* a hash is therefore cut there: what it wrote before is seen by whatever *)
(* runs next, and Store writes the rest.  A call that only compares one    *)
(* writes nothing after it and stays one step.                             *)
(***************************************************************************)
EXTENDS Integers, FiniteSets, Sequences, SequencesExt

CONSTANTS
  Names, LongNames,  \* names typed, and those of three letters or more
  Pws, LongPws,      \* passwords typed, and those of four letters or more
  UserMax,           \* AUTH_USER_MAX, AUTH_MAX
  TicketMax,         \* AUTH_TICKET_MAX
  Contracts,         \* active contracts found at boot, by index
  MaxLogins, MaxLate \* bounds: sessions opened, requests given up

ASSUME InputsAssumption == LongNames \subseteq Names /\ LongPws \subseteq Pws
ASSUME BoundsAssumption == {UserMax, TicketMax} \subseteq Nat \ {0} /\ Contracts \subseteq Nat

VARIABLES
  accounts,  \* the kernel's accounts: [name, pw, caps, active, admin]
  work,      \* what a call cut at its hash has still to write to the kernel's accounts
  accts,     \* authd's accounts, of the same shape
  authed,    \* admin_authed of authd
  tickets,   \* tickets issued: [name, caps, used]
  current,   \* current_user: 0, an index of accounts, or Synth
  synth,     \* synth_user: [name, caps, admin]
  consented, \* contracts with consent
  rights,    \* capabilities of spoudazo, of the shell and of a program the shell runs
  at,        \* where the session is
  form,      \* the name typed at the login prompt and the token obtained for it
  up,        \* whether authd is registered
  call,      \* the client's request, while it waits for the reply
  queue,     \* requests in authd's mailbox
  box,       \* replies in the client's mailbox
  earned,    \* history: capabilities of the accounts that logged in since spoudazo started
  logins, late, starts \* counters

stores == <<accounts, work, accts, authed, tickets>>
session == <<current, synth, consented, rights, earned>>
wires == <<call, queue, box, late>>
vars == <<stores, session, wires, at, form, up, logins, starts>>

Bits == {"FB_DRAW", "AISTHESIS", "KINESIS_SPAWN", "NOMOS_WRITE", "EMPORION", "IDIOS_WRITE", "FS_READ",
         "FS_WRITE", "USER_ADMIN", "EXEC", "IPC", "SYSCALL", "DEV_IO", "unnamed"}
CapAll == Bits
CapBase == {"SYSCALL", "FS_READ", "FS_WRITE", "EXEC", "IPC"}
CapUser == {"FB_DRAW", "AISTHESIS", "FS_READ", "IDIOS_WRITE"}

Progs == {"session", "shell", "app"}
Synth == UserMax + 1
NoPw == "none" \* the empty password
NoName == "nobody"
NoForm == [name |-> NoName, tok |-> 0]
NoCall == [op |-> "none", name |-> NoName, pw |-> NoPw, new |-> NoPw]
\* Four letters are not none: strlen(pass) < 4 refuses the empty password
ASSUME EmptyIsShort == NoPw \notin LongPws

NoWork == [i |-> 0, new |-> FALSE, pw |-> NoPw, caps |-> {}, admin |-> FALSE]

Request(op, n, p, q) == [op |-> op, name |-> n, pw |-> p, new |-> q]

Account(n, p, c, a) == [name |-> n, pw |-> p, caps |-> c, active |-> TRUE, admin |-> a]

\* auth_find, find: the active account of a name, 0 for none
Find(s, n) == LET I == {i \in DOMAIN s : s[i].active /\ s[i].name = n} IN IF I = {} THEN 0 ELSE Min(I)
Verify(s, n, p) == Find(s, n) # 0 /\ s[Find(s, n)].pw = p

\* auth_user_delete and authd's handler keep the entry
UserDelete(s, n) == [s EXCEPT ![Find(s, n)].active = FALSE]
-----------------------------------------------------------------------------
(* The kernel: accounts, tickets, consent, rights *)

\* What a call leaves behind when it is done, or cut at its hash
Left(s, w) == [taken |-> s, work |-> w]

\* auth_create_user up to its hash: the entry is counted and named, and not yet active.  A name is
\* refused even if its account was deleted
AuthCreate(n, p, c, a) ==
  IF Len(accounts) >= UserMax \/ \E i \in DOMAIN accounts : accounts[i].name = n THEN Left(accounts, NoWork)
  ELSE Left(Append(accounts, [Account(n, NoPw, {}, FALSE) EXCEPT !.active = FALSE]),
            [i |-> Len(accounts) + 1, new |-> TRUE, pw |-> p, caps |-> c, admin |-> a])

\* auth_change_password and auth_change_password_admin up to the hash: the salt is new, so that no
\* password fits the hash that is still there
ChangePassword(n, p) ==
  LET i == Find(accounts, n)
  IN  IF i = 0 THEN Left(accounts, NoWork)
      ELSE Left([accounts EXCEPT ![i].pw = NoPw], [NoWork EXCEPT !.i = i, !.pw = p])

\* What is written after the hash
Stored == IF work.new THEN [accounts[work.i] EXCEPT !.pw = work.pw, !.caps = work.caps, !.active = TRUE, !.admin = work.admin]
                      ELSE [accounts[work.i] EXCEPT !.pw = work.pw]

\* Faulty variant: revokes nothing
TicketIssueKeeps(ts, n, c) ==
  IF Len(ts) >= TicketMax THEN ts ELSE Append(ts, [name |-> n, caps |-> c, used |-> FALSE])

\* Faulty variant: tests the table's limit too late
TicketIssueOver(ts, n, c) ==
  IF Len(ts) > TicketMax THEN ts
  ELSE Append([i \in DOMAIN ts |-> IF ts[i].name = n THEN [ts[i] EXCEPT !.used = TRUE] ELSE ts[i]],
              [name |-> n, caps |-> c, used |-> FALSE])

\* auth_ticket_issue: earlier tickets of the name are spent, the table never shrinks
TicketIssue(ts, n, c) ==
  IF Len(ts) >= TicketMax THEN ts
  ELSE Append([i \in DOMAIN ts |-> IF ts[i].name = n THEN [ts[i] EXCEPT !.used = TRUE] ELSE ts[i]],
              [name |-> n, caps |-> c, used |-> FALSE])

\* auth_ticket_consume: the ticket of this name and token, unused
TicketOpen(n, tok) == tok \in DOMAIN tickets /\ ~tickets[tok].used /\ tickets[tok].name = n

User(i) == IF i = Synth THEN synth ELSE accounts[i]
IsAdmin(i) == i # 0 /\ User(i).admin

\* Faulty variant: programs inherit before anyone has logged in
InheritAlways(parent) == CapBase \cup parent

\* exec_elf_core: the base rights, and the parent's once someone has logged in
Inherit(parent) == CapBase \cup (IF current # 0 THEN parent ELSE {})

\* syscall_cap
Allowed(p, c) == c \in rights[p]

\* The rights of the process that logs in grow, here and in cap_grant
Grant(p, caps) == [rights EXCEPT ![p] = @ \cup caps]

\* Faulty variant: the sovereign may be deleted
DeletableAny(p, n) == LET i == Find(accounts, n) IN Allowed(p, "USER_ADMIN") /\ i # 0 /\ i # current

\* Faulty variant: the user of the session may be deleted
DeletableSelf(p, n) == LET i == Find(accounts, n) IN Allowed(p, "USER_ADMIN") /\ i # 0 /\ ~accounts[i].admin

\* SYS_AUTH_DELETE: never the sovereign, nor the account of the session
Deletable(p, n) ==
  LET i == Find(accounts, n) IN Allowed(p, "USER_ADMIN") /\ i # 0 /\ ~accounts[i].admin /\ i # current

\* SYS_AUTH_CHANGEPW: one's own with the old password, another's with CAP_USER_ADMIN
Repasswordable(p, n, old) ==
  LET i == Find(accounts, n)
  IN  i # 0 /\ IF i = current THEN accounts[i].pw = old ELSE Allowed(p, "USER_ADMIN")

\* What the system call says to program p: the accounts after it, or at its hash, and its result
KernelSays(p, r) ==
  LET left == CASE r.op = "CREATE" /\ Len(accounts) = 0 /\ r.name \in LongNames /\ r.pw \in LongPws ->
                     AuthCreate(r.name, r.pw, CapAll, TRUE)
                [] r.op = "CREATE_USER" /\ Allowed(p, "USER_ADMIN")
                     /\ r.name \in LongNames /\ r.pw \in LongPws ->
                     AuthCreate(r.name, r.pw, CapUser, FALSE)
                [] r.op = "DELETE" /\ Deletable(p, r.name) -> Left(UserDelete(accounts, r.name), NoWork)
                [] r.op = "CHANGEPW" /\ r.new \in LongPws /\ Repasswordable(p, r.name, r.pw) ->
                     ChangePassword(r.name, r.new)
                [] OTHER -> Left(accounts, NoWork)
      verified == r.op = "LOGIN" /\ Verify(accounts, r.name, r.pw)
  IN  [left |-> left, tok |-> 0,
       result |-> IF r.op = "COUNT" THEN Len(accounts) ELSE IF verified \/ left.taken # accounts THEN 1 ELSE 0]
-----------------------------------------------------------------------------
(* authd *)

\* authd_handler's fields: it stops at the separator after the first one and never steps over
\* it, so the password and the new password are empty
Fields(r) == [name |-> r.name, pw |-> NoPw, new |-> NoPw]

\* create: a deleted account's name may be taken again
AuthdCreate(n, p, c, a) ==
  IF Len(accts) >= UserMax \/ Find(accts, n) # 0 THEN accts ELSE Append(accts, Account(n, p, c, a))

\* What authd says: its accounts and the kernel's tickets after the request, and its reply
AuthdSays(r) ==
  LET f == Fields(r)
      i == Find(accts, f.name)
      long == f.name \in LongNames /\ f.pw \in LongPws
      enters == r.op = "LOGIN" /\ Verify(accts, f.name, f.pw) /\ Len(tickets) < TicketMax
      made == CASE r.op = "CREATE" /\ accts = << >> /\ long -> AuthdCreate(f.name, f.pw, CapAll, TRUE)
                [] r.op = "CREATE_USER" /\ authed /\ long -> AuthdCreate(f.name, f.pw, CapUser, FALSE)
                [] r.op = "DELETE" /\ i # 0 /\ authed /\ ~accts[i].admin -> UserDelete(accts, f.name)
                [] r.op = "CHANGEPW" /\ f.new \in LongPws /\ i # 0 /\ (authed \/ accts[i].pw = f.pw) ->
                     [accts EXCEPT ![i].pw = f.new]
                [] OTHER -> accts
  IN  [made |-> made,
       authed |-> authed \/ (enters /\ accts[i].admin),
       tickets |-> IF enters THEN TicketIssue(tickets, f.name, accts[i].caps) ELSE tickets,
       tok |-> IF enters THEN Len(tickets) + 1 ELSE 0,
       result |-> IF r.op = "COUNT" THEN Len(accts) ELSE IF enters \/ made # accts THEN 1 ELSE 0]

\* spud_svc_serve: takes a request, handles it, replies; the reply to a dead client is lost
Serve ==
  /\ up /\ queue # << >>
  /\ LET r == Head(queue).r
         s == AuthdSays(r)
     IN  /\ accts' = s.made /\ authed' = s.authed /\ tickets' = s.tickets
         /\ box' = IF Head(queue).live THEN Append(box, [op |-> r.op, result |-> s.result, tok |-> s.tok]) ELSE box
  /\ queue' = Tail(queue)
  /\ UNCHANGED <<accounts, work, session, call, late, at, form, up, logins, starts>>
-----------------------------------------------------------------------------
(* The library's client: spud_auth_rpc and the calls built on it *)

Prog == IF at = "shell" THEN "shell" ELSE "session"

\* The request leaves if the service is registered
Call(r) ==
  /\ call = NoCall
  /\ call' = r
  /\ queue' = IF up THEN Append(queue, [r |-> r, live |-> TRUE]) ELSE queue
  /\ UNCHANGED <<stores, session, box, late, at, up, logins, starts>>

\* Where spoudazo and praxia go on with the result
Resume(result, tok) ==
  /\ call' = NoCall
  /\ at' = CASE call.op = "COUNT"  -> IF result = 0 THEN "bootstrap" ELSE "login"
             [] call.op = "CREATE" -> IF result = 1 THEN "login" ELSE "bootstrap"
             [] call.op = "LOGIN"  -> IF result = 1 THEN "ask" ELSE "login"
             [] OTHER -> at
  /\ form' = IF call.op = "LOGIN" THEN [form EXCEPT !.tok = tok] ELSE form

\* No reply of the right type: the system call instead, which ends with Store if it has to hash
FallBack ==
  LET k == KernelSays(Prog, call)
  IN  /\ accounts' = k.left.taken /\ work' = k.left.work
      /\ IF work' = NoWork THEN Resume(k.result, k.tok) ELSE UNCHANGED <<call, at, form>>
      /\ UNCHANGED <<accts, authed, tickets>>

\* spud_ipc_recv_retry takes the oldest message, whatever call it answers
Answer ==
  /\ call # NoCall /\ box # << >>
  /\ IF Head(box).op = call.op THEN Resume(Head(box).result, Head(box).tok) /\ UNCHANGED stores
                               ELSE FallBack
  /\ box' = Tail(box)
  /\ UNCHANGED <<session, queue, late, up, logins, starts>>

GiveUp ==
  /\ call # NoCall /\ box = << >>
  /\ up => late < MaxLate
  /\ late' = IF up THEN late + 1 ELSE late
  /\ FallBack
  /\ UNCHANGED <<session, queue, box, up, logins, starts>>

\* SYS_READ waits for the keyboard driver in the same mailbox and drops what it finds
ReadKey ==
  /\ call = NoCall /\ box # << >> /\ at \in {"bootstrap", "login", "ask", "shell"}
  /\ box' = Tail(box)
  /\ UNCHANGED <<stores, session, call, queue, late, at, form, up, logins, starts>>
-----------------------------------------------------------------------------
(* init and spoudazo *)

\* session_entry: a new spoudazo, or ring 0 if it cannot be started.  A client that is gone
\* gets no more replies
Start(ok) ==
  /\ at = "off"
  /\ starts' = starts + 1
  /\ IF ok THEN rights' = [rights EXCEPT !["session"] = Inherit(CapAll)] /\ at' = "count"
           ELSE UNCHANGED rights /\ at' = IF accounts = << >> THEN "kboot" ELSE "klogin"
  /\ earned' = {}
  /\ UNCHANGED <<stores, current, synth, consented, wires, form, up, logins>>

Hangup == queue' = [i \in DOMAIN queue |-> [queue[i] EXCEPT !.live = FALSE]] /\ box' = << >>

Count == at = "count" /\ Call(Request("COUNT", NoName, NoPw, NoPw)) /\ UNCHANGED form

Bootstrap(n, p) == at = "bootstrap" /\ n \in LongNames /\ p \in LongPws
                   /\ Call(Request("CREATE", n, p, NoPw)) /\ UNCHANGED form

Login(n, p) == at = "login" /\ logins < MaxLogins
               /\ Call(Request("LOGIN", n, p, NoPw)) /\ form' = [name |-> n, tok |-> 0]

\* Faulty variant: leaves the ticket open
SpendNot(tok) == tickets

\* t->used = true
Spend(tok) == IF tok = 0 THEN tickets ELSE [tickets EXCEPT ![tok].used = TRUE]

\* SYS_SESSION_LOGIN by program p for name n with token tok: the ticket is spent even if the
\* contracts are refused afterwards
SessionLogin(p, n, tok, yes) ==
  LET i == IF tok # 0 THEN IF TicketOpen(n, tok) THEN Synth ELSE 0 ELSE Find(accounts, n)
      caps == IF i = 0 THEN {} ELSE IF tok # 0 THEN tickets[tok].caps ELSE accounts[i].caps
  IN  /\ tickets' = IF i = 0 THEN tickets ELSE Spend(tok)
      /\ synth' = IF i = Synth THEN [name |-> n, caps |-> caps, admin |-> caps = CapAll] ELSE synth
      /\ consented' = IF i # 0 /\ yes THEN consented \cup Contracts ELSE consented
      /\ IF i # 0 /\ yes
         THEN /\ current' = i /\ logins' = logins + 1 /\ earned' = earned \cup caps
              /\ rights' = Grant(p, caps)
         ELSE UNCHANGED <<current, logins, earned, rights>>
      /\ UNCHANGED <<accounts, work, accts, authed>>

\* ask_contracts: an empty list is not asked about; refused, the login starts again
Refuse ==
  /\ at = "ask" /\ Contracts # {} /\ at' = "login" /\ form' = NoForm
  /\ UNCHANGED <<stores, session, wires, up, logins, starts>>

Accept ==
  /\ at = "ask"
  /\ SessionLogin("session", form.name, form.tok, TRUE)
  /\ at' = IF logins' = logins THEN "login" ELSE "enter"
  /\ UNCHANGED <<wires, form, up, starts>>

\* SYS_EXEC of praxia; if it fails spoudazo exits, as it does when the shell ends
Enter(ok) ==
  /\ at = "enter"
  /\ IF ok THEN rights' = [rights EXCEPT !["shell"] = Inherit(rights["session"])] /\ at' = "shell"
           ELSE UNCHANGED rights /\ at' = "off"
  /\ Hangup /\ form' = NoForm
  /\ UNCHANGED <<stores, current, synth, consented, earned, call, late, up, logins, starts>>

Exit ==
  /\ at = "shell" /\ call = NoCall
  /\ at' = "off" /\ rights' = [p \in Progs |-> {}]
  /\ Hangup
  /\ UNCHANGED <<stores, current, synth, consented, earned, call, late, form, up, logins, starts>>
-----------------------------------------------------------------------------
(* praxia: its commands, and the programs it runs *)

UserAdd(n, p) == at = "shell" /\ Call(Request("CREATE_USER", n, p, NoPw)) /\ UNCHANGED form
UserDel(n) == at = "shell" /\ Call(Request("DELETE", n, NoPw, NoPw)) /\ UNCHANGED form
Passwd(n, p, q) == at = "shell" /\ Call(Request("CHANGEPW", n, p, q)) /\ UNCHANGED form

RunApp ==
  /\ at = "shell" /\ call = NoCall /\ at' = "app"
  /\ rights' = [rights EXCEPT !["app"] = Inherit(rights["shell"])]
  /\ UNCHANGED <<stores, current, synth, consented, earned, wires, form, up, logins, starts>>

AppEnds ==
  /\ at = "app" /\ at' = "shell" /\ rights' = [rights EXCEPT !["app"] = {}]
  /\ UNCHANGED <<stores, current, synth, consented, earned, wires, form, up, logins, starts>>

\* SYS_AUTH_TICKET_ISSUE by a program that holds CAP_USER_ADMIN
AppIssues(n, c) ==
  /\ at = "app" /\ Allowed("app", "USER_ADMIN")
  /\ tickets' = TicketIssue(tickets, n, c)
  /\ UNCHANGED <<accounts, work, accts, authed, session, wires, at, form, up, logins, starts>>

\* SYS_SESSION_LOGIN by a program
AppLogsIn(n, tok, yes) ==
  /\ at = "app" /\ logins < MaxLogins
  /\ SessionLogin("app", n, tok, yes)
  /\ UNCHANGED <<wires, at, form, up, starts>>
-----------------------------------------------------------------------------
(* Ring 0: login_main, thais_sh_main *)

Writes(l) == accounts' = l.taken /\ work' = l.work

\* login_main creates the sovereign; with Store it goes on to the login
KBootstrap(n, p) ==
  /\ at = "kboot" /\ n \in LongNames /\ p \in LongPws
  /\ Writes(AuthCreate(n, p, CapAll, TRUE))
  /\ UNCHANGED <<accts, authed, tickets, session, wires, at, form, up, logins, starts>>

\* The user is set before the contracts are asked about
KLogin(n, p) ==
  /\ at = "klogin" /\ logins < MaxLogins /\ Verify(accounts, n, p)
  /\ current' = Find(accounts, n) /\ logins' = logins + 1 /\ at' = "kask"
  /\ UNCHANGED <<stores, synth, consented, rights, earned, wires, form, up, starts>>

\* consent_prompt_contracts: contracts not yet accepted, in order
Asked == Contracts \ consented

KAnswer(yes) ==
  /\ at = "kask" /\ Asked # {}
  /\ IF yes THEN consented' = consented \cup {Min(Asked)} /\ UNCHANGED <<current, at>>
            ELSE current' = 0 /\ at' = "klogin" /\ UNCHANGED consented
  /\ UNCHANGED <<stores, synth, rights, earned, wires, form, up, logins, starts>>

KEnter ==
  /\ at = "kask" /\ Asked = {} /\ at' = "kshell"
  /\ UNCHANGED <<stores, session, wires, form, up, logins, starts>>

\* cmd_useradd of the ring-0 shell: no CAP_FS_READ, and names of any length
KUserAdd(n, p) ==
  /\ at = "kshell" /\ IsAdmin(current) /\ p \in LongPws
  /\ Writes(AuthCreate(n, p, CapUser \ {"FS_READ"}, FALSE))
  /\ UNCHANGED <<accts, authed, tickets, session, wires, at, form, up, logins, starts>>

\* cmd_passwd
KPasswd(p, q) ==
  /\ at = "kshell" /\ Verify(accounts, User(current).name, p) /\ q \in LongPws
  /\ Writes(ChangePassword(User(current).name, q))
  /\ UNCHANGED <<accts, authed, tickets, session, wires, at, form, up, logins, starts>>

\* exit: login_main again; the user stays set until someone else logs in
KExit ==
  /\ at = "kshell" /\ at' = "klogin"
  /\ UNCHANGED <<stores, session, wires, form, up, logins, starts>>
-----------------------------------------------------------------------------
\* The rest of auth_create_user or of the change of a password, after the hash, and of the call
Store ==
  /\ work # NoWork
  /\ accounts' = [accounts EXCEPT ![work.i] = Stored]
  /\ work' = NoWork
  /\ IF call # NoCall THEN Resume(1, 0)
                      ELSE at' = (IF at = "kboot" THEN "klogin" ELSE at) /\ UNCHANGED <<call, form>>
  /\ UNCHANGED <<accts, authed, tickets, session, queue, box, late, up, logins, starts>>

Init ==
  /\ accounts = << >> /\ work = NoWork /\ accts = << >> /\ authed = FALSE /\ tickets = << >>
  /\ current = 0 /\ synth = [name |-> NoName, caps |-> {}, admin |-> FALSE]
  /\ consented = {} /\ rights = [p \in Progs |-> {}] /\ earned = {}
  /\ at = "off" /\ form = NoForm /\ up \in BOOLEAN
  /\ call = NoCall /\ queue = << >> /\ box = << >>
  /\ logins = 0 /\ late = 0 /\ starts = 0

\* Whoever uses the kernel's accounts: the session, one of its programs at a time, or ring 0
Client ==
  \/ Answer \/ GiveUp \/ ReadKey
  \/ \E ok \in BOOLEAN : Start(ok) \/ Enter(ok)
  \/ Count \/ Refuse \/ Accept \/ Exit
  \/ \E n \in Names, p \in Pws : Bootstrap(n, p) \/ Login(n, p) \/ UserAdd(n, p)
                                 \/ KBootstrap(n, p) \/ KLogin(n, p) \/ KUserAdd(n, p)
  \/ \E n \in Names : UserDel(n) \/ \E p, q \in Pws : Passwd(n, p, q)
  \/ RunApp \/ AppEnds
  \/ \E n \in Names, c \in {CapAll, CapUser} : AppIssues(n, c)
  \/ \E n \in Names, tok \in 0 .. Len(tickets), yes \in BOOLEAN : AppLogsIn(n, tok, yes)
  \/ \E yes \in BOOLEAN : KAnswer(yes)
  \/ KEnter \/ KExit
  \/ \E p, q \in Pws : KPasswd(p, q)

\* While a call of theirs is cut, authd goes on
Next == Serve \/ Store \/ (work = NoWork /\ Client)

Spec == Init /\ [][Next]_vars
-----------------------------------------------------------------------------
(* Properties *)

AccountSet == [name : Names, pw : Pws \cup {NoPw}, caps : SUBSET CapAll, active : BOOLEAN, admin : BOOLEAN]
WorkSet == [i : DOMAIN accounts, new : BOOLEAN, pw : Pws, caps : SUBSET CapAll, admin : BOOLEAN]

\* The sequences stay within their tables, and current_user points at an account or at synth_user
TypeOK ==
  /\ accounts \in Seq(AccountSet) /\ accts \in Seq(AccountSet) /\ work \in {NoWork} \cup WorkSet
  /\ Len(accounts) <= UserMax /\ Len(accts) <= UserMax /\ Len(tickets) <= TicketMax
  /\ \A i \in DOMAIN tickets : tickets[i].name \in Names /\ tickets[i].caps \subseteq CapAll
  /\ current \in {0, Synth} \cup DOMAIN accounts
  /\ consented \subseteq Contracts
  /\ rights \in [Progs -> SUBSET CapAll]

\* auth.c and authd.c: of each store the first account and no other is the sovereign, it has
\* every capability and is never deactivated, and active accounts have different names.  Of an
\* account that is only half made nobody is the user, and it does not rule
Half == IF work.new THEN work.i ELSE 0
Ruled(s, half) ==
  \A i \in DOMAIN s :
    /\ s[i].admin <=> i = 1 /\ i # half
    /\ s[i].admin => s[i].active /\ s[i].caps = CapAll
    /\ i = half => ~s[i].active
    /\ \A j \in DOMAIN s : s[i].active /\ s[j].active /\ s[i].name = s[j].name => i = j
SovereignKept == Ruled(accounts, Half) /\ Ruled(accts, 0)

\* auth_ticket_issue: "uma sessao por conta de cada vez": a name has at most one ticket that
\* can still be redeemed
OneOpenTicket ==
  \A i, j \in DOMAIN tickets : ~tickets[i].used /\ ~tickets[j].used /\ tickets[i].name = tickets[j].name => i = j

\* A shell runs only for a user that has accepted every active contract, through any mix of
\* prompts, refusals and logouts, and whose account has not been deleted or whose ticket gave
\* exactly the capabilities of the session
SessionLawful ==
  at \in {"shell", "app", "kshell"} =>
    /\ current # 0 /\ consented = Contracts
    /\ current \in DOMAIN accounts => accounts[current].active
    /\ current = Synth => \E i \in DOMAIN tickets :
         tickets[i].used /\ tickets[i].name = synth.name /\ tickets[i].caps = synth.caps

\* While the first spoudazo lives, no program of the session holds more than the base rights and
\* the capabilities of the accounts that logged in (from the second on, current_user is still
\* set when init starts spoudazo, and the rights of init are inherited)
FirstSessionRights ==
  starts = 1 => \A p \in Progs : rights[p] \subseteq CapBase \cup earned

\* A session by ticket spends one: each login that ends with synth_user closes a ticket of that
\* name, and no ticket is ever opened again or altered
LoginSpendsTicket ==
  [][/\ logins' # logins /\ current' = Synth =>
          \E i \in DOMAIN tickets : ~tickets[i].used /\ tickets'[i].used /\ tickets[i].name = synth'.name
     /\ \A i \in DOMAIN tickets : i \in DOMAIN tickets' /\ tickets'[i].name = tickets[i].name
          /\ tickets'[i].caps = tickets[i].caps /\ (tickets[i].used => tickets'[i].used)]_vars

\* authd.c, "bootstrap: so o 1o usuario (soberano, CAP_ALL)": once authd has answered a bootstrap
\* request, whose name and password spoudazo has checked, it has an account
BootstrapAnswered == (\E i \in DOMAIN box : box[i].op = "CREATE") => accts # << >>
=============================================================================
