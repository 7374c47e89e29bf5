---------------------------- MODULE SessaoProofs ---------------------------
(***************************************************************************)
(* Proofs about Sessao, for any names, passwords, contracts and tables:    *)
(* types, that the one sovereign stays, that a name has at most one open   *)
(* ticket and a login by ticket spends it, that a shell runs for a user of *)
(* the kernel's store with every consent given, and that the first session *)
(* has no more rights than its logins earned.                              *)
(***************************************************************************)
EXTENDS Sessao, SequenceTheorems, WellFoundedInduction, TLAPS

\* A set of naturals that has a member has a least one, and Min is it
LEMMA MinInSet ==
  ASSUME NEW S \in SUBSET Nat, S # {}
  PROVE  Min(S) \in S
<1> DEFINE R == {p \in Nat \X Nat : p[1] < p[2]}
<1>1. IsWellFoundedOn(R, Nat)
  BY NatLessThanWellFounded, Zenon DEF OpToRel
<1> HIDE DEF R
<1>2. PICK x \in S : \A y \in S : ~(<<y, x>> \in R)
  BY <1>1, WFMin
<1>3. ASSUME NEW y \in S PROVE x <= y
  <2>1. x \in Nat /\ y \in Nat /\ <<y, x>> \in Nat \X Nat
    OBVIOUS
  <2>2. ~(<<y, x>>[1] < <<y, x>>[2])
    BY <1>2, <2>1, Zenon DEF R
  <2> QED BY <2>1, <2>2
<1> QED BY <1>3 DEF Min

\* Find gives 0, or the position of an active account of the name
LEMMA FindSpec ==
  ASSUME NEW s \in Seq(AccountSet), NEW n
  PROVE  /\ Find(s, n) \in {0} \cup DOMAIN s
         /\ Find(s, n) # 0 => s[Find(s, n)].active /\ s[Find(s, n)].name = n
         /\ Find(s, n) = 0 => \A i \in DOMAIN s : ~(s[i].active /\ s[i].name = n)
<1> DEFINE I == {i \in DOMAIN s : s[i].active /\ s[i].name = n}
<1>1. DOMAIN s = 1 .. Len(s) /\ Len(s) \in Nat
  OBVIOUS
<1>2. I \subseteq Nat /\ 0 \notin I
  BY <1>1
<1>3. CASE I = {}
  BY <1>3 DEF Find
<1>4. CASE I # {}
  <2>1. Min(I) \in I
    BY <1>2, <1>4, MinInSet
  <2>2. Find(s, n) = Min(I)
    BY <1>4 DEF Find
  <2> HIDE DEF I
  <2>3. Find(s, n) \in I
    BY <2>1, <2>2
  <2> QED BY <1>2, <2>3 DEF I
<1> QED BY <1>3, <1>4
-----------------------------------------------------------------------------
(* The inductive invariant *)

TicketSet == [name : Names, caps : SUBSET CapAll, used : BOOLEAN]

StoreOK(s) == s \in Seq(AccountSet) /\ Len(s) <= UserMax

\* The account half made, 0 for none
HalfOf(w) == IF w.new THEN w.i ELSE 0

\* What a call cut at its hash will write: the first account becomes the sovereign, and an account
\* half made has a name of its own
WorkOK(s, w) ==
  /\ w \in [i : DOMAIN s, new : BOOLEAN, pw : Pws, caps : SUBSET CapAll, admin : BOOLEAN]
  /\ w.new => /\ w.admin <=> w.i = 1
              /\ w.admin => w.caps = CapAll
              /\ \A j \in DOMAIN s : s[j].name = s[w.i].name => j = w.i

Books(s, w) == StoreOK(s) /\ Ruled(s, HalfOf(w)) /\ (w = NoWork \/ WorkOK(s, w))

\* authd has no account: it never gets to see a password of four letters
AuthdBare == accts = << >> /\ authed = FALSE

TicketsOK == tickets \in Seq(TicketSet) /\ Len(tickets) <= TicketMax /\ OneOpenTicket

\* Whoever is logged in is an active account of the kernel, or redeemed a ticket
UserOK ==
  /\ current \in {0, Synth} \cup DOMAIN accounts
  /\ current \in DOMAIN accounts => accounts[current].active
  /\ current = Synth => \E i \in DOMAIN tickets :
       tickets[i].used /\ tickets[i].name = synth.name /\ tickets[i].caps = synth.caps

\* Before the sovereign exists nobody is logged in, no ticket is out and no program may administer
Unfounded ==
  accounts = << >> =>
    /\ current = 0 /\ tickets = << >>
    /\ \A p \in Progs : "USER_ADMIN" \notin rights[p]

RightsOK == consented \subseteq Contracts /\ rights \in [Progs -> SUBSET CapAll]

\* What each place of the session tells of the rest
PlaceOK ==
  /\ call # NoCall => at \in {"count", "bootstrap", "login", "shell"}
  /\ work # NoWork => call # NoCall \/ at \in {"kboot", "kshell"}
  /\ at = "kboot" => accounts = << >> \/ work # NoWork
  /\ at \in {"enter", "shell", "app", "kask", "kshell"} => current # 0
  /\ at \in {"enter", "shell", "app", "kshell"} => consented = Contracts

\* Before the first spoudazo, and while it lives
StartsOK ==
  /\ starts \in Nat
  /\ starts = 0 => at = "off" /\ call = NoCall /\ current = 0 /\ \A p \in Progs : rights[p] = {}
  /\ FirstSessionRights

SessaoInv ==
  /\ Books(accounts, work) /\ AuthdBare /\ TicketsOK
  /\ UserOK /\ Unfounded /\ RightsOK /\ PlaceOK /\ StartsOK

LEMMA Constants ==
  /\ LongNames \subseteq Names /\ LongPws \subseteq Pws /\ NoPw \notin LongPws
  /\ UserMax \in Nat \ {0} /\ TicketMax \in Nat \ {0} /\ Contracts \subseteq Nat
BY InputsAssumption, BoundsAssumption, EmptyIsShort
-----------------------------------------------------------------------------
(* Stores: every change of the kernel's accounts keeps them lawful and the user active *)

Kept(t, w) ==
  /\ Books(t, w)
  /\ DOMAIN accounts \subseteq DOMAIN t
  /\ current \in DOMAIN accounts => t[current].active

LEMMA KeptSame == ASSUME SessaoInv PROVE Kept(accounts, work)
BY DEF SessaoInv, Kept, UserOK

LEMMA BooksSame == ASSUME SessaoInv, UNCHANGED <<accounts, work>> PROVE Books(accounts, work)'
BY DEF SessaoInv, Books, StoreOK, Ruled, HalfOf, WorkOK

LEMMA StoreDomain ==
  ASSUME NEW s, StoreOK(s)
  PROVE  DOMAIN s = 1 .. Len(s) /\ Len(s) \in 0 .. UserMax /\ 0 \notin DOMAIN s /\ Synth \notin DOMAIN s
<1>1. DOMAIN s = 1 .. Len(s) /\ Len(s) \in Nat /\ Len(s) <= UserMax
  BY DEF StoreOK
<1> QED BY <1>1, Constants DEF Synth

\* auth_create_user up to its hash: the first account is to be the sovereign, the others are not,
\* no name twice
LEMMA CreateKeeps ==
  ASSUME SessaoInv, work = NoWork, NEW n \in Names, NEW p \in Pws, NEW c \in SUBSET CapAll, NEW a \in BOOLEAN,
         a <=> accounts = << >>, a => c = CapAll
  PROVE  Kept(AuthCreate(n, p, c, a).taken, AuthCreate(n, p, c, a).work)
<1>1. CASE Len(accounts) >= UserMax \/ \E i \in DOMAIN accounts : accounts[i].name = n
  BY <1>1, KeptSame DEF AuthCreate, Left
<1>2. CASE ~(Len(accounts) >= UserMax \/ \E i \in DOMAIN accounts : accounts[i].name = n)
  <2> DEFINE x == [Account(n, NoPw, {}, FALSE) EXCEPT !.active = FALSE]
             t == Append(accounts, x)
             w == [i |-> Len(accounts) + 1, new |-> TRUE, pw |-> p, caps |-> c, admin |-> a]
  <2>1. AuthCreate(n, p, c, a).taken = t /\ AuthCreate(n, p, c, a).work = w
    BY <1>2 DEF AuthCreate, Left
  <2>2. x \in AccountSet /\ x.name = n /\ x.admin = FALSE /\ x.active = FALSE
    BY DEF Account, AccountSet
  <2> HIDE DEF x
  <2>3. accounts \in Seq(AccountSet) /\ Len(accounts) \in Nat /\ DOMAIN accounts = 1 .. Len(accounts)
    BY DEF SessaoInv, Books, StoreOK
  <2>4. /\ t \in Seq(AccountSet) /\ Len(t) = Len(accounts) + 1 /\ DOMAIN t = 1 .. Len(accounts) + 1
        /\ t[Len(accounts) + 1] = x
        /\ \A i \in DOMAIN accounts : i \in DOMAIN t /\ t[i] = accounts[i]
    BY <2>2, <2>3
  <2>5. a <=> Len(accounts) = 0
    BY <2>3
  <2> HIDE DEF t
  <2>6. Ruled(accounts, 0)
    BY DEF SessaoInv, Books, HalfOf, NoWork
  <2>7. Ruled(t, Len(accounts) + 1)
    <3> SUFFICES ASSUME NEW i \in DOMAIN t
                 PROVE  /\ t[i].admin <=> i = 1 /\ i # Len(accounts) + 1
                        /\ t[i].admin => t[i].active /\ t[i].caps = CapAll
                        /\ i = Len(accounts) + 1 => ~t[i].active
                        /\ \A j \in DOMAIN t : t[i].active /\ t[j].active /\ t[i].name = t[j].name => i = j
      BY DEF Ruled
    <3>1. \A j \in DOMAIN t : j \in DOMAIN accounts \/ j = Len(accounts) + 1
      BY <2>3, <2>4
    <3>2. CASE i \in DOMAIN accounts
      <4>1. i # Len(accounts) + 1
        BY <2>3, <3>2
      <4>2. \A j \in DOMAIN t : t[i].active /\ t[j].active /\ t[i].name = t[j].name => i = j
        BY <2>2, <2>4, <2>6, <3>1, <3>2 DEF Ruled
      <4>3. (t[i].admin <=> i = 1) /\ (t[i].admin => t[i].active /\ t[i].caps = CapAll)
        BY <2>3, <2>4, <2>6, <3>2 DEF Ruled
      <4> QED BY <4>1, <4>2, <4>3
    <3>3. CASE i = Len(accounts) + 1
      BY <2>2, <2>4, <3>3
    <3> QED BY <3>1, <3>2, <3>3
  <2>8. w \in [i : DOMAIN t, new : BOOLEAN, pw : Pws, caps : SUBSET CapAll, admin : BOOLEAN]
    BY <2>3, <2>4
  <2>9. WorkOK(t, w)
    <3>1. \A j \in DOMAIN t : t[j].name = t[Len(accounts) + 1].name => j = Len(accounts) + 1
      BY <1>2, <2>2, <2>3, <2>4
    <3>2. a <=> Len(accounts) + 1 = 1
      BY <2>3, <2>5
    <3> QED BY <2>8, <3>1, <3>2 DEF WorkOK
  <2>10. StoreOK(t)
    BY <1>2, <2>3, <2>4, Constants DEF StoreOK
  <2>11. DOMAIN accounts \subseteq DOMAIN t /\ (current \in DOMAIN accounts => t[current].active)
    BY <2>4 DEF SessaoInv, UserOK
  <2>12. HalfOf(w) = Len(accounts) + 1
    BY DEF HalfOf
  <2> HIDE DEF w
  <2> QED BY <2>1, <2>7, <2>9, <2>10, <2>11, <2>12 DEF Kept, Books
<1> QED BY <1>1, <1>2

\* An account changed in place: only its password, or deactivated while it is neither the
\* sovereign nor the user
LEMMA ChangeKeeps ==
  ASSUME SessaoInv, HalfOf(work) = 0, NEW i \in DOMAIN accounts, NEW x \in AccountSet,
         x.name = accounts[i].name, x.caps = accounts[i].caps, x.admin = accounts[i].admin,
         x.active => accounts[i].active,
         accounts[i].active /\ ~x.active => ~accounts[i].admin /\ i # current
  PROVE  LET t == [accounts EXCEPT ![i] = x]
         IN  /\ StoreOK(t) /\ Ruled(t, 0) /\ DOMAIN t = DOMAIN accounts
             /\ current \in DOMAIN accounts => t[current].active
<1> DEFINE t == [accounts EXCEPT ![i] = x]
<1>1. accounts \in Seq(AccountSet) /\ Ruled(accounts, 0) /\ Len(accounts) <= UserMax /\ 0 \notin DOMAIN accounts
  BY StoreDomain DEF SessaoInv, Books, StoreOK
<1>2. t \in Seq(AccountSet) /\ Len(t) = Len(accounts) /\ DOMAIN t = DOMAIN accounts
  BY <1>1
<1>3. t[i] = x /\ \A j \in DOMAIN accounts : j # i => t[j] = accounts[j]
  BY <1>1
<1> HIDE DEF t
<1>4. ASSUME NEW j \in DOMAIN accounts
      PROVE  /\ t[j].name = accounts[j].name /\ t[j].caps = accounts[j].caps
             /\ t[j].admin = accounts[j].admin /\ (t[j].active => accounts[j].active)
             /\ (accounts[j].active /\ ~t[j].active => ~accounts[j].admin /\ j # current)
  BY <1>3
<1>5. ASSUME NEW j \in DOMAIN accounts PROVE accounts[j].active \in BOOLEAN /\ accounts[j].admin \in BOOLEAN
  <2>1. accounts[j] \in AccountSet
    BY <1>1
  <2> QED BY <2>1 DEF AccountSet
<1>6. Ruled(t, 0)
  <2> SUFFICES ASSUME NEW j \in DOMAIN accounts
               PROVE  /\ t[j].admin <=> j = 1 /\ j # 0
                      /\ t[j].admin => t[j].active /\ t[j].caps = CapAll
                      /\ j = 0 => ~t[j].active
                      /\ \A k \in DOMAIN accounts : t[j].active /\ t[k].active /\ t[j].name = t[k].name => j = k
    BY <1>2 DEF Ruled
  <2>1. t[j].admin <=> j = 1 /\ j # 0
    BY <1>1, <1>4 DEF Ruled
  <2>2. t[j].admin => t[j].active /\ t[j].caps = CapAll
    BY <1>1, <1>4, <1>5 DEF Ruled
  <2>3. ASSUME NEW k \in DOMAIN accounts, t[j].active, t[k].active, t[j].name = t[k].name PROVE j = k
    BY <1>1, <1>4, <2>3 DEF Ruled
  <2> QED BY <1>1, <2>1, <2>2, <2>3
<1>7. current \in DOMAIN accounts => t[current].active
  BY <1>4 DEF SessaoInv, UserOK
<1> QED BY <1>1, <1>2, <1>6, <1>7 DEF StoreOK, t

\* auth_user_delete
LEMMA DeleteKeeps ==
  ASSUME SessaoInv, work = NoWork, NEW n, Find(accounts, n) # 0,
         ~accounts[Find(accounts, n)].admin, Find(accounts, n) # current
  PROVE  Kept(UserDelete(accounts, n), NoWork)
<1> DEFINE i == Find(accounts, n)
           x == [accounts[i] EXCEPT !.active = FALSE]
<1>1. accounts \in Seq(AccountSet)
  BY DEF SessaoInv, Books, StoreOK
<1>2. i \in DOMAIN accounts
  BY <1>1, FindSpec
<1>3. accounts[i] \in AccountSet
  BY <1>1, <1>2
<1> HIDE DEF i
<1>4. /\ x \in AccountSet /\ x.name = accounts[i].name /\ x.caps = accounts[i].caps
      /\ x.admin = accounts[i].admin /\ x.active = FALSE
  BY <1>3 DEF AccountSet
<1>5. UserDelete(accounts, n) = [accounts EXCEPT ![i] = x]
  BY DEF UserDelete, i
<1>6. ~accounts[i].admin /\ i # current
  BY DEF i
<1>7. HalfOf(work) = 0 /\ HalfOf(NoWork) = 0
  BY DEF HalfOf, NoWork
<1> HIDE DEF x
<1>8. LET t == [accounts EXCEPT ![i] = x]
      IN  /\ StoreOK(t) /\ Ruled(t, 0) /\ DOMAIN t = DOMAIN accounts
          /\ current \in DOMAIN accounts => t[current].active
  BY <1>2, <1>4, <1>6, <1>7, ChangeKeeps
<1> QED BY <1>5, <1>7, <1>8 DEF Kept, Books

\* auth_change_password, auth_change_password_admin up to the hash
LEMMA PasswordKeeps ==
  ASSUME SessaoInv, work = NoWork, NEW n, NEW p \in Pws
  PROVE  Kept(ChangePassword(n, p).taken, ChangePassword(n, p).work)
<1> DEFINE i == Find(accounts, n)
           x == [accounts[i] EXCEPT !.pw = NoPw]
           t == [accounts EXCEPT ![i] = x]
           w == [NoWork EXCEPT !.i = i, !.pw = p]
<1>1. accounts \in Seq(AccountSet)
  BY DEF SessaoInv, Books, StoreOK
<1>2. i \in {0} \cup DOMAIN accounts /\ 0 \notin DOMAIN accounts
  BY <1>1, FindSpec
<1>3. CASE i = 0
  <2>1. ChangePassword(n, p) = Left(accounts, NoWork)
    BY <1>3 DEF ChangePassword
  <2> QED BY <2>1, KeptSame DEF Left
<1>4. CASE i \in DOMAIN accounts
  <2>1. ChangePassword(n, p).taken = t /\ ChangePassword(n, p).work = w
    BY <1>2, <1>4 DEF ChangePassword, Left
  <2>2. accounts[i] \in AccountSet
    BY <1>1, <1>4
  <2>3. /\ w \in [i : DOMAIN accounts, new : BOOLEAN, pw : Pws, caps : SUBSET CapAll, admin : BOOLEAN]
        /\ w.new = FALSE
    BY <1>4 DEF NoWork
  <2> HIDE DEF i, w
  <2>4. /\ x \in AccountSet /\ x.name = accounts[i].name /\ x.caps = accounts[i].caps
        /\ x.admin = accounts[i].admin /\ x.active = accounts[i].active
    BY <2>2 DEF AccountSet
  <2>5. HalfOf(work) = 0 /\ HalfOf(w) = 0
    BY <2>3 DEF HalfOf, NoWork
  <2> HIDE DEF x
  <2>6. /\ StoreOK(t) /\ Ruled(t, 0) /\ DOMAIN t = DOMAIN accounts
        /\ current \in DOMAIN accounts => t[current].active
    BY <1>4, <2>4, <2>5, ChangeKeeps
  <2> HIDE DEF t
  <2>7. WorkOK(t, w)
    BY <2>3, <2>6 DEF WorkOK
  <2> QED BY <2>1, <2>5, <2>6, <2>7 DEF Kept, Books
<1> QED BY <1>2, <1>3, <1>4

\* What is written after the hash: an account half made becomes active, under a name of its own
LEMMA StoreKeeps ==
  ASSUME SessaoInv, work # NoWork
  PROVE  Kept([accounts EXCEPT ![work.i] = Stored], NoWork)
<1> DEFINE i == work.i
           t == [accounts EXCEPT ![work.i] = Stored]
<1>1. WorkOK(accounts, work) /\ StoreOK(accounts) /\ accounts \in Seq(AccountSet) /\ Ruled(accounts, HalfOf(work))
  BY DEF SessaoInv, Books, StoreOK
<1>2. /\ i \in DOMAIN accounts /\ work.new \in BOOLEAN /\ work.pw \in Pws
      /\ work.caps \in SUBSET CapAll /\ work.admin \in BOOLEAN
  BY <1>1 DEF WorkOK
<1>3. accounts[i] \in AccountSet
  BY <1>1, <1>2
<1>4. HalfOf(NoWork) = 0
  BY DEF HalfOf, NoWork
<1>5. CASE ~work.new
  <2>1. /\ Stored \in AccountSet /\ Stored.name = accounts[i].name /\ Stored.caps = accounts[i].caps
        /\ Stored.admin = accounts[i].admin /\ Stored.active = accounts[i].active
    BY <1>2, <1>3, <1>5 DEF AccountSet, Stored
  <2>2. HalfOf(work) = 0
    BY <1>5 DEF HalfOf
  <2>3. /\ StoreOK(t) /\ Ruled(t, 0) /\ DOMAIN t = DOMAIN accounts
        /\ current \in DOMAIN accounts => t[current].active
    BY <1>2, <2>1, <2>2, ChangeKeeps
  <2> QED BY <1>4, <2>3 DEF Kept, Books
<1>6. CASE work.new
  <2>1. /\ Stored \in AccountSet /\ Stored.name = accounts[i].name /\ Stored.caps = work.caps
        /\ Stored.admin = work.admin /\ Stored.active = TRUE
    BY <1>2, <1>3, <1>6 DEF AccountSet, Stored
  <2>2. t \in Seq(AccountSet) /\ Len(t) = Len(accounts) /\ DOMAIN t = DOMAIN accounts
    BY <1>1, <1>2, <2>1
  <2>3. t[i] = Stored /\ \A j \in DOMAIN accounts : j # i => t[j] = accounts[j]
    BY <1>1, <1>2
  <2>4. /\ work.admin <=> i = 1
        /\ work.admin => work.caps = CapAll
        /\ \A j \in DOMAIN accounts : accounts[j].name = accounts[i].name => j = i
    BY <1>1, <1>6 DEF WorkOK
  <2>5. Ruled(accounts, i) /\ 0 \notin DOMAIN accounts
    BY <1>1, <1>6, StoreDomain DEF HalfOf
  <2> HIDE DEF t
  <2>6. Ruled(t, 0)
    <3> SUFFICES ASSUME NEW j \in DOMAIN accounts
                 PROVE  /\ t[j].admin <=> j = 1 /\ j # 0
                        /\ t[j].admin => t[j].active /\ t[j].caps = CapAll
                        /\ j = 0 => ~t[j].active
                        /\ \A k \in DOMAIN accounts : t[j].active /\ t[k].active /\ t[j].name = t[k].name => j = k
      BY <2>2 DEF Ruled
    <3>1. ASSUME NEW k \in DOMAIN accounts PROVE t[k].name = accounts[k].name /\ (k # i => t[k].active = accounts[k].active)
      BY <2>1, <2>3
    <3>2. \A k \in DOMAIN accounts : t[j].active /\ t[k].active /\ t[j].name = t[k].name => j = k
      BY <2>4, <2>5, <3>1 DEF Ruled
    <3>3. CASE j = i
      BY <2>1, <2>3, <2>4, <2>5, <3>2, <3>3
    <3>4. CASE j # i
      <4>1. t[j] = accounts[j]
        BY <2>3, <3>4
      <4>2. (accounts[j].admin <=> j = 1) /\ (accounts[j].admin => accounts[j].active /\ accounts[j].caps = CapAll)
        BY <2>5, <3>4 DEF Ruled
      <4> QED BY <2>5, <3>2, <4>1, <4>2
    <3> QED BY <3>3, <3>4
  <2>7. current \in DOMAIN accounts => t[current].active
    BY <2>1, <2>3 DEF SessaoInv, UserOK
  <2>8. StoreOK(t)
    BY <1>1, <2>2 DEF StoreOK
  <2> QED BY <1>4, <2>2, <2>6, <2>7, <2>8 DEF Kept, Books, t
<1> QED BY <1>2, <1>5, <1>6

\* A program that may administer accounts runs only once there is a sovereign
LEMMA AdminFounded ==
  ASSUME SessaoInv, NEW p \in Progs, Allowed(p, "USER_ADMIN")
  PROVE  accounts # << >>
BY DEF SessaoInv, Unfounded, Allowed

\* The system calls a fallback makes
LEMMA KernelKeeps ==
  ASSUME SessaoInv, work = NoWork, NEW p \in Progs, NEW r
  PROVE  Kept(KernelSays(p, r).left.taken, KernelSays(p, r).left.work)
<1> DEFINE k == KernelSays(p, r).left
           first == r.op = "CREATE" /\ Len(accounts) = 0 /\ r.name \in LongNames /\ r.pw \in LongPws
           user == r.op = "CREATE_USER" /\ Allowed(p, "USER_ADMIN") /\ r.name \in LongNames /\ r.pw \in LongPws
           del == r.op = "DELETE" /\ Deletable(p, r.name)
           change == r.op = "CHANGEPW" /\ r.new \in LongPws /\ Repasswordable(p, r.name, r.pw)
<1>1. CASE first
  <2>1. k = AuthCreate(r.name, r.pw, CapAll, TRUE)
    BY <1>1 DEF KernelSays
  <2>2. accounts = << >>
    BY <1>1 DEF SessaoInv, Books, StoreOK
  <2> QED BY <1>1, <2>1, <2>2, CreateKeeps, Constants
<1>2. CASE user
  <2>1. k = AuthCreate(r.name, r.pw, CapUser, FALSE)
    BY <1>2 DEF KernelSays
  <2>2. accounts # << >> /\ CapUser \in SUBSET CapAll
    BY <1>2, AdminFounded DEF CapUser, CapAll, Bits
  <2> QED BY <1>2, <2>1, <2>2, CreateKeeps, Constants
<1>3. CASE del
  <2>1. k = Left(UserDelete(accounts, r.name), NoWork)
    BY <1>3 DEF KernelSays
  <2> QED BY <1>3, <2>1, DeleteKeeps DEF Deletable, Left
<1>4. CASE change
  <2>1. k = ChangePassword(r.name, r.new)
    BY <1>4 DEF KernelSays
  <2> QED BY <1>4, <2>1, PasswordKeeps, Constants
<1>5. CASE ~first /\ ~user /\ ~del /\ ~change
  <2>1. k = Left(accounts, NoWork)
    BY <1>5 DEF KernelSays
  <2> QED BY <2>1, KeptSame DEF Left
<1> QED BY <1>1, <1>2, <1>3, <1>4, <1>5
-----------------------------------------------------------------------------
(* Tickets *)

\* No ticket is removed, altered or opened again
TicketsOnlySpent ==
  \A i \in DOMAIN tickets : i \in DOMAIN tickets' /\ tickets'[i].name = tickets[i].name
    /\ tickets'[i].caps = tickets[i].caps /\ (tickets[i].used => tickets'[i].used)

\* auth_ticket_issue: the name's earlier tickets are spent first
LEMMA IssueKeeps ==
  ASSUME TicketsOK, NEW n \in Names, NEW c \in SUBSET CapAll, tickets' = TicketIssue(tickets, n, c)
  PROVE  TicketsOK' /\ TicketsOnlySpent
<1>1. CASE Len(tickets) >= TicketMax
  BY <1>1 DEF TicketIssue, TicketsOK, TicketsOnlySpent, OneOpenTicket
<1>2. CASE ~(Len(tickets) >= TicketMax)
  <2> DEFINE x == [name |-> n, caps |-> c, used |-> FALSE]
             spent(i) == IF tickets[i].name = n THEN [tickets[i] EXCEPT !.used = TRUE] ELSE tickets[i]
             ts == [i \in DOMAIN tickets |-> spent(i)]
  <2>1. tickets \in Seq(TicketSet) /\ Len(tickets) \in Nat /\ DOMAIN tickets = 1 .. Len(tickets)
    BY DEF TicketsOK
  <2>2. ASSUME NEW i \in DOMAIN tickets
        PROVE  /\ spent(i) \in TicketSet /\ spent(i).name = tickets[i].name /\ spent(i).caps = tickets[i].caps
               /\ spent(i).used <=> tickets[i].used \/ tickets[i].name = n
    <3>1. tickets[i] \in TicketSet
      BY <2>1
    <3> QED BY <3>1 DEF TicketSet
  <2>3. ts \in Seq(TicketSet) /\ Len(ts) = Len(tickets)
    BY <2>1, <2>2
  <2>4. x \in TicketSet /\ x.name = n /\ ~x.used
    BY DEF TicketSet
  <2>5. tickets' = Append(ts, x)
    BY <1>2 DEF TicketIssue
  <2> HIDE DEF x
  <2>6. /\ tickets' \in Seq(TicketSet) /\ Len(tickets') = Len(tickets) + 1
        /\ DOMAIN tickets' = 1 .. Len(tickets) + 1
        /\ tickets'[Len(tickets) + 1] = x
        /\ \A i \in DOMAIN tickets : tickets'[i] = ts[i]
    BY <2>1, <2>3, <2>4, <2>5
  <2>7. \A i \in DOMAIN tickets : ts[i] = spent(i)
    OBVIOUS
  <2> HIDE DEF ts, spent
  <2>8. TicketsOnlySpent
    BY <2>1, <2>2, <2>6, <2>7 DEF TicketsOnlySpent
  <2>9. OneOpenTicket'
    <3> SUFFICES ASSUME NEW i \in DOMAIN tickets', NEW j \in DOMAIN tickets',
                        ~tickets'[i].used, ~tickets'[j].used, tickets'[i].name = tickets'[j].name
                 PROVE  i = j
      BY DEF OneOpenTicket
    <3>1. \A k \in DOMAIN tickets' : k \in DOMAIN tickets \/ k = Len(tickets) + 1
      BY <2>1, <2>6
    <3>2. \A k \in DOMAIN tickets : ~tickets'[k].used => tickets'[k].name # n /\ ~tickets[k].used
      BY <2>2, <2>6, <2>7
    <3> QED BY <2>2, <2>4, <2>6, <2>7, <3>1, <3>2 DEF TicketsOK, OneOpenTicket
  <2>10. Len(tickets') <= TicketMax
    BY <1>2, <2>1, <2>6, Constants
  <2> QED BY <2>6, <2>8, <2>9, <2>10 DEF TicketsOK
<1> QED BY <1>1, <1>2

\* auth_ticket_consume: t->used = true
LEMMA SpendKeeps ==
  ASSUME TicketsOK, NEW tok \in DOMAIN tickets, tickets' = Spend(tok)
  PROVE  TicketsOK' /\ TicketsOnlySpent /\ tickets'[tok].used
<1> DEFINE x == [tickets[tok] EXCEPT !.used = TRUE]
<1>1. tickets \in Seq(TicketSet) /\ DOMAIN tickets = 1 .. Len(tickets) /\ Len(tickets) \in Nat
  BY DEF TicketsOK
<1>2. tickets[tok] \in TicketSet /\ tok # 0
  BY <1>1
<1>3. x \in TicketSet /\ x.name = tickets[tok].name /\ x.caps = tickets[tok].caps /\ x.used = TRUE
  BY <1>2 DEF TicketSet
<1>4. tickets' = [tickets EXCEPT ![tok] = x]
  BY <1>2 DEF Spend
<1> HIDE DEF x
<1>5. /\ tickets' \in Seq(TicketSet) /\ Len(tickets') = Len(tickets) /\ DOMAIN tickets' = DOMAIN tickets
      /\ tickets'[tok] = x /\ \A i \in DOMAIN tickets : i # tok => tickets'[i] = tickets[i]
  BY <1>1, <1>3, <1>4
<1>6. TicketsOnlySpent
  BY <1>3, <1>5 DEF TicketsOnlySpent
<1>7. OneOpenTicket'
  BY <1>3, <1>5 DEF TicketsOK, OneOpenTicket
<1> QED BY <1>3, <1>5, <1>6, <1>7 DEF TicketsOK

\* authd without accounts answers, and does nothing
LEMMA AuthdIdle ==
  ASSUME AuthdBare, NEW r
  PROVE  AuthdSays(r).made = << >> /\ AuthdSays(r).authed = FALSE /\ AuthdSays(r).tickets = tickets
<1>1. Find(accts, r.name) = 0
  BY DEF AuthdBare, Find
<1> QED BY <1>1, Constants DEF AuthdSays, AuthdBare, Fields, Verify

\* What SYS_SESSION_LOGIN keeps, whoever calls it
LEMMA LoginKeeps ==
  ASSUME SessaoInv, NEW p \in Progs, NEW n, NEW tok, NEW yes \in BOOLEAN, SessionLogin(p, n, tok, yes)
  PROVE  /\ UNCHANGED <<accounts, work>> /\ AuthdBare' /\ TicketsOK' /\ TicketsOnlySpent
         /\ UserOK' /\ Unfounded' /\ RightsOK'
         /\ current # 0 => current' # 0
         /\ consented = Contracts => consented' = Contracts
         /\ logins' # logins => current' # 0 /\ consented' = Contracts
         /\ starts' = starts => FirstSessionRights'
         /\ logins' # logins /\ current' = Synth =>
              \E i \in DOMAIN tickets : ~tickets[i].used /\ tickets'[i].used /\ tickets[i].name = synth'.name
<1> DEFINE i == IF tok # 0 THEN IF TicketOpen(n, tok) THEN Synth ELSE 0 ELSE Find(accounts, n)
           caps == IF i = 0 THEN {} ELSE IF tok # 0 THEN tickets[tok].caps ELSE accounts[i].caps
<1>1. /\ tickets' = IF i = 0 THEN tickets ELSE Spend(tok)
      /\ synth' = IF i = Synth THEN [name |-> n, caps |-> caps, admin |-> caps = CapAll] ELSE synth
      /\ consented' = IF i # 0 /\ yes THEN consented \cup Contracts ELSE consented
      /\ IF i # 0 /\ yes
         THEN /\ current' = i /\ logins' = logins + 1 /\ earned' = earned \cup caps
              /\ rights' = Grant(p, caps)
         ELSE UNCHANGED <<current, logins, earned, rights>>
      /\ UNCHANGED <<accounts, work, accts, authed>>
  BY Zenon DEF SessionLogin
<1>2. StoreOK(accounts) /\ accounts \in Seq(AccountSet)
  BY DEF SessaoInv, Books, StoreOK
<1>3. Synth # 0 /\ Synth \notin DOMAIN accounts /\ 0 \notin DOMAIN accounts
  BY <1>2, Constants, StoreDomain DEF Synth
<1>4. /\ TicketsOK /\ AuthdBare /\ UserOK /\ Unfounded /\ RightsOK /\ FirstSessionRights
      /\ tickets \in Seq(TicketSet)
  BY DEF SessaoInv, StartsOK, TicketsOK
<1>5. Find(accounts, n) # 0 =>
        Find(accounts, n) \in DOMAIN accounts /\ accounts[Find(accounts, n)].active
  BY <1>2, FindSpec
<1>6. tok # 0 /\ i # 0 =>
        /\ i = Synth /\ tok \in DOMAIN tickets /\ ~tickets[tok].used /\ tickets[tok].name = n
        /\ caps = tickets[tok].caps
  BY <1>3 DEF TicketOpen
<1>7. tok = 0 /\ i # 0 => i \in DOMAIN accounts /\ accounts[i].active /\ i # Synth /\ caps = accounts[i].caps
  BY <1>3, <1>5
<1>8. caps \in SUBSET CapAll
  <2>1. \A k \in DOMAIN accounts : accounts[k] \in AccountSet
    BY <1>2
  <2>2. \A k \in DOMAIN tickets : tickets[k] \in TicketSet
    BY <1>4
  <2> QED BY <1>6, <1>7, <2>1, <2>2 DEF AccountSet, TicketSet
<1>9. i = 0 => caps = {}
  OBVIOUS
<1> HIDE DEF i, caps
<1>10. TicketsOK' /\ TicketsOnlySpent
  <2>1. CASE i = 0
    BY <1>1, <1>4, <2>1 DEF TicketsOK, OneOpenTicket, TicketsOnlySpent
  <2>2. CASE i # 0 /\ tok # 0
    BY <1>1, <1>4, <1>6, <2>2, SpendKeeps
  <2>3. CASE i # 0 /\ tok = 0
    BY <1>1, <1>4, <2>3 DEF TicketsOK, OneOpenTicket, TicketsOnlySpent, Spend
  <2> QED BY <2>1, <2>2, <2>3
<1>11. i = Synth => tok \in DOMAIN tickets /\ tickets'[tok].used /\ tickets[tok].caps = caps
                    /\ tickets[tok].name = n /\ ~tickets[tok].used
  <2>1. i = Synth => tok # 0 /\ i # 0
    BY <1>3, <1>7
  <2> QED BY <1>1, <1>4, <1>6, <2>1, SpendKeeps
<1>12. i \in {0, Synth} \cup DOMAIN accounts /\ (i \in DOMAIN accounts => accounts[i].active)
  BY <1>3, <1>6, <1>7
<1>13. UserOK'
  <2>1. current' \in {current, i} /\ (current' = i \/ current' = current)
    BY <1>1
  <2>2. current' \in {0, Synth} \cup DOMAIN accounts' /\ (current' \in DOMAIN accounts' => accounts'[current'].active)
    BY <1>1, <1>4, <1>12, <2>1 DEF UserOK
  <2>3. ASSUME current' = Synth
        PROVE  \E k \in DOMAIN tickets' : tickets'[k].used /\ tickets'[k].name = synth'.name /\ tickets'[k].caps = synth'.caps
    <3>1. CASE i = Synth
      <4>1. synth'.name = n /\ synth'.caps = caps
        BY <1>1, <3>1
      <4> QED BY <1>10, <1>11, <3>1, <4>1 DEF TicketsOnlySpent
    <3>2. CASE i # Synth
      <4>1. current = Synth /\ synth' = synth
        BY <1>1, <2>1, <2>3, <3>2
      <4> QED BY <1>4, <1>10, <4>1 DEF UserOK, TicketsOnlySpent
    <3> QED BY <3>1, <3>2
  <2> QED BY <2>2, <2>3 DEF UserOK
<1>14. rights' \in [Progs -> SUBSET CapAll] /\ \A q \in Progs : rights'[q] \subseteq rights[q] \cup caps
  BY <1>1, <1>4, <1>8 DEF RightsOK, Grant
<1>15. Unfounded'
  <2> SUFFICES ASSUME accounts = << >> PROVE current' = 0 /\ tickets' = << >> /\ \A q \in Progs : "USER_ADMIN" \notin rights'[q]
    BY <1>1 DEF Unfounded
  <2>1. current = 0 /\ tickets = << >> /\ \A q \in Progs : "USER_ADMIN" \notin rights[q]
    BY <1>4 DEF Unfounded
  <2>2. i = 0
    BY <1>6, <1>7, <2>1
  <2> QED BY <1>1, <2>1, <2>2
<1>16. RightsOK' /\ (consented = Contracts => consented' = Contracts) /\ (i # 0 /\ yes => consented' = Contracts)
  BY <1>1, <1>4, <1>14 DEF RightsOK
<1>17. starts' = starts => FirstSessionRights'
  <2>1. earned \cup caps \subseteq earned' \/ (earned' = earned /\ rights' = rights)
    BY <1>1
  <2> QED BY <1>1, <1>4, <1>14, <2>1 DEF FirstSessionRights
<1>18. logins' # logins => i # 0 /\ yes /\ current' = i
  BY <1>1
<1>19. current # 0 => current' # 0
  BY <1>1
<1>20. logins' # logins /\ current' = Synth =>
         \E k \in DOMAIN tickets : ~tickets[k].used /\ tickets'[k].used /\ tickets[k].name = synth'.name
  BY <1>1, <1>11, <1>18
<1> QED BY <1>1, <1>4, <1>10, <1>13, <1>15, <1>16, <1>17, <1>18, <1>19, <1>20 DEF AuthdBare
-----------------------------------------------------------------------------
(* The steps *)

\* Steps that leave the session alone, and change the kernel's accounts at most
LEMMA AccountsStep ==
  ASSUME SessaoInv, NEW t, NEW w, accounts' = t, work' = w, Kept(t, w),
         UNCHANGED <<accts, authed, tickets, session, starts>>,
         PlaceOK', starts = 0 => at' = "off" /\ call' = NoCall
  PROVE  SessaoInv'
<1>1. StoreOK(accounts) /\ StoreOK(t) /\ Books(t, w)
  BY DEF SessaoInv, Kept, Books
<1>2. 0 \notin DOMAIN t /\ Synth \notin DOMAIN t
  BY <1>1, StoreDomain
<1>3. Books(accounts, work)'
  BY <1>1 DEF Books, StoreOK, Ruled, HalfOf, WorkOK
<1>4. AuthdBare' /\ TicketsOK' /\ RightsOK'
  BY DEF SessaoInv, AuthdBare, TicketsOK, OneOpenTicket, RightsOK, session
<1>5. UserOK'
  <2>1. UserOK /\ DOMAIN accounts \subseteq DOMAIN t /\ (current \in DOMAIN accounts => t[current].active)
    BY DEF SessaoInv, Kept
  <2> QED BY <1>2, <2>1 DEF UserOK, session
<1>6. Unfounded'
  <2>1. t = << >> => accounts = << >>
    <3> SUFFICES ASSUME t = << >> PROVE accounts = << >>
      OBVIOUS
    <3>1. DOMAIN t = {}
      OBVIOUS
    <3>2. DOMAIN accounts = {} /\ accounts \in Seq(AccountSet)
      BY <3>1 DEF Kept, SessaoInv, Books, StoreOK
    <3>3. Len(accounts) = 0
      BY <3>2
    <3> QED BY <3>2, <3>3, EmptySeq
  <2> QED BY <2>1 DEF SessaoInv, Unfounded, session
<1>7. StartsOK'
  BY DEF SessaoInv, StartsOK, FirstSessionRights, session
<1> QED BY <1>3, <1>4, <1>5, <1>6, <1>7 DEF SessaoInv

LEMMA QuietStep ==
  ASSUME SessaoInv, UNCHANGED <<stores, session, starts>>,
         PlaceOK', starts = 0 => at' = "off" /\ call' = NoCall
  PROVE  SessaoInv'
BY AccountsStep, KeptSame DEF stores

\* authd
LEMMA ServeStep == ASSUME SessaoInv, Serve PROVE SessaoInv' /\ UNCHANGED stores
<1>1. AuthdBare
  BY DEF SessaoInv
<1>2. UNCHANGED <<stores, session, call, at, starts>>
  BY <1>1, AuthdIdle DEF Serve, AuthdBare, stores
<1> QED BY <1>2, QuietStep DEF SessaoInv, PlaceOK, StartsOK, stores, session

LEMMA ResumePlace ==
  ASSUME SessaoInv, call # NoCall, NEW result, NEW tok, Resume(result, tok), UNCHANGED session, work' = NoWork
  PROVE  PlaceOK' /\ starts # 0 /\ call' = NoCall
<1>1. at \in {"count", "bootstrap", "login", "shell"} /\ starts # 0
  BY DEF SessaoInv, PlaceOK, StartsOK
<1>2. call' = NoCall /\ at' \in {"bootstrap", "login", "ask", at}
  BY DEF Resume
<1> QED BY <1>1, <1>2 DEF SessaoInv, PlaceOK, session

LEMMA FallBackStep ==
  ASSUME SessaoInv, work = NoWork, call # NoCall, FallBack, UNCHANGED <<session, starts>>
  PROVE  SessaoInv' /\ UNCHANGED tickets
<1>1. Prog \in Progs
  BY DEF Prog, Progs
<1>2. /\ accounts' = KernelSays(Prog, call).left.taken /\ work' = KernelSays(Prog, call).left.work
      /\ IF work' = NoWork THEN Resume(KernelSays(Prog, call).result, KernelSays(Prog, call).tok)
                           ELSE UNCHANGED <<call, at, form>>
      /\ UNCHANGED <<accts, authed, tickets>>
  BY DEF FallBack
<1>3. Kept(KernelSays(Prog, call).left.taken, KernelSays(Prog, call).left.work)
  BY <1>1, KernelKeeps
<1>4. PlaceOK' /\ starts # 0
  <2>1. CASE work' = NoWork
    BY <1>2, <2>1, ResumePlace
  <2>2. CASE work' # NoWork
    BY <1>2, <2>2 DEF SessaoInv, PlaceOK, StartsOK, session
  <2> QED BY <2>1, <2>2
<1> QED BY <1>2, <1>3, <1>4, AccountsStep

LEMMA AnswerStep == ASSUME SessaoInv, work = NoWork, Answer PROVE SessaoInv' /\ UNCHANGED tickets
<1>1. CASE Head(box).op = call.op
  BY <1>1, ResumePlace, QuietStep DEF Answer, stores
<1>2. CASE Head(box).op # call.op
  BY <1>2, FallBackStep DEF Answer
<1> QED BY <1>1, <1>2

LEMMA GiveUpStep == ASSUME SessaoInv, work = NoWork, GiveUp PROVE SessaoInv' /\ UNCHANGED tickets
BY FallBackStep DEF GiveUp

\* The rest of a call cut at its hash
LEMMA StoreStep == ASSUME SessaoInv, Store PROVE SessaoInv' /\ UNCHANGED <<tickets, logins>>
<1>1. /\ work # NoWork /\ accounts' = [accounts EXCEPT ![work.i] = Stored] /\ work' = NoWork
      /\ IF call # NoCall THEN Resume(1, 0)
                          ELSE at' = (IF at = "kboot" THEN "klogin" ELSE at) /\ UNCHANGED <<call, form>>
      /\ UNCHANGED <<accts, authed, tickets, session, starts, logins>>
  BY DEF Store
<1>2. Kept([accounts EXCEPT ![work.i] = Stored], NoWork)
  BY <1>1, StoreKeeps
<1>3. PlaceOK' /\ starts # 0
  <2>1. CASE call # NoCall
    BY <1>1, <2>1, ResumePlace
  <2>2. CASE call = NoCall
    <3>1. at \in {"kboot", "kshell"} /\ at' \in {"klogin", "kshell"} /\ (at' = "kshell" => at = "kshell")
      BY <1>1, <2>2 DEF SessaoInv, PlaceOK
    <3> QED BY <1>1, <2>2, <3>1 DEF SessaoInv, PlaceOK, StartsOK, session
  <2> QED BY <2>1, <2>2
<1> QED BY <1>1, <1>2, <1>3, AccountsStep

LEMMA CallStep ==
  ASSUME SessaoInv, work = NoWork, NEW r, Call(r), at \in {"count", "bootstrap", "login", "shell"}
  PROVE  SessaoInv' /\ UNCHANGED <<tickets, logins>>
<1>1. UNCHANGED <<stores, session, at, starts, logins>> /\ starts # 0
  BY DEF Call, SessaoInv, StartsOK
<1>2. PlaceOK'
  BY <1>1 DEF SessaoInv, PlaceOK, stores, session
<1> QED BY <1>1, <1>2, QuietStep DEF stores

LEMMA StartStep == ASSUME SessaoInv, NEW ok \in BOOLEAN, Start(ok) PROVE SessaoInv'
<1>1. /\ at = "off" /\ starts' = starts + 1 /\ earned' = {} /\ call' = call
      /\ at' \in {"count", "kboot", "klogin"} /\ (at' = "kboot" => accounts = << >>)
      /\ UNCHANGED <<stores, current, synth, consented>>
  BY DEF Start, wires
<1>2. rights' = rights \/ rights' = [rights EXCEPT !["session"] = Inherit(CapAll)]
  BY DEF Start
<1>3. /\ Inherit(CapAll) \in SUBSET CapAll
      /\ current = 0 => Inherit(CapAll) = CapBase
  BY DEF Inherit, CapAll, CapBase, Bits
<1>4. rights \in [Progs -> SUBSET CapAll]
  BY DEF SessaoInv, RightsOK
<1>5. RightsOK' /\ \A p \in Progs : rights'[p] = rights[p] \/ rights'[p] = Inherit(CapAll)
  BY <1>1, <1>2, <1>3, <1>4 DEF SessaoInv, RightsOK, Progs
<1>6. PlaceOK'
  BY <1>1 DEF SessaoInv, PlaceOK, stores
<1>7. StartsOK'
  <2>1. starts' \in Nat /\ starts' # 0 /\ (starts' = 1 => starts = 0)
    BY <1>1 DEF SessaoInv, StartsOK
  <2>2. starts = 0 => current = 0 /\ \A p \in Progs : rights[p] = {}
    BY DEF SessaoInv, StartsOK
  <2> QED BY <1>3, <1>5, <2>1, <2>2 DEF StartsOK, FirstSessionRights
<1>8. Unfounded'
  <2>1. accounts = << >> => current = 0 /\ tickets = << >> /\ \A p \in Progs : "USER_ADMIN" \notin rights[p]
    BY DEF SessaoInv, Unfounded
  <2>2. "USER_ADMIN" \notin CapBase
    BY DEF CapBase
  <2> QED BY <1>1, <1>3, <1>5, <2>1, <2>2 DEF Unfounded, stores
<1>9. Books(accounts, work)' /\ AuthdBare' /\ TicketsOK' /\ UserOK'
  BY <1>1, BooksSame DEF SessaoInv, AuthdBare, TicketsOK, OneOpenTicket, UserOK, stores
<1> QED BY <1>5, <1>6, <1>7, <1>8, <1>9 DEF SessaoInv

\* Programs started by others get their parent's rights, the base rights, or none
LEMMA RightsStep ==
  ASSUME SessaoInv, UNCHANGED <<stores, current, synth, consented, earned, call, starts>>, starts # 0, PlaceOK',
         rights' \in [Progs -> SUBSET CapAll],
         \A p \in Progs : \E q \in Progs : rights'[p] \subseteq CapBase \cup rights[q]
  PROVE  SessaoInv'
<1>1. "USER_ADMIN" \notin CapBase
  BY DEF CapBase
<1>2. Books(accounts, work)' /\ AuthdBare' /\ TicketsOK' /\ UserOK'
  BY BooksSame DEF SessaoInv, AuthdBare, TicketsOK, OneOpenTicket, UserOK, stores
<1>3. Unfounded'
  BY <1>1 DEF SessaoInv, Unfounded, stores
<1>4. RightsOK'
  BY DEF SessaoInv, RightsOK
<1>5. StartsOK'
  BY DEF SessaoInv, StartsOK, FirstSessionRights
<1> QED BY <1>2, <1>3, <1>4, <1>5 DEF SessaoInv

LEMMA InheritType == ASSUME NEW R \in SUBSET CapAll PROVE Inherit(R) \in SUBSET CapAll /\ Inherit(R) \subseteq CapBase \cup R
BY DEF Inherit, CapBase, CapAll, Bits

LEMMA RightsFacts == ASSUME SessaoInv PROVE rights \in [Progs -> SUBSET CapAll] /\ (at # "off" => starts # 0)
BY DEF SessaoInv, RightsOK, StartsOK

LEMMA EnterStep == ASSUME SessaoInv, NEW ok \in BOOLEAN, Enter(ok) PROVE SessaoInv'
<1>1. UNCHANGED <<stores, current, synth, consented, earned, call, starts>> /\ starts # 0
  BY RightsFacts DEF Enter
<1>2. PlaceOK'
  BY DEF Enter, SessaoInv, PlaceOK, stores
<1>3. Inherit(rights["session"]) \in SUBSET CapAll /\ Inherit(rights["session"]) \subseteq CapBase \cup rights["session"]
  BY RightsFacts, InheritType DEF Progs
<1>4. rights' = rights \/ rights' = [rights EXCEPT !["shell"] = Inherit(rights["session"])]
  BY DEF Enter
<1>5. rights' \in [Progs -> SUBSET CapAll] /\ \A p \in Progs : \E q \in Progs : rights'[p] \subseteq CapBase \cup rights[q]
  BY <1>3, <1>4, RightsFacts DEF Progs
<1> QED BY <1>1, <1>2, <1>5, RightsStep

LEMMA ExitStep == ASSUME SessaoInv, Exit PROVE SessaoInv'
<1>1. UNCHANGED <<stores, current, synth, consented, earned, call, starts>> /\ starts # 0
  BY RightsFacts DEF Exit
<1>2. PlaceOK'
  BY DEF Exit, SessaoInv, PlaceOK, stores
<1>3. rights' = [p \in Progs |-> {}]
  BY DEF Exit
<1> QED BY <1>1, <1>2, <1>3, RightsStep

LEMMA RunAppStep == ASSUME SessaoInv, RunApp PROVE SessaoInv'
<1>1. UNCHANGED <<stores, current, synth, consented, earned, call, starts>> /\ starts # 0
  BY RightsFacts DEF RunApp, wires
<1>2. PlaceOK'
  BY DEF RunApp, SessaoInv, PlaceOK, stores, wires
<1>3. Inherit(rights["shell"]) \in SUBSET CapAll /\ Inherit(rights["shell"]) \subseteq CapBase \cup rights["shell"]
  BY RightsFacts, InheritType DEF Progs
<1>4. rights' = [rights EXCEPT !["app"] = Inherit(rights["shell"])]
  BY DEF RunApp
<1>5. rights' \in [Progs -> SUBSET CapAll] /\ \A p \in Progs : \E q \in Progs : rights'[p] \subseteq CapBase \cup rights[q]
  BY <1>3, <1>4, RightsFacts DEF Progs
<1> QED BY <1>1, <1>2, <1>5, RightsStep

LEMMA AppEndsStep == ASSUME SessaoInv, AppEnds PROVE SessaoInv'
<1>1. UNCHANGED <<stores, current, synth, consented, earned, call, starts>> /\ starts # 0
  BY RightsFacts DEF AppEnds, wires
<1>2. PlaceOK'
  BY DEF AppEnds, SessaoInv, PlaceOK, stores, wires
<1>3. rights' = [rights EXCEPT !["app"] = {}]
  BY DEF AppEnds
<1>4. rights' \in [Progs -> SUBSET CapAll] /\ \A p \in Progs : \E q \in Progs : rights'[p] \subseteq CapBase \cup rights[q]
  BY <1>3, RightsFacts DEF Progs
<1> QED BY <1>1, <1>2, <1>4, RightsStep

\* A program redeems a ticket or logs in by name
LEMMA LoginStep ==
  ASSUME SessaoInv, NEW p \in Progs, NEW n, NEW tok, NEW yes \in BOOLEAN, SessionLogin(p, n, tok, yes),
         UNCHANGED <<wires, starts>>, at \in {"ask", "app"},
         at' = "app" \/ at' = "login" \/ (at' = "enter" /\ logins' # logins), at' = "app" => at = "app"
  PROVE  SessaoInv'
<1>1. /\ UNCHANGED <<accounts, work>> /\ AuthdBare' /\ TicketsOK' /\ UserOK' /\ Unfounded' /\ RightsOK' /\ FirstSessionRights'
      /\ current # 0 => current' # 0
      /\ consented = Contracts => consented' = Contracts
      /\ logins' # logins => current' # 0 /\ consented' = Contracts
  BY LoginKeeps
<1>2. Books(accounts, work)'
  BY <1>1, BooksSame
<1>3. PlaceOK'
  BY <1>1 DEF SessaoInv, PlaceOK, wires
<1>4. StartsOK'
  BY <1>1 DEF SessaoInv, StartsOK
<1> QED BY <1>1, <1>2, <1>3, <1>4 DEF SessaoInv

LEMMA AcceptStep == ASSUME SessaoInv, Accept PROVE SessaoInv'
BY LoginStep DEF Accept, Progs

LEMMA AppLogsInStep ==
  ASSUME SessaoInv, NEW n \in Names, NEW tok, NEW yes \in BOOLEAN, AppLogsIn(n, tok, yes)
  PROVE  SessaoInv'
BY LoginStep DEF AppLogsIn, Progs

LEMMA AppIssuesStep ==
  ASSUME SessaoInv, NEW n \in Names, NEW c \in {CapAll, CapUser}, AppIssues(n, c)
  PROVE  SessaoInv' /\ TicketsOnlySpent
<1>1. TicketsOK' /\ TicketsOnlySpent
  <2>1. TicketsOK /\ tickets' = TicketIssue(tickets, n, c) /\ c \in SUBSET CapAll
    BY DEF SessaoInv, AppIssues, CapAll, CapUser, Bits
  <2> QED BY <2>1, IssueKeeps
<1>2. accounts # << >>
  BY AdminFounded DEF AppIssues, Progs
<1>3. Books(accounts, work)' /\ AuthdBare' /\ RightsOK'
  BY BooksSame DEF AppIssues, SessaoInv, AuthdBare, RightsOK, session
<1>4. UserOK'
  BY <1>1 DEF AppIssues, SessaoInv, UserOK, TicketsOnlySpent, session
<1>5. Unfounded'
  BY <1>2 DEF AppIssues, Unfounded
<1>6. PlaceOK' /\ StartsOK'
  BY DEF AppIssues, SessaoInv, PlaceOK, StartsOK, FirstSessionRights, session, wires
<1> QED BY <1>1, <1>3, <1>4, <1>5, <1>6 DEF SessaoInv

\* Ring 0
LEMMA KBootstrapStep ==
  ASSUME SessaoInv, work = NoWork, NEW n \in Names, NEW p \in Pws, KBootstrap(n, p)
  PROVE  SessaoInv'
<1>1. accounts = << >> /\ call = NoCall /\ starts # 0
  BY DEF KBootstrap, SessaoInv, PlaceOK, StartsOK
<1>2. Kept(AuthCreate(n, p, CapAll, TRUE).taken, AuthCreate(n, p, CapAll, TRUE).work)
  BY <1>1, CreateKeeps
<1>3. AuthCreate(n, p, CapAll, TRUE).taken = accounts \/ AuthCreate(n, p, CapAll, TRUE).work # NoWork
  <2>1. Len(accounts) + 1 # 0
    BY <1>1
  <2> QED BY <2>1 DEF AuthCreate, Left, NoWork
<1>4. at = "kboot" /\ at' = at /\ call' = call
  BY DEF KBootstrap, wires
<1>5. accounts' = AuthCreate(n, p, CapAll, TRUE).taken /\ work' = AuthCreate(n, p, CapAll, TRUE).work
  BY DEF KBootstrap, Writes
<1>6. PlaceOK'
  BY <1>1, <1>3, <1>4, <1>5 DEF PlaceOK
<1> QED BY <1>1, <1>2, <1>4, <1>5, <1>6, AccountsStep DEF KBootstrap

LEMMA KUserAddStep ==
  ASSUME SessaoInv, work = NoWork, NEW n \in Names, NEW p \in Pws, KUserAdd(n, p)
  PROVE  SessaoInv'
<1>1. accounts # << >> /\ starts # 0
  BY DEF KUserAdd, IsAdmin, SessaoInv, Unfounded, StartsOK
<1>2. CapUser \ {"FS_READ"} \in SUBSET CapAll
  BY DEF CapUser, CapAll, Bits
<1>3. Kept(AuthCreate(n, p, CapUser \ {"FS_READ"}, FALSE).taken, AuthCreate(n, p, CapUser \ {"FS_READ"}, FALSE).work)
  BY <1>1, <1>2, CreateKeeps
<1>4. PlaceOK'
  BY DEF KUserAdd, SessaoInv, PlaceOK, wires, session
<1> QED BY <1>1, <1>3, <1>4, AccountsStep DEF KUserAdd, Writes, session

LEMMA KPasswdStep ==
  ASSUME SessaoInv, work = NoWork, NEW p \in Pws, NEW q \in Pws, KPasswd(p, q)
  PROVE  SessaoInv'
<1> DEFINE l == ChangePassword(User(current).name, q)
<1>1. accounts' = l.taken /\ work' = l.work /\ starts # 0
  BY DEF KPasswd, Writes, SessaoInv, StartsOK
<1>2. Kept(l.taken, l.work)
  BY PasswordKeeps
<1> HIDE DEF l
<1>3. PlaceOK'
  BY DEF KPasswd, SessaoInv, PlaceOK, wires, session
<1> QED BY <1>1, <1>2, <1>3, AccountsStep DEF KPasswd, session

LEMMA KLoginStep ==
  ASSUME SessaoInv, NEW n \in Names, NEW p \in Pws, KLogin(n, p)
  PROVE  SessaoInv'
<1>1. Find(accounts, n) \in DOMAIN accounts /\ accounts[Find(accounts, n)].active /\ Find(accounts, n) # 0
  BY FindSpec DEF KLogin, Verify, SessaoInv, Books, StoreOK
<1>2. Find(accounts, n) # Synth
  BY <1>1, StoreDomain DEF SessaoInv, Books
<1>3. current' = Find(accounts, n) /\ at = "klogin" /\ at' = "kask"
      /\ UNCHANGED <<stores, consented, rights, earned, call, starts>>
  BY DEF KLogin, wires
<1>4. accounts # << >> /\ call = NoCall /\ starts # 0
  BY <1>1, <1>3 DEF SessaoInv, PlaceOK, StartsOK
<1>5. Books(accounts, work)' /\ AuthdBare' /\ TicketsOK' /\ RightsOK'
  BY <1>3, BooksSame DEF SessaoInv, AuthdBare, TicketsOK, OneOpenTicket, RightsOK, stores
<1>6. UserOK' /\ Unfounded' /\ PlaceOK' /\ StartsOK'
  BY <1>1, <1>2, <1>3, <1>4 DEF UserOK, Unfounded, PlaceOK, SessaoInv, StartsOK, FirstSessionRights, stores
<1> QED BY <1>5, <1>6 DEF SessaoInv

LEMMA KAnswerStep == ASSUME SessaoInv, NEW yes \in BOOLEAN, KAnswer(yes) PROVE SessaoInv'
<1>1. Asked # {} /\ Asked \in SUBSET Nat /\ Asked \subseteq Contracts
  BY Constants DEF KAnswer, Asked
<1>2. Min(Asked) \in Contracts
  BY <1>1, MinInSet
<1>3. at = "kask" /\ UNCHANGED <<stores, synth, rights, earned, call, starts>>
  BY DEF KAnswer, wires
<1>4. \/ current' = current /\ at' = at /\ consented' = consented \cup {Min(Asked)}
      \/ current' = 0 /\ at' = "klogin" /\ consented' = consented
  BY DEF KAnswer
<1>5. call = NoCall /\ starts # 0 /\ Synth # 0 /\ 0 \notin DOMAIN accounts
  BY <1>3, Constants, StoreDomain DEF SessaoInv, Books, PlaceOK, StartsOK, Synth
<1>6. Books(accounts, work)' /\ AuthdBare' /\ TicketsOK'
  BY <1>3, BooksSame DEF SessaoInv, AuthdBare, TicketsOK, OneOpenTicket, stores
<1>7. RightsOK'
  BY <1>2, <1>3, <1>4 DEF SessaoInv, RightsOK
<1>8. UserOK' /\ Unfounded'
  BY <1>3, <1>4, <1>5 DEF SessaoInv, UserOK, Unfounded, stores
<1>9. PlaceOK' /\ StartsOK'
  BY <1>3, <1>4, <1>5 DEF SessaoInv, PlaceOK, StartsOK, FirstSessionRights, stores
<1> QED BY <1>6, <1>7, <1>8, <1>9 DEF SessaoInv

\* KEnter: nothing is left to ask about, so every contract has been accepted
LEMMA KEnterStep == ASSUME SessaoInv, KEnter PROVE SessaoInv'
<1>1. at = "kask" /\ at' = "kshell" /\ UNCHANGED <<stores, session, starts, call>> /\ consented = Contracts
  BY DEF KEnter, Asked, wires, SessaoInv, RightsOK
<1>2. PlaceOK' /\ starts # 0
  BY <1>1 DEF SessaoInv, PlaceOK, StartsOK, stores, session
<1> QED BY <1>1, <1>2, QuietStep

LEMMA OtherSteps ==
  ASSUME SessaoInv, (work = NoWork /\ (ReadKey \/ Refuse \/ KExit)) \/ UNCHANGED vars
  PROVE  SessaoInv' /\ UNCHANGED <<stores, logins>>
<1>1. UNCHANGED <<stores, session, starts, logins, call>>
      /\ (at' = at \/ (work = NoWork /\ at \in {"ask", "kshell"} /\ at' \in {"login", "klogin"}))
  <2>1. CASE ReadKey
    BY <2>1 DEF ReadKey
  <2>2. CASE work = NoWork /\ Refuse
    BY <2>2 DEF Refuse, wires
  <2>3. CASE work = NoWork /\ KExit
    BY <2>3 DEF KExit, wires
  <2>4. CASE UNCHANGED vars
    BY <2>4 DEF vars, wires
  <2> QED BY <2>1, <2>2, <2>3, <2>4
<1>2. PlaceOK' /\ (starts = 0 => at' = "off" /\ call' = NoCall)
  BY <1>1 DEF SessaoInv, PlaceOK, StartsOK, stores, session
<1> QED BY <1>1, <1>2, QuietStep
-----------------------------------------------------------------------------
(* The theorems *)

LEMMA SessaoInit == Init => SessaoInv
<1> SUFFICES ASSUME Init PROVE SessaoInv
  OBVIOUS
<1>1. Books(accounts, work)
  BY Constants, EmptySeq DEF Init, Books, StoreOK, Ruled, HalfOf
<1>2. TicketsOK
  BY Constants, EmptySeq DEF Init, TicketsOK, OneOpenTicket
<1>3. AuthdBare /\ Unfounded /\ RightsOK /\ PlaceOK /\ StartsOK
  BY DEF Init, AuthdBare, Unfounded, RightsOK, PlaceOK, StartsOK, FirstSessionRights
<1>4. UserOK
  BY Constants DEF Init, UserOK, Synth
<1> QED BY <1>1, <1>2, <1>3, <1>4 DEF SessaoInv

\* What a step does to the tickets: none is altered or opened again, and a login that ends with
\* synth_user spends one
SpendsTicket ==
  /\ logins' # logins /\ current' = Synth =>
       \E i \in DOMAIN tickets : ~tickets[i].used /\ tickets'[i].used /\ tickets[i].name = synth'.name
  /\ TicketsOnlySpent

LEMMA SpendsNothing == ASSUME UNCHANGED <<tickets, logins>> PROVE SpendsTicket
BY DEF SpendsTicket, TicketsOnlySpent

LEMMA ClientStep == ASSUME SessaoInv, work = NoWork, Client PROVE SessaoInv' /\ SpendsTicket
<1>2. CASE Answer
  BY <1>2, AnswerStep, SpendsNothing DEF Answer
<1>3. CASE GiveUp
  BY <1>3, GiveUpStep, SpendsNothing DEF GiveUp
<1>4. ASSUME NEW ok \in BOOLEAN, Start(ok) PROVE SessaoInv' /\ SpendsTicket
  BY <1>4, StartStep, SpendsNothing DEF Start, stores
<1>5. ASSUME NEW ok \in BOOLEAN, Enter(ok) PROVE SessaoInv' /\ SpendsTicket
  BY <1>5, EnterStep, SpendsNothing DEF Enter, stores
<1>6. CASE Count
  BY <1>6, CallStep, SpendsNothing DEF Count
<1>7. CASE Accept
  <2>1. SessionLogin("session", form.name, form.tok, TRUE) /\ "session" \in Progs
    BY <1>7 DEF Accept, Progs
  <2>2. SpendsTicket
    BY <2>1, LoginKeeps DEF SpendsTicket
  <2> QED BY <1>7, <2>2, AcceptStep
<1>8. CASE Exit
  BY <1>8, ExitStep, SpendsNothing DEF Exit, stores
<1>9. ASSUME NEW n \in Names, NEW p \in Pws, Bootstrap(n, p) \/ Login(n, p) \/ UserAdd(n, p)
      PROVE SessaoInv' /\ SpendsTicket
  BY <1>9, CallStep, SpendsNothing DEF Bootstrap, Login, UserAdd
<1>10. ASSUME NEW n \in Names, NEW p \in Pws, KBootstrap(n, p) \/ KUserAdd(n, p) PROVE SessaoInv' /\ SpendsTicket
  BY <1>10, KBootstrapStep, KUserAddStep, SpendsNothing DEF KBootstrap, KUserAdd
<1>11. ASSUME NEW n \in Names, NEW p \in Pws, KLogin(n, p) PROVE SessaoInv' /\ SpendsTicket
  <2>1. Find(accounts, n) # Synth /\ current' = Find(accounts, n) /\ UNCHANGED tickets
    BY <1>11, FindSpec, StoreDomain, Constants DEF KLogin, SessaoInv, Books, StoreOK, Synth, stores
  <2>2. SpendsTicket
    BY <2>1 DEF SpendsTicket, TicketsOnlySpent
  <2> QED BY <1>11, <2>2, KLoginStep
<1>12. ASSUME NEW n \in Names, UserDel(n) PROVE SessaoInv' /\ SpendsTicket
  BY <1>12, CallStep, SpendsNothing DEF UserDel
<1>13. ASSUME NEW n \in Names, NEW p \in Pws, NEW q \in Pws, Passwd(n, p, q) PROVE SessaoInv' /\ SpendsTicket
  BY <1>13, CallStep, SpendsNothing DEF Passwd
<1>14. CASE RunApp
  BY <1>14, RunAppStep, SpendsNothing DEF RunApp, stores
<1>15. CASE AppEnds
  BY <1>15, AppEndsStep, SpendsNothing DEF AppEnds, stores
<1>16. ASSUME NEW n \in Names, NEW c \in {CapAll, CapUser}, AppIssues(n, c) PROVE SessaoInv' /\ SpendsTicket
  BY <1>16, AppIssuesStep DEF SpendsTicket, AppIssues
<1>17. ASSUME NEW n \in Names, NEW tok \in 0 .. Len(tickets), NEW yes \in BOOLEAN, AppLogsIn(n, tok, yes)
       PROVE SessaoInv' /\ SpendsTicket
  <2>1. SessionLogin("app", n, tok, yes) /\ "app" \in Progs
    BY <1>17 DEF AppLogsIn, Progs
  <2>2. SpendsTicket
    BY <2>1, LoginKeeps DEF SpendsTicket
  <2> QED BY <1>17, <2>2, AppLogsInStep
<1>18. ASSUME NEW yes \in BOOLEAN, KAnswer(yes) PROVE SessaoInv' /\ SpendsTicket
  BY <1>18, KAnswerStep, SpendsNothing DEF KAnswer, stores
<1>19. CASE KEnter
  BY <1>19, KEnterStep, SpendsNothing DEF KEnter, stores
<1>20. ASSUME NEW p \in Pws, NEW q \in Pws, KPasswd(p, q) PROVE SessaoInv' /\ SpendsTicket
  BY <1>20, KPasswdStep, SpendsNothing DEF KPasswd
<1>21. CASE ReadKey \/ Refuse \/ KExit
  BY <1>21, OtherSteps, SpendsNothing DEF stores
<1> QED BY <1>2, <1>3, <1>4, <1>5, <1>6, <1>7, <1>8, <1>9, <1>10, <1>11, <1>12, <1>13, <1>14,
           <1>15, <1>16, <1>17, <1>18, <1>19, <1>20, <1>21, Zenon DEF Client

LEMMA SessaoStep == ASSUME SessaoInv, [Next]_vars PROVE SessaoInv' /\ SpendsTicket
<1>1. CASE Serve
  BY <1>1, ServeStep, SpendsNothing DEF stores, Serve
<1>2. CASE Store
  BY <1>2, StoreStep, SpendsNothing
<1>3. CASE work = NoWork /\ Client
  BY <1>3, ClientStep
<1>4. CASE UNCHANGED vars
  BY <1>4, OtherSteps, SpendsNothing DEF stores
<1> QED BY <1>1, <1>2, <1>3, <1>4 DEF Next

LEMMA SessaoInvariant == Spec => []SessaoInv
<1>1. SessaoInv /\ [Next]_vars => SessaoInv'
  BY SessaoStep
<1> QED BY <1>1, SessaoInit, PTL DEF Spec

\* The tables of accounts and tickets never exceed their limits, and current_user always points
\* at an account or at synth_user, for any number of names, passwords, contracts and logins
THEOREM SessaoTypes == Spec => []TypeOK
<1>1. SessaoInv => TypeOK
  <2> SUFFICES ASSUME SessaoInv PROVE TypeOK
    OBVIOUS
  <2>1. accounts \in Seq(AccountSet) /\ Len(accounts) <= UserMax /\ accts \in Seq(AccountSet) /\ Len(accts) <= UserMax
    BY Constants, EmptySeq DEF SessaoInv, Books, StoreOK, AuthdBare
  <2>2. Len(tickets) <= TicketMax /\ \A i \in DOMAIN tickets : tickets[i] \in TicketSet
    BY DEF SessaoInv, TicketsOK
  <2>3. \A i \in DOMAIN tickets : tickets[i].name \in Names /\ tickets[i].caps \subseteq CapAll
    BY <2>2 DEF TicketSet
  <2>4. work \in {NoWork} \cup WorkSet
    BY DEF SessaoInv, Books, WorkOK, WorkSet
  <2> QED BY <2>1, <2>2, <2>3, <2>4 DEF SessaoInv, UserOK, RightsOK, TypeOK
<1> QED BY <1>1, SessaoInvariant, PTL

\* auth.c, authd.c: the first account of a store, and no other, is the sovereign, with every
\* capability and never deactivated; active accounts have different names
THEOREM SovereignStays == Spec => []SovereignKept
<1>1. SessaoInv => SovereignKept
  <2> SUFFICES ASSUME SessaoInv PROVE Ruled(accounts, HalfOf(work)) /\ Ruled(accts, 0)
    BY DEF SovereignKept, Half, HalfOf
  <2> QED BY DEF SessaoInv, Books, AuthdBare, Ruled
<1> QED BY <1>1, SessaoInvariant, PTL

\* auth_ticket_issue revokes before it issues: a name never has two redeemable tickets
THEOREM TicketsExclusive == Spec => []OneOpenTicket
<1>1. SessaoInv => OneOpenTicket
  BY DEF SessaoInv, TicketsOK
<1> QED BY <1>1, SessaoInvariant, PTL

\* A shell, in ring 3 or in ring 0, runs only for a user who accepted every contract and whose
\* account is active, or whose ticket was spent and gave these capabilities
THEOREM SessionsLawful == Spec => []SessionLawful
<1>1. SessaoInv => SessionLawful
  BY DEF SessaoInv, PlaceOK, UserOK, SessionLawful
<1> QED BY <1>1, SessaoInvariant, PTL

\* Under the first spoudazo no program holds a right that no login earned
THEOREM FirstSessionBounded == Spec => []FirstSessionRights
<1>1. SessaoInv => FirstSessionRights
  BY DEF SessaoInv, StartsOK
<1> QED BY <1>1, SessaoInvariant, PTL

\* SYS_SESSION_LOGIN by ticket spends a ticket of the name, and no step opens one again
THEOREM TicketsSpent == Spec => LoginSpendsTicket
<1>1. SessaoInv /\ [Next]_vars => SpendsTicket
  BY SessaoStep
<1> QED BY <1>1, SessaoInvariant, PTL DEF Spec, LoginSpendsTicket, SpendsTicket, TicketsOnlySpent
=============================================================================
