-------------------------------- MODULE Vfs --------------------------------
(***************************************************************************)
(* Files: the kernel's tree (fs.c) behind the policy of vfs.c and the      *)
(* contracts of synallagma.c, the service 'fsd' with its own copy of       *)
(* /nomos and /paradosis, the library's client, which falls back to the    *)
(* system calls when fsd does not answer in time, the service 'synd' with  *)
(* its own copy of the contracts, and the commands of the ring-0 shell.    *)
(*                                                                         *)
(* A path is the sequence of its components; the root is << >>.  A text is *)
(* [tag, len].  A handler and a system call take effect in one step.  A    *)
(* request the client has given up is served later all the same: it then   *)
(* does what an Ask of the same request does, whose reply nobody reads.    *)
(***************************************************************************)
EXTENDS Integers, FiniteSets, Sequences, SequencesExt, TLC

CONSTANTS
  Modules, Kormi,  \* programs embedded in the kernel, and those started at boot
  Manifest,        \* the name of each program's manifest
  Pactos,          \* contracts by file name: [path, read, write, exec]
  Args,            \* paths programs and users type, perhaps with "." and ".."
  Texts,           \* texts they write
  MaxFiles,        \* FS_MAX_FILES
  MaxData,         \* FS_MAX_DATA
  FirstCap,        \* capacity of a file's first buffer
  StMax, DirMax,   \* ST_MAX, ST_DIRS
  ReqMax, StData,  \* what of a text fits in the client's request, and in fsd's store
  SyndMax          \* SYND_MAX

ASSUME LimitsAssumption ==
  {MaxFiles, MaxData, FirstCap, StMax, DirMax, ReqMax, StData, SyndMax} \subseteq Nat \ {0} /\ StMax >= 2
\* A request's text, at most 384 characters, fits in the 511 of a file of fsd
ASSUME RequestFits == ReqMax < StData
ASSUME NamesAssumption ==
  /\ Modules \cup Kormi \cup DOMAIN Pactos \subseteq STRING /\ Manifest \in [Modules -> STRING]
  /\ Texts \subseteq [tag : STRING, len : Nat]
\* The contracts the system ships with are on folders other than the root and /oikos
ASSUME PactosAssumption ==
  \A f \in DOMAIN Pactos : LET p == Pactos[f].path IN p \in Seq(STRING) /\ p # << >> /\ Head(p) # "oikos"

VARIABLES
  tree,      \* fs_nodes: a node for each path in use
  consented, \* contracts, by path, with consent
  stFiles,   \* st_files of fsd: [path, data], in order
  stDirs,    \* st_dirs of fsd
  syndCt,    \* synd_ct: for each contract synd knows, whether it counts as consented to
  up         \* whether fsd is registered

vars == <<tree, consented, stFiles, stDirs, syndCt, up>>

Empty == [tag |-> "", len |-> 0]
Cut(d, n) == IF d.len > n THEN [d EXCEPT !.len = n] ELSE d

Dir == [type |-> "dir", data |-> Empty, cap |-> 0]
File(d, c) == [type |-> "file", data |-> d, cap |-> c]
Done(t) == [tree |-> t, ok |-> TRUE]
Failed(t) == [tree |-> t, ok |-> FALSE]
Only(p, S) == [x \in DOMAIN p \cap S |-> p[x]]
With(t, p, node) == [q \in DOMAIN t \cup {p} |-> IF q = p THEN node ELSE t[q]]
UpTo(s, n) == SubSeq(s, 1, IF Len(s) < n THEN Len(s) ELSE n)
-----------------------------------------------------------------------------
(* fs.c *)

IsDir(t, p) == p = << >> \/ (p \in DOMAIN t /\ t[p].type = "dir")
HasChildren(t, p) == \E q \in DOMAIN t : IsStrictPrefix(p, q)

\* Faulty variant: does not look at the parent
FsCreateAnywhere(t, p, type) ==
  IF p = << >> \/ p \in DOMAIN t \/ Cardinality(DOMAIN t) >= MaxFiles THEN Failed(t)
  ELSE Done(With(t, p, IF type = "dir" THEN Dir ELSE File(Empty, 0)))

\* fs_create: a free node, and a parent that is a directory
FsCreate(t, p, type) ==
  IF p = << >> \/ p \in DOMAIN t \/ Cardinality(DOMAIN t) >= MaxFiles \/ ~IsDir(t, Front(p)) THEN Failed(t)
  ELSE Done(With(t, p, IF type = "dir" THEN Dir ELSE File(Empty, 0)))

\* The buffer doubles until the text fits
NewCap(c, n) == LET first == IF c = 0 THEN FirstCap ELSE 2 * c
                IN  first * 2 ^ Min({k \in 0 .. n : first * 2 ^ k >= n})

\* A number fact the loop rests on: doubling reaches every length
ASSUME PowersGrow == \A n \in 0 .. MaxData : 2 ^ n \in Nat /\ 2 ^ n >= n

\* fs_write: replaces the text; when kmalloc finds no larger buffer nothing changes
FsWrite(t, p, d, mem) ==
  IF d.len > MaxData \/ p \notin DOMAIN t \/ IsDir(t, p) \/ (t[p].cap < d.len /\ ~mem) THEN Failed(t)
  ELSE Done([t EXCEPT ![p] = File(d, IF t[p].cap < d.len THEN NewCap(t[p].cap, d.len) ELSE t[p].cap)])

\* fs_remove: not a directory that still has children
FsRemove(t, p) ==
  IF p = << >> \/ p \notin DOMAIN t \/ (IsDir(t, p) /\ HasChildren(t, p)) THEN Failed(t)
  ELSE Done(Only(t, DOMAIN t \ {p}))

\* fs_copy: a failed write leaves the new file empty
FsCopy(t, s, d, mem) ==
  IF s \notin DOMAIN t \/ IsDir(t, s) \/ d \in DOMAIN t \/ ~FsCreate(t, d, "file").ok THEN Failed(t)
  ELSE FsWrite(FsCreate(t, d, "file").tree, d, t[s].data, mem)

\* Faulty variant: removes the source whatever became of the copy
FsMoveBlind(t, s, d, mem) == FsRemove(FsCopy(t, s, d, mem).tree, s)

\* fs_move: the source goes only after the copy
FsMove(t, s, d, mem) == LET c == FsCopy(t, s, d, mem) IN IF c.ok THEN FsRemove(c.tree, s) ELSE c

\* fs_init_defaults: folders, texts, the contracts, the programs and their copies
Names(root, S) == {<<root, m>> : m \in S}
BootDirs == {<<d>> : d \in {"bin", "kormi", "praxis", "idios", "oikos", "synallagma", "aisthesis", "kinesis",
                            "nomos", "paradosis"}} \cup {<<"idios", "thais">>}
BootFiles == {<<"idios", "thais", "boas_vindas">>, <<"nomos", "manifesto">>, <<"paradosis", "exemplo">>}
               \cup Names("synallagma", DOMAIN Pactos)
               \cup Names("bin", Modules \cup {Manifest[m] : m \in Modules})
               \cup Names("praxis", Modules \cap {"spoudazo", "praxia"}) \cup Names("kormi", Kormi)
BootText == [tag |-> "boot", len |-> 1]
BootTree == [p \in BootDirs \cup BootFiles |-> IF p \in BootDirs THEN Dir ELSE File(BootText, FirstCap)]
\* The table has room for what fs_init_defaults creates
ASSUME BootFits == IsFiniteSet(DOMAIN BootTree) /\ Cardinality(DOMAIN BootTree) <= MaxFiles
-----------------------------------------------------------------------------
(* synallagma.c, vfs.c *)

\* synallagma_scan_contracts reads the files of /synallagma once, at boot
Contracts == {Pactos[f] : f \in {g \in DOMAIN Pactos : <<"synallagma", g>> \in DOMAIN BootTree}}

\* synallagma_contract_for: the contracts on the path or above it, the deepest of them
Covering(p) == {c \in Contracts : IsPrefix(c.path, p)}
ContractFor(p) == CHOOSE c \in Covering(p) : \A e \in Covering(p) : Len(e.path) <= Len(c.path)

\* Faulty variant: what has no contract may be written, /oikos too
CheckCapOpen(p, write) ==
  IF Covering(p) # {}
  THEN LET c == ContractFor(p) IN c.path \in consented /\ (write => c.write) /\ (~write => c.read \/ c.exec)
  ELSE TRUE

\* vfs_check_cap: a contract decides after consent, /oikos is read-only, the rest is open.  No
\* contract asks for capabilities, and every process holds CAP_FS_WRITE, which is all that
\* /synallagma asks for
CheckCap(p, write) ==
  IF Covering(p) # {}
  THEN LET c == ContractFor(p) IN c.path \in consented /\ (write => c.write) /\ (~write => c.read \/ c.exec)
  ELSE ~(write /\ IsPrefix(<<"oikos">>, p))

Pseudo(p) == p # << >> /\ Head(p) \in {"aisthesis", "kinesis"}

\* vfs_normalize
Normalize(raw) ==
  FoldLeft(LAMBDA out, c : IF c = "." THEN out ELSE IF c # ".." THEN Append(out, c)
                           ELSE IF out = << >> THEN out ELSE Front(out),
           << >>, raw)
FullOf == [raw \in Args |-> Normalize(raw)]
Full(raw) == FullOf[raw]
\* What vfs_normalize appends to and takes from is a path
ASSUME PathsAssumption == \A raw \in Args : raw \in Seq(STRING) /\ Full(raw) \in Seq(STRING)

VfsCreate(p, type) == IF CheckCap(p, TRUE) THEN FsCreate(tree, p, type) ELSE Failed(tree)

\* vfs_write: a file is created first; if the text then finds no memory it stays empty
VfsWrite(p, d, mem) ==
  LET made == IF p = << >> \/ p \in DOMAIN tree THEN Done(tree) ELSE FsCreate(tree, p, "file")
  IN  IF ~CheckCap(p, TRUE) \/ Pseudo(p) \/ ~made.ok THEN Failed(tree) ELSE FsWrite(made.tree, p, d, mem)

VfsRemove(p) == IF CheckCap(p, TRUE) THEN FsRemove(tree, p) ELSE Failed(tree)

\* vfs_copy, vfs_move: the source needs to be readable only
VfsCopy(s, d, mem) == IF CheckCap(s, FALSE) /\ CheckCap(d, TRUE) THEN FsCopy(tree, s, d, mem) ELSE Failed(tree)
VfsMove(s, d, mem) == IF CheckCap(s, FALSE) /\ CheckCap(d, TRUE) THEN FsMove(tree, s, d, mem) ELSE Failed(tree)

\* vfs_read of a file of the tree; << >> is an error.  The text of a pseudo-file is computed
VfsRead(p) == IF CheckCap(p, FALSE) /\ ~Pseudo(p) /\ p \in DOMAIN tree /\ ~IsDir(tree, p) THEN <<tree[p].data>> ELSE << >>
-----------------------------------------------------------------------------
(* fsd *)

Roots == {<<"nomos">>, <<"paradosis">>}

\* fsd_st_owns looks at the path as it was sent
Owns(raw) == raw # << >> /\ <<Head(raw)>> \in Roots

StFind(fs, p) == SelectInSeq(fs, LAMBDA f : f.path = p)
StDirFind(ds, p) == SelectInSeq(ds, LAMBDA d : d = p)

\* fsd_st_set
StSet(fs, p, d) ==
  LET i == StFind(fs, p)
      e == [path |-> p, data |-> Cut(d, StData - 1)]
  IN  IF i # 0 THEN [fs EXCEPT ![i] = e] ELSE IF Len(fs) >= StMax THEN fs ELSE Append(fs, e)

\* Faulty variant: forgets to move the last file into the gap
StRemoveLast(fs, p) == IF StFind(fs, p) = 0 THEN fs ELSE Front(fs)

\* fsd_st_remove: the last file takes the place of the one removed
StRemove(fs, p) ==
  LET i == StFind(fs, p) IN IF i = 0 THEN fs ELSE Front([fs EXCEPT ![i] = Last(fs)])

\* What fsd says to a request: the tree, its own files and folders after it, and its answer
FsdSays(r, mem) ==
  LET p == r.path
      k == CASE r.op = "create" -> VfsCreate(Full(p), "file")
             [] r.op = "mkdir"  -> VfsCreate(Full(p), "dir")
             [] r.op = "write"  -> VfsWrite(Full(p), r.data, mem)
             [] r.op = "remove" -> VfsRemove(Full(p))
      files == CASE r.op = "create" -> StSet(stFiles, p, Empty)
                 [] r.op = "write"  -> StSet(stFiles, p, r.data)
                 [] r.op = "remove" -> StRemove(stFiles, p)
                 [] OTHER -> stFiles
      di == StDirFind(stDirs, p)
      dirs == CASE r.op = "mkdir" /\ di = 0 /\ Len(stDirs) < DirMax -> Append(stDirs, p)
                [] r.op = "remove" /\ files = stFiles /\ p \notin Roots /\ di # 0 -> RemoveAt(stDirs, di)
                [] OTHER -> stDirs
      ok == CASE r.op \in {"create", "write"} -> StFind(files, p) # 0
              [] r.op = "mkdir"  -> StDirFind(dirs, p) # 0
              [] r.op = "remove" -> files # stFiles \/ dirs # stDirs
  IN  IF Owns(p) THEN [tree |-> tree, files |-> files, dirs |-> dirs, ok |-> ok]
      ELSE [tree |-> k.tree, files |-> stFiles, dirs |-> stDirs, ok |-> k.ok]

\* What a read through fsd finds
FsdRead(raw) ==
  IF ~Owns(raw) THEN VfsRead(Full(raw))
  ELSE LET i == StFind(stFiles, raw) IN IF i = 0 THEN << >> ELSE <<stFiles[i].data>>

Serve(r, mem) ==
  LET s == FsdSays(r, mem) IN tree' = s.tree /\ stFiles' = s.files /\ stDirs' = s.dirs
-----------------------------------------------------------------------------
(* The library's client: spud_fsd_create, spud_fsd_mkdir, spud_fsd_write, spud_fsd_remove *)

Requests == [op : {"create", "mkdir", "remove"}, path : Args, data : {Empty}]
              \cup [op : {"write"}, path : Args, data : Texts]

\* The request cuts the text, the system call does not
Sent(r) == [r EXCEPT !.data = Cut(@, ReqMax)]

\* fsd answers in time; mem says whether kmalloc finds memory for a larger buffer
Answered(r, mem) ==
  /\ up
  /\ Serve(Sent(r), mem)
  /\ UNCHANGED <<consented, syndCt, up>>

Ask(r) == \E mem \in BOOLEAN : Answered(r, mem)

\* No answer in time: the system call instead; fsd may yet serve the request too
FallBack(r) ==
  /\ \E mem \in BOOLEAN :
       tree' = CASE r.op = "create" -> VfsCreate(Full(r.path), "file").tree
                 [] r.op = "mkdir"  -> VfsCreate(Full(r.path), "dir").tree
                 [] r.op = "write"  -> VfsWrite(Full(r.path), r.data, mem).tree
                 [] r.op = "remove" -> VfsRemove(Full(r.path)).tree
  /\ UNCHANGED <<consented, stFiles, stDirs, syndCt, up>>

\* SYS_SESSION_LOGIN records consent to every contract
LogIn ==
  /\ consented' = {c.path : c \in Contracts}
  /\ UNCHANGED <<tree, stFiles, stDirs, syndCt, up>>
-----------------------------------------------------------------------------
(* synd *)

\* SYS_CONTRACT_LIST, one line for each contract
ContractList == SetToSeq({c.path : c \in Contracts})

\* synd_st_seed: the kernel's contracts, none consented to; those beyond SyndMax are left out
SyndSeed == [p \in ToSet(UpTo(ContractList, SyndMax)) |-> FALSE]

\* spud_synd_consent and spud_synd_revoke: synd changes its own record, no system call tells the
\* kernel.  A path that is no contract's is refused; listing and reading change no state but the
\* audit trail, which is left out
SyndMark(p, yes) ==
  /\ syndCt' = IF p \in DOMAIN syndCt THEN [syndCt EXCEPT ![p] = yes] ELSE syndCt
  /\ UNCHANGED <<tree, consented, stFiles, stDirs, up>>
-----------------------------------------------------------------------------
(* The ring-0 shell, after its own login *)

KernelOnly == UNCHANGED <<consented, stFiles, stDirs, syndCt, up>>

KCreate(p, type) == tree' = VfsCreate(Full(p), type).tree /\ KernelOnly
KRemove(p) == tree' = VfsRemove(Full(p)).tree /\ KernelOnly
KCopy(s, d) == (\E mem \in BOOLEAN : tree' = VfsCopy(Full(s), Full(d), mem).tree) /\ KernelOnly
KMove(s, d) == (\E mem \in BOOLEAN : tree' = VfsMove(Full(s), Full(d), mem).tree) /\ KernelOnly

\* edit_file asks the policy nothing; it creates the file first, and no lines are not written
KEdit(raw, d) ==
  LET p == Full(raw)
      read == p \in DOMAIN tree /\ ~IsDir(tree, p)
      made == IF read THEN Done(tree) ELSE FsCreate(tree, p, "file")
  IN  /\ made.ok
      /\ \E mem \in BOOLEAN : tree' = IF d = Empty THEN made.tree ELSE FsWrite(made.tree, p, d, mem).tree
      /\ KernelOnly
-----------------------------------------------------------------------------
\* fsd_st_seed has copied the files of its two folders and listed the first folders
Init ==
  /\ tree = BootTree
  /\ consented = {}
  /\ stFiles = <<[path |-> <<"nomos", "manifesto">>, data |-> BootText],
                 [path |-> <<"paradosis", "exemplo">>, data |-> BootText]>>
  /\ stDirs = UpTo(<<<<"bin">>, <<"kormi">>, <<"nomos">>, <<"paradosis">>, <<"idios">>, <<"oikos">>,
                     <<"synallagma">>, <<"praxis">>>>, DirMax)
  /\ syndCt = SyndSeed
  /\ up \in BOOLEAN

Next ==
  \/ \E r \in Requests : Ask(r) \/ FallBack(r)
  \/ LogIn
  \/ \E c \in Contracts, yes \in BOOLEAN : SyndMark(c.path, yes)
  \/ \E p \in Args : KCreate(p, "file") \/ KCreate(p, "dir") \/ KRemove(p)
  \/ \E s, d \in Args : KCopy(s, d) \/ KMove(s, d)
  \/ \E p \in Args, d \in Texts \cup {Empty} : KEdit(p, d)

Spec == Init /\ [][Next]_vars
-----------------------------------------------------------------------------
(* Properties *)

\* fs.c: through any mix of creations, moves and removals, refused or half done, every node hangs
\* from a directory, the table is not overfull, no text is longer than its buffer, and fsd's
\* store keeps each path once and within its limits
TreeSound ==
  /\ \A p \in DOMAIN tree : p # << >> /\ IsDir(tree, Front(p)) /\ tree[p].data.len <= tree[p].cap
  /\ Cardinality(DOMAIN tree) <= MaxFiles
  /\ Len(stFiles) <= StMax /\ Len(stDirs) <= DirMax
  /\ \A i, j \in DOMAIN stFiles : stFiles[i].path = stFiles[j].path => i = j

\* fs_move is a copy and a removal: whichever of the two fails, the text moved is still in the
\* source or in the target
Holds(t, p, text) == p \in DOMAIN t /\ t[p].type = "file" /\ t[p].data = text
MoveKeepsText ==
  [][\A s, d \in Args :
       LET from == Full(s)
       IN  from \in DOMAIN tree /\ ~IsDir(tree, from) /\ ~Holds(tree', from, tree[from].data) /\ KMove(s, d) =>
             Holds(tree', Full(d), tree[from].data)]_vars

\* vfs_check_cap, for programs: no request or system call of theirs, however late it is served,
\* changes anything under /oikos, or under a contract nobody has consented to at a login; what synd
\* was told opens nothing
Under(t, root) == Only(t, {p \in DOMAIN t : IsPrefix(root, p)})
ProtectedKept ==
  [][tree' # tree /\ (\E r \in Requests : Ask(r) \/ FallBack(r)) =>
       \A root \in {<<"oikos">>} \cup ({c.path : c \in Contracts} \ consented) :
         Under(tree', root) = Under(tree, root)]_vars

\* fsd answers for what it did: after a request it granted, one that had to allocate included, a
\* read through it finds the text written, where reading is allowed, and no removed file, and every
\* other file reads as before, in its store and in the tree
Readable(raw) == Owns(raw) \/ (CheckCap(Full(raw), FALSE) /\ ~Pseudo(Full(raw)))
ServiceCoherent ==
  [][LET changed == {p \in Args : FsdRead(p)' # FsdRead(p)}
     IN  \A r \in Requests, mem \in BOOLEAN :
           Answered(r, mem) /\ FsdSays(Sent(r), mem).ok =>
             /\ \A p \in changed : p = r.path \/ Full(p) = Full(r.path)
             /\ r.op = "write"  /\ Readable(r.path) => FsdRead(r.path)' = <<Sent(r).data>>
             /\ r.op = "create" /\ Readable(r.path) => FsdRead(r.path)' = <<Empty>>
             /\ r.op = "remove" => FsdRead(r.path)' = << >>]_vars
=============================================================================
