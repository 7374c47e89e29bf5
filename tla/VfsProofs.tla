----------------------------- MODULE VfsProofs -----------------------------
(***************************************************************************)
(* Proofs about Vfs, for any paths, texts, contracts, programs and limits: *)
(* the tree and fsd's store stay sound, a move never loses its text, and   *)
(* programs change nothing under /oikos or under a contract without        *)
(* consent.                                                                *)
(***************************************************************************)
EXTENDS Vfs, FiniteSetTheorems, SequenceTheorems, WellFoundedInduction, TLAPS

\* The names and the tags that occur
PathNames ==
  {"bin", "kormi", "praxis", "idios", "oikos", "synallagma", "aisthesis", "kinesis", "nomos", "paradosis",
   "thais", "boas_vindas", "manifesto", "exemplo"}
    \cup Modules \cup Kormi \cup DOMAIN Pactos \cup {Manifest[m] : m \in Modules}
    \cup UNION {Range(raw) \cup Range(Full(raw)) : raw \in Args}
Tags == {"", "boot"} \cup {d.tag : d \in Texts}

Paths == Seq(PathNames)
Text == [tag : Tags, len : Nat]
Node == [type : {"dir", "file"}, data : Text, cap : Nat]

\* A tree of fs.c: nodes below directories, texts within buffers, not too many
TreeOK(t) ==
  /\ t = [p \in DOMAIN t |-> t[p]]
  /\ DOMAIN t \subseteq Paths \ {<< >>}
  /\ IsFiniteSet(DOMAIN t) /\ Cardinality(DOMAIN t) <= MaxFiles
  /\ \A p \in DOMAIN t : t[p] \in Node /\ t[p].data.len <= t[p].cap
  /\ \A p \in DOMAIN t : IsDir(t, Front(p))

LEMMA Limits ==
  /\ MaxFiles \in Nat /\ MaxData \in Nat /\ StMax \in Nat /\ DirMax \in Nat /\ ReqMax \in Nat /\ StData \in Nat
  /\ FirstCap \in Nat /\ FirstCap >= 1 /\ StMax >= 2 /\ StData >= 1 /\ ReqMax >= 1 /\ DirMax >= 1
BY LimitsAssumption

\* A set of numbers has a least one, which Min picks
LEMMA MinIn ==
  ASSUME NEW S \in SUBSET Nat, S # {}
  PROVE  Min(S) \in S /\ \A y \in S : Min(S) <= y
<1> DEFINE R == {p \in Nat \X Nat : p[1] < p[2]}
<1>1. IsWellFoundedOn(R, Nat)
  BY NatLessThanWellFounded, Zenon DEF OpToRel
<1> HIDE DEF R
<1>2. PICK x \in S : \A y \in S : ~(<<y, x>> \in R)
  BY <1>1, WFMin
<1>3. ASSUME NEW y \in S PROVE x <= y
  <2>1. x \in Nat /\ y \in Nat /\ <<y, x>> \in Nat \X Nat
    OBVIOUS
  <2>2. ~(<<y, x>>[1] < <<y, x>>[2])
    BY <1>2, <2>1, Zenon DEF R
  <2> QED BY <2>1, <2>2
<1> QED BY <1>3 DEF Min
-----------------------------------------------------------------------------
(* fs.c *)

LEMMA DirIs == Dir \in Node /\ Dir.type = "dir" /\ Dir.data.len <= Dir.cap /\ Empty \in Text /\ Empty.len = 0
<1>1. Empty \in Text /\ Empty.len = 0
  BY DEF Empty, Text, Tags
<1>2. Dir = [type |-> "dir", data |-> Empty, cap |-> 0]
  BY DEF Dir
<1> QED BY <1>1, <1>2 DEF Node

LEMMA FileIs ==
  ASSUME NEW d \in Text, NEW c \in Nat, d.len <= c
  PROVE  File(d, c) \in Node /\ File(d, c).type = "file" /\ File(d, c).data = d
         /\ File(d, c).data.len <= File(d, c).cap
BY DEF File, Node, Text

LEMMA NewCapFits ==
  ASSUME NEW c \in Nat, NEW n \in 0 .. MaxData, c < n
  PROVE  NewCap(c, n) \in Nat /\ NewCap(c, n) >= n
<1> DEFINE first == IF c = 0 THEN FirstCap ELSE 2 * c
           S == {k \in 0 .. n : first * 2 ^ k >= n}
<1>1. first \in Nat /\ first >= 1 /\ n \in Nat
  BY Limits
<1>2. \A k \in 0 .. n : 2 ^ k \in Nat
  BY PowersGrow, Limits
<1>3. n \in S
  <2>1. 2 ^ n \in Nat /\ 2 ^ n >= n
    BY PowersGrow
  <2> HIDE DEF first
  <2>2. \A x \in Nat : x >= n => first * x >= n
    BY <1>1
  <2> QED BY <1>1, <2>1, <2>2
<1>4. S \subseteq Nat /\ S # {}
  BY <1>3
<1>5. Min(S) \in S
  BY <1>4, MinIn
<1>6. \A x, y \in Nat : x * y \in Nat
  OBVIOUS
<1>7. first * 2 ^ Min(S) \in Nat /\ first * 2 ^ Min(S) >= n
  <2> HIDE DEF first
  <2> QED BY <1>1, <1>2, <1>5, <1>6
<1> QED BY <1>7 DEF NewCap

LEMMA WithIs ==
  ASSUME NEW t, NEW p, NEW node
  PROVE  /\ DOMAIN With(t, p, node) = DOMAIN t \cup {p}
         /\ With(t, p, node)[p] = node
         /\ \A q \in DOMAIN t : q # p => With(t, p, node)[q] = t[q]
         /\ With(t, p, node) = [q \in DOMAIN With(t, p, node) |-> With(t, p, node)[q]]
BY DEF With

\* A node that is not there yet, below a directory, in a table that is not full
LEMMA AddNode ==
  ASSUME NEW t, TreeOK(t), NEW p \in Paths, p # << >>, p \notin DOMAIN t, Cardinality(DOMAIN t) < MaxFiles,
         IsDir(t, Front(p)), NEW node \in Node, node.data.len <= node.cap
  PROVE  TreeOK(With(t, p, node))
<1> DEFINE u == With(t, p, node)
<1>1. /\ DOMAIN u = DOMAIN t \cup {p} /\ u[p] = node /\ \A q \in DOMAIN t : u[q] = t[q]
      /\ u = [q \in DOMAIN u |-> u[q]]
  BY DEF With
<1> HIDE DEF u
<1>2. IsFiniteSet(DOMAIN u) /\ Cardinality(DOMAIN u) = Cardinality(DOMAIN t) + 1 /\ Cardinality(DOMAIN t) \in Nat
  BY <1>1, FS_AddElement, FS_CardinalityType DEF TreeOK
<1>3. Cardinality(DOMAIN u) <= MaxFiles
  BY <1>2, Limits
<1>4. \A q \in DOMAIN u : u[q] \in Node /\ u[q].data.len <= u[q].cap
  BY <1>1 DEF TreeOK
<1>5. \A q \in DOMAIN u : IsDir(u, Front(q))
  BY <1>1 DEF TreeOK, IsDir
<1>6. DOMAIN u \subseteq Paths \ {<< >>}
  BY <1>1 DEF TreeOK
<1> QED BY <1>1, <1>2, <1>3, <1>4, <1>5, <1>6 DEF TreeOK, u

\* What fs_create does: nothing, or a new node at p
LEMMA CreateSpec ==
  ASSUME NEW t, TreeOK(t), NEW p \in Paths, NEW type \in {"dir", "file"}
  PROVE  /\ TreeOK(FsCreate(t, p, type).tree)
         /\ \/ ~FsCreate(t, p, type).ok /\ FsCreate(t, p, type).tree = t
            \/ /\ FsCreate(t, p, type).ok /\ p \notin DOMAIN t /\ p # << >>
               /\ FsCreate(t, p, type).tree = With(t, p, IF type = "dir" THEN Dir ELSE File(Empty, 0))
<1>1. CASE p = << >> \/ p \in DOMAIN t \/ Cardinality(DOMAIN t) >= MaxFiles \/ ~IsDir(t, Front(p))
  BY <1>1 DEF FsCreate, Failed
<1>2. CASE ~(p = << >> \/ p \in DOMAIN t \/ Cardinality(DOMAIN t) >= MaxFiles \/ ~IsDir(t, Front(p)))
  <2> DEFINE node == IF type = "dir" THEN Dir ELSE File(Empty, 0)
  <2>1. node \in Node /\ node.data.len <= node.cap
    BY DirIs, FileIs
  <2>2. FsCreate(t, p, type) = [tree |-> With(t, p, node), ok |-> TRUE]
    BY <1>2 DEF FsCreate, Done
  <2> HIDE DEF node
  <2>3. Cardinality(DOMAIN t) < MaxFiles
    BY <1>2, FS_CardinalityType, Limits DEF TreeOK
  <2>4. TreeOK(With(t, p, node))
    BY <1>2, <2>1, <2>3, AddNode
  <2> QED BY <1>2, <2>2, <2>4 DEF node
<1> QED BY <1>1, <1>2

LEMMA IsDirBool == \A t, p : IsDir(t, p) \in BOOLEAN
BY DEF IsDir

\* The text d is in the file p of t, the rest is as before
Wrote(t, p, d, u) == \E c \in Nat : d.len <= c /\ u = [t EXCEPT ![p] = File(d, c)]

\* What fs_write does: nothing, or the text in the file at p
LEMMA WriteSpec ==
  ASSUME NEW t, TreeOK(t), NEW p \in Paths, NEW d \in Text, NEW mem \in BOOLEAN
  PROVE  /\ TreeOK(FsWrite(t, p, d, mem).tree)
         /\ \/ ~FsWrite(t, p, d, mem).ok /\ FsWrite(t, p, d, mem).tree = t
            \/ /\ FsWrite(t, p, d, mem).ok /\ p \in DOMAIN t /\ ~IsDir(t, p)
               /\ Wrote(t, p, d, FsWrite(t, p, d, mem).tree)
<1>1. CASE d.len > MaxData \/ p \notin DOMAIN t \/ IsDir(t, p) \/ (t[p].cap < d.len /\ ~mem)
  BY <1>1 DEF FsWrite, Failed
<1>2. CASE ~(d.len > MaxData \/ p \notin DOMAIN t \/ IsDir(t, p) \/ (t[p].cap < d.len /\ ~mem))
  <2>1. p \in DOMAIN t /\ ~IsDir(t, p) /\ d.len \in 0 .. MaxData /\ d.len \in Nat /\ t[p].cap \in Nat
    BY <1>2, Limits DEF Text, TreeOK, Node
  <2>2. PICK c : c = IF t[p].cap < d.len THEN NewCap(t[p].cap, d.len) ELSE t[p].cap
    OBVIOUS
  <2>3. c \in Nat /\ d.len <= c
    BY <2>1, <2>2, NewCapFits
  <2>4. FsWrite(t, p, d, mem) = [tree |-> [t EXCEPT ![p] = File(d, c)], ok |-> TRUE]
    BY <1>2, <2>2 DEF FsWrite, Done
  <2> DEFINE u == [t EXCEPT ![p] = File(d, c)]
  <2>5. /\ DOMAIN u = DOMAIN t /\ u[p] = File(d, c) /\ \A q \in DOMAIN t : q # p => u[q] = t[q]
        /\ u = [q \in DOMAIN u |-> u[q]]
    BY <2>1
  <2> HIDE DEF u
  <2>6. File(d, c) \in Node /\ File(d, c).data.len <= File(d, c).cap
    BY <2>3, FileIs
  <2>7. \A q \in DOMAIN u : u[q] \in Node /\ u[q].data.len <= u[q].cap
    BY <2>5, <2>6 DEF TreeOK
  <2>8. \A q : IsDir(t, q) => IsDir(u, q)
    BY <2>1, <2>5 DEF IsDir
  <2>9. TreeOK(u)
    BY <2>5, <2>7, <2>8 DEF TreeOK
  <2>10. Wrote(t, p, d, u)
    BY <2>3 DEF u, Wrote
  <2>11. FsWrite(t, p, d, mem).tree = u /\ FsWrite(t, p, d, mem).ok
    BY <2>4 DEF u
  <2> QED BY <2>1, <2>9, <2>10, <2>11
<1> QED BY <1>1, <1>2, IsDirBool

LEMMA FrontPrefix == ASSUME NEW q \in Paths, q # << >> PROVE IsStrictPrefix(Front(q), q)
BY DEF IsStrictPrefix, IsPrefix, Front, Paths

\* What fs_remove does: nothing, or the node at p gone, below which there is none
LEMMA RemoveSpec ==
  ASSUME NEW t, TreeOK(t), NEW p \in Paths
  PROVE  /\ TreeOK(FsRemove(t, p).tree)
         /\ \/ ~FsRemove(t, p).ok /\ FsRemove(t, p).tree = t
            \/ FsRemove(t, p).ok /\ p \in DOMAIN t /\ FsRemove(t, p).tree = Only(t, DOMAIN t \ {p})
<1>1. CASE p = << >> \/ p \notin DOMAIN t \/ (IsDir(t, p) /\ HasChildren(t, p))
  BY <1>1 DEF FsRemove, Failed
<1>2. CASE ~(p = << >> \/ p \notin DOMAIN t \/ (IsDir(t, p) /\ HasChildren(t, p)))
  <2> DEFINE u == Only(t, DOMAIN t \ {p})
  <2>1. FsRemove(t, p) = [tree |-> u, ok |-> TRUE]
    BY <1>2 DEF FsRemove, Done
  <2>2. /\ DOMAIN u = DOMAIN t \ {p} /\ \A q \in DOMAIN u : u[q] = t[q]
        /\ u = [q \in DOMAIN u |-> u[q]]
    BY DEF Only
  <2> HIDE DEF u
  <2>3. /\ IsFiniteSet(DOMAIN u) /\ Cardinality(DOMAIN u) <= Cardinality(DOMAIN t)
        /\ Cardinality(DOMAIN t) \in Nat /\ Cardinality(DOMAIN u) \in Nat
    BY <2>2, FS_Subset, FS_CardinalityType DEF TreeOK
  <2>4. \A q \in DOMAIN u : IsDir(u, Front(q))
    <3> SUFFICES ASSUME NEW q \in DOMAIN u PROVE IsDir(u, Front(q))
      OBVIOUS
    <3>1. IsDir(t, Front(q)) /\ q \in DOMAIN t /\ IsStrictPrefix(Front(q), q)
      BY <2>2, FrontPrefix DEF TreeOK
    <3>2. Front(q) # p
      BY <1>2, <3>1 DEF HasChildren
    <3> QED BY <2>2, <3>1, <3>2 DEF IsDir
  <2>5. TreeOK(u)
    BY <2>2, <2>3, <2>4, Limits DEF TreeOK
  <2> QED BY <1>2, <2>1, <2>5 DEF u
<1> QED BY <1>1, <1>2, IsDirBool

\* fs_copy and fs_move keep the tree sound, and the source's text stays in one of the two places
LEMMA CopySpec ==
  ASSUME NEW t, TreeOK(t), NEW s \in Paths, NEW d \in Paths, NEW mem \in BOOLEAN
  PROVE  LET c == FsCopy(t, s, d, mem)
         IN  /\ TreeOK(c.tree)
             /\ s \in DOMAIN t => s \in DOMAIN c.tree /\ c.tree[s] = t[s]
             /\ c.ok => /\ s \in DOMAIN t /\ s # d /\ d \in DOMAIN c.tree
                        /\ c.tree[d].type = "file" /\ c.tree[d].data = t[s].data
<1>1. CASE s \notin DOMAIN t \/ IsDir(t, s) \/ d \in DOMAIN t \/ ~FsCreate(t, d, "file").ok
  BY <1>1 DEF FsCopy, Failed
<1>2. CASE ~(s \notin DOMAIN t \/ IsDir(t, s) \/ d \in DOMAIN t \/ ~FsCreate(t, d, "file").ok)
  <2>1. PICK u : u = FsCreate(t, d, "file").tree
    OBVIOUS
  <2>2. s \in DOMAIN t /\ d \notin DOMAIN t /\ s # d /\ FsCreate(t, d, "file").ok
    BY <1>2
  <2>3. TreeOK(u) /\ u = With(t, d, File(Empty, 0))
    BY <2>1, <2>2, CreateSpec
  <2>4. DOMAIN u = DOMAIN t \cup {d} /\ u[d] = File(Empty, 0) /\ \A q \in DOMAIN t : u[q] = t[q]
    BY <2>2, <2>3 DEF With
  <2>5. t[s].data \in Text
    BY <2>2 DEF TreeOK, Node
  <2>6. FsCopy(t, s, d, mem) = FsWrite(u, d, t[s].data, mem)
    BY <1>2, <2>1 DEF FsCopy
  <2>7. /\ TreeOK(FsWrite(u, d, t[s].data, mem).tree)
        /\ \/ ~FsWrite(u, d, t[s].data, mem).ok /\ FsWrite(u, d, t[s].data, mem).tree = u
           \/ Wrote(u, d, t[s].data, FsWrite(u, d, t[s].data, mem).tree)
    BY <2>3, <2>5, WriteSpec
  <2>8. CASE ~FsWrite(u, d, t[s].data, mem).ok /\ FsWrite(u, d, t[s].data, mem).tree = u
    BY <2>2, <2>4, <2>6, <2>7, <2>8
  <2>9. CASE Wrote(u, d, t[s].data, FsWrite(u, d, t[s].data, mem).tree)
    <3>1. PICK c \in Nat :
            t[s].data.len <= c /\ FsWrite(u, d, t[s].data, mem).tree = [u EXCEPT ![d] = File(t[s].data, c)]
      BY <2>9 DEF Wrote
    <3>2. PICK v : v = FsWrite(u, d, t[s].data, mem).tree
      OBVIOUS
    <3>3. v[d] = File(t[s].data, c) /\ v[s] = u[s] /\ DOMAIN v = DOMAIN u
      BY <2>2, <2>4, <3>1, <3>2
    <3>4. v[d].type = "file" /\ v[d].data = t[s].data
      BY <2>5, <3>1, <3>3, FileIs
    <3> QED BY <2>2, <2>4, <2>6, <2>7, <3>2, <3>3, <3>4
  <2> QED BY <2>7, <2>8, <2>9
<1> QED BY <1>1, <1>2, IsDirBool

LEMMA MoveSpec ==
  ASSUME NEW t, TreeOK(t), NEW s \in Paths, NEW d \in Paths, NEW mem \in BOOLEAN
  PROVE  LET m == FsMove(t, s, d, mem)
         IN  /\ TreeOK(m.tree)
             /\ s \in DOMAIN t =>
                  \/ s \in DOMAIN m.tree /\ m.tree[s] = t[s]
                  \/ d \in DOMAIN m.tree /\ m.tree[d].type = "file" /\ m.tree[d].data = t[s].data
<1>1. PICK c : c = FsCopy(t, s, d, mem)
  OBVIOUS
<1>2. /\ TreeOK(c.tree)
      /\ s \in DOMAIN t => s \in DOMAIN c.tree /\ c.tree[s] = t[s]
      /\ c.ok => /\ s \in DOMAIN t /\ s # d /\ d \in DOMAIN c.tree
                 /\ c.tree[d].type = "file" /\ c.tree[d].data = t[s].data
  BY <1>1, CopySpec
<1>3. CASE ~c.ok
  <2>1. FsMove(t, s, d, mem) = c
    BY <1>1, <1>3 DEF FsMove
  <2> QED BY <1>2, <2>1
<1>4. CASE c.ok
  <2>1. FsMove(t, s, d, mem) = FsRemove(c.tree, s)
    BY <1>1, <1>4 DEF FsMove
  <2>2. /\ TreeOK(FsRemove(c.tree, s).tree)
        /\ \/ FsRemove(c.tree, s).tree = c.tree
           \/ FsRemove(c.tree, s).tree = Only(c.tree, DOMAIN c.tree \ {s})
    BY <1>2, RemoveSpec
  <2>3. LET v == Only(c.tree, DOMAIN c.tree \ {s}) IN d \in DOMAIN v /\ v[d] = c.tree[d]
    BY <1>2, <1>4 DEF Only
  <2> QED BY <1>2, <1>4, <2>1, <2>2, <2>3
<1> QED BY <1>3, <1>4
-----------------------------------------------------------------------------
(* Paths and texts of the inputs *)

LEMMA ArgsArePaths == \A raw \in Args : raw \in Paths /\ Full(raw) \in Paths
<1> SUFFICES ASSUME NEW raw \in Args PROVE raw \in Paths /\ Full(raw) \in Paths
  OBVIOUS
<1>1. raw \in Seq(STRING) /\ Full(raw) \in Seq(STRING)
  BY PathsAssumption
<1>2. raw \in Seq(Range(raw)) /\ Full(raw) \in Seq(Range(Full(raw)))
  BY <1>1, SeqOfRange
<1>3. Range(raw) \subseteq PathNames /\ Range(Full(raw)) \subseteq PathNames
  BY DEF PathNames
<1> QED BY <1>2, <1>3, SeqMonotonic DEF Paths

LEMMA TextsAreText == Texts \cup {Empty} \subseteq Text
<1>1. \A d \in Texts : d \in [tag : {d.tag}, len : Nat] /\ d.tag \in Tags
  BY NamesAssumption DEF Tags
<1> QED BY <1>1, DirIs DEF Text

LEMMA CutIsText ==
  ASSUME NEW d \in Text, NEW n \in Nat
  PROVE  Cut(d, n) \in Text
BY DEF Cut, Text

LEMMA SentIs ==
  ASSUME NEW r \in Requests
  PROVE  /\ r.op \in {"create", "mkdir", "write", "remove"} /\ r.path \in Args /\ r.data \in Text
         /\ Sent(r).op = r.op /\ Sent(r).path = r.path /\ Sent(r).data \in Text
<1>1. r.op \in {"create", "mkdir", "write", "remove"} /\ r.path \in Args /\ r.data \in Text
  BY TextsAreText DEF Requests
<1>2. Sent(r).op = r.op /\ Sent(r).path = r.path /\ Sent(r).data = Cut(r.data, ReqMax)
  BY DEF Sent, Requests
<1> QED BY <1>1, <1>2, CutIsText, Limits
-----------------------------------------------------------------------------
(* fsd's own files and folders *)

Entry == [path : Paths, data : Text]
StoreOK(fs) ==
  /\ fs \in Seq(Entry) /\ Len(fs) <= StMax
  /\ \A i, j \in 1 .. Len(fs) : fs[i].path = fs[j].path => i = j
DirsOK(ds) == ds \in Seq(Paths) /\ Len(ds) <= DirMax

LEMMA FindSpec ==
  ASSUME NEW fs, StoreOK(fs), NEW p
  PROVE  \/ StFind(fs, p) = 0 /\ \A i \in 1 .. Len(fs) : fs[i].path # p
         \/ StFind(fs, p) \in 1 .. Len(fs) /\ fs[StFind(fs, p)].path = p
<1> DEFINE I == {i \in 1 .. Len(fs) : fs[i].path = p}
<1>1. StFind(fs, p) = IF I # {} THEN Min(I) ELSE 0
  BY DEF StFind, SelectInSeq
<1>2. I \in SUBSET Nat
  OBVIOUS
<1>3. I # {} => Min(I) \in I
  BY <1>2, MinIn
<1> QED BY <1>1, <1>3

LEMMA DirFindSpec ==
  ASSUME NEW ds, DirsOK(ds), NEW p
  PROVE  StDirFind(ds, p) # 0 => StDirFind(ds, p) \in 1 .. Len(ds)
<1> DEFINE I == {i \in 1 .. Len(ds) : ds[i] = p}
<1>1. StDirFind(ds, p) = IF I # {} THEN Min(I) ELSE 0
  BY DEF StDirFind, SelectInSeq
<1>2. I \in SUBSET Nat
  OBVIOUS
<1>3. I # {} => Min(I) \in I
  BY <1>2, MinIn
<1> QED BY <1>1, <1>3

LEMMA SetSpec ==
  ASSUME NEW fs, StoreOK(fs), NEW p \in Paths, NEW d \in Text
  PROVE  StoreOK(StSet(fs, p, d))
<1>1. PICK i, e : i = StFind(fs, p) /\ e = [path |-> p, data |-> Cut(d, StData - 1)]
  OBVIOUS
<1>2. e \in Entry /\ e.path = p
  <2>1. StData - 1 \in Nat
    BY Limits
  <2>2. Cut(d, StData - 1) \in Text
    BY <2>1, CutIsText
  <2> QED BY <1>1, <2>2 DEF Entry
<1>3. Len(fs) \in Nat /\ fs \in Seq(Entry)
  BY DEF StoreOK
<1>4. CASE i # 0
  <2>1. StSet(fs, p, d) = [fs EXCEPT ![i] = e] /\ i \in 1 .. Len(fs) /\ fs[i].path = p
    BY <1>1, <1>4, FindSpec DEF StSet
  <2> DEFINE g == [fs EXCEPT ![i] = e]
  <2>2. g \in Seq(Entry) /\ Len(g) = Len(fs) /\ \A j \in 1 .. Len(fs) : g[j].path = fs[j].path
    BY <1>2, <1>3, <2>1
  <2> HIDE DEF g
  <2>3. StoreOK(g)
    BY <2>2 DEF StoreOK
  <2> QED BY <2>1, <2>3 DEF g
<1>5. CASE i = 0 /\ Len(fs) >= StMax
  BY <1>1, <1>5 DEF StSet
<1>6. CASE i = 0 /\ ~(Len(fs) >= StMax)
  <2>0. StSet(fs, p, d) = Append(fs, e)
    BY <1>1, <1>6 DEF StSet
  <2>1. \A j \in 1 .. Len(fs) : fs[j].path # p
    <3>1. 0 \notin 1 .. Len(fs)
      BY <1>3
    <3> QED BY <1>1, <1>6, <3>1, FindSpec
  <2> DEFINE g == Append(fs, e)
  <2>2. /\ g \in Seq(Entry) /\ Len(g) = Len(fs) + 1 /\ g[Len(fs) + 1] = e
        /\ \A j \in 1 .. Len(fs) : g[j] = fs[j]
    BY <1>2, <1>3
  <2> HIDE DEF g
  <2>3. Len(g) <= StMax
    BY <1>3, <1>6, <2>2, Limits
  <2>4. \A j, k \in 1 .. Len(g) : g[j].path = g[k].path => j = k
    <3>1. \A j \in 1 .. Len(g) : j \in 1 .. Len(fs) \/ j = Len(fs) + 1
      BY <1>3, <2>2
    <3> QED BY <1>2, <2>1, <2>2, <3>1 DEF StoreOK
  <2> QED BY <2>0, <2>2, <2>3, <2>4 DEF StoreOK, g
<1> QED BY <1>4, <1>5, <1>6

\* The last file moves into the gap
LEMMA StRemoveSpec ==
  ASSUME NEW fs, StoreOK(fs), NEW p
  PROVE  StoreOK(StRemove(fs, p))
<1>1. PICK i : i = StFind(fs, p)
  OBVIOUS
<1>2. Len(fs) \in Nat /\ fs \in Seq(Entry) /\ Len(fs) <= StMax
  BY DEF StoreOK
<1>3. CASE i = 0
  BY <1>1, <1>3 DEF StRemove
<1>4. CASE i # 0
  <2>1. i \in 1 .. Len(fs) /\ StRemove(fs, p) = Front([fs EXCEPT ![i] = Last(fs)])
    BY <1>1, <1>4, FindSpec DEF StRemove
  <2>2. PICK n \in Nat : n = Len(fs) /\ n >= 1 /\ n - 1 \in Nat
    BY <1>2, <2>1
  <2> DEFINE g == [fs EXCEPT ![i] = Last(fs)]
             h == SubSeq(g, 1, n - 1)
  <2>3. Last(fs) = fs[n] /\ fs[n] \in Entry
    BY <1>2, <2>2 DEF Last
  <2>4. g \in Seq(Entry) /\ Len(g) = n /\ \A j \in 1 .. n : g[j] = IF j = i THEN fs[n] ELSE fs[j]
    BY <1>2, <2>1, <2>2, <2>3
  <2>5. StRemove(fs, p) = h
    BY <2>1, <2>4 DEF Front
  <2> HIDE DEF g
  <2>6. h \in Seq(Entry) /\ Len(h) = n - 1 /\ \A j \in 1 .. n - 1 : h[j] = g[j]
    BY <2>2, <2>4
  <2> HIDE DEF h
  <2>7. \A j \in 1 .. n - 1 : h[j] = (IF j = i THEN fs[n] ELSE fs[j]) /\ j \in 1 .. n /\ j # n
    BY <2>2, <2>4, <2>6
  <2>8. \A j, k \in 1 .. n : fs[j].path = fs[k].path => j = k
    BY <2>2 DEF StoreOK
  <2>9. n \in 1 .. n
    BY <2>2
  <2>10. \A j, k \in 1 .. n - 1 : h[j].path = h[k].path => j = k
    BY <2>7, <2>8, <2>9
  <2>11. Len(h) <= StMax
    BY <1>2, <2>2, <2>6, Limits
  <2> QED BY <2>5, <2>6, <2>10, <2>11 DEF StoreOK
<1> QED BY <1>3, <1>4

LEMMA RemoveAtSpec ==
  ASSUME NEW ds, DirsOK(ds), NEW i \in 1 .. Len(ds)
  PROVE  DirsOK(RemoveAt(ds, i))
<1>1. ds \in Seq(Paths) /\ Len(ds) \in Nat /\ Len(ds) <= DirMax /\ i \in Nat /\ i >= 1 /\ i <= Len(ds)
  BY DEF DirsOK
<1>2. PICK a, b : a = SubSeq(ds, 1, i - 1) /\ b = SubSeq(ds, i + 1, Len(ds))
  OBVIOUS
<1>3. a \in Seq(Paths) /\ Len(a) = i - 1
  BY <1>1, <1>2
<1>4. b \in Seq(Paths) /\ Len(b) = Len(ds) - i
  BY <1>1, <1>2
<1>5. RemoveAt(ds, i) = a \o b
  BY <1>2 DEF RemoveAt
<1>6. a \o b \in Seq(Paths) /\ Len(a \o b) = Len(ds) - 1
  BY <1>1, <1>3, <1>4
<1> QED BY <1>1, <1>5, <1>6, Limits DEF DirsOK
-----------------------------------------------------------------------------
(* The invariant *)

VfsInv ==
  /\ TreeOK(tree) /\ StoreOK(stFiles) /\ DirsOK(stDirs)
  /\ consented \in {{}, {c.path : c \in Contracts}}

LEMMA Pair ==
  ASSUME NEW S, NEW a \in S, NEW b \in S, NEW x \in Seq(S), Len(x) = 2, x[1] = a, x[2] = b
  PROVE  x = <<a, b>>
<1>1. <<a, b>> \in Seq(S) /\ Len(<<a, b>>) = 2
  OBVIOUS
<1>2. <<a, b>>[1] = a /\ <<a, b>>[2] = b
  OBVIOUS
<1>3. \A i \in 1 .. Len(x) : x[i] = <<a, b>>[i]
  BY <1>2
<1> QED BY <1>1, <1>3, SeqEqual

LEMMA FrontIs ==
  ASSUME NEW S, NEW s \in Seq(S), s # << >>
  PROVE  /\ Front(s) \in Seq(S) /\ Len(Front(s)) = Len(s) - 1
         /\ \A i \in 1 .. Len(s) - 1 : Front(s)[i] = s[i]
<1>1. Len(s) \in Nat /\ Len(s) >= 1
  OBVIOUS
<1>2. Front(s) \in Seq(S)
  BY <1>1 DEF Front
<1>3. Len(Front(s)) = Len(s) - 1
  BY <1>1 DEF Front
<1>4. \A i \in 1 .. Len(s) - 1 : Front(s)[i] = s[i]
  BY <1>1 DEF Front
<1> QED BY <1>2, <1>3, <1>4

LEMMA Front2 == ASSUME NEW a, NEW b PROVE Front(<<a, b>>) = <<a>>
<1> DEFINE S == {a, b}
<1>1. <<a, b>> \in Seq(S) /\ Len(<<a, b>>) = 2
  OBVIOUS
<1>2. <<a, b>>[1] = a
  OBVIOUS
<1>3. \A x \in Seq(S) : Len(x) = 1 /\ x[1] = a => x = <<a>>
  OBVIOUS
<1> HIDE DEF S
<1>4. \A s \in Seq(S) : Len(s) = 2 => Front(s) \in Seq(S) /\ Len(Front(s)) = 1 /\ Front(s)[1] = s[1]
  <2> SUFFICES ASSUME NEW s \in Seq(S), Len(s) = 2
               PROVE  Front(s) \in Seq(S) /\ Len(Front(s)) = 1 /\ Front(s)[1] = s[1]
    OBVIOUS
  <2>1. s # << >> /\ 1 \in 1 .. Len(s) - 1
    OBVIOUS
  <2>2. Front(s) \in Seq(S) /\ Len(Front(s)) = Len(s) - 1 /\ \A i \in 1 .. Len(s) - 1 : Front(s)[i] = s[i]
    BY <2>1, FrontIs, Zenon
  <2>3. Len(Front(s)) = 1
    BY <2>2
  <2> QED BY <2>1, <2>2, <2>3, Zenon
<1>5. Front(<<a, b>>) \in Seq(S) /\ Len(Front(<<a, b>>)) = 1 /\ Front(<<a, b>>)[1] = <<a, b>>[1]
  BY <1>1, <1>4, Zenon
<1> QED BY <1>2, <1>5, <1>3

LEMMA Front3 == ASSUME NEW a, NEW b, NEW c PROVE Front(<<a, b, c>>) = <<a, b>>
<1> DEFINE S == {a, b, c}
           q == <<a, b, c>>
<1>1. q \in Seq(S) /\ Len(q) = 3
  OBVIOUS
<1>2. q[1] = a /\ q[2] = b
  OBVIOUS
<1>3. a \in S /\ b \in S
  OBVIOUS
<1> HIDE DEF S
<1>4. \A s \in Seq(S) : Len(s) = 3 =>
        Front(s) \in Seq(S) /\ Len(Front(s)) = 2 /\ Front(s)[1] = s[1] /\ Front(s)[2] = s[2]
  <2> SUFFICES ASSUME NEW s \in Seq(S), Len(s) = 3
               PROVE  Front(s) \in Seq(S) /\ Len(Front(s)) = 2 /\ Front(s)[1] = s[1] /\ Front(s)[2] = s[2]
    OBVIOUS
  <2>1. s # << >> /\ 1 \in 1 .. Len(s) - 1 /\ 2 \in 1 .. Len(s) - 1
    OBVIOUS
  <2>2. Front(s) \in Seq(S) /\ Len(Front(s)) = Len(s) - 1 /\ \A i \in 1 .. Len(s) - 1 : Front(s)[i] = s[i]
    BY <2>1, FrontIs, Zenon
  <2>3. Len(Front(s)) = 2
    BY <2>2
  <2> QED BY <2>1, <2>2, <2>3, Zenon
<1>5. Front(q) \in Seq(S) /\ Len(Front(q)) = 2 /\ Front(q)[1] = q[1] /\ Front(q)[2] = q[2]
  BY <1>1, <1>4, Zenon
<1> QED BY <1>2, <1>5, <1>3, Pair

LEMMA Fronts ==
  /\ \A a : Front(<<a>>) = << >>
  /\ \A a, b : Front(<<a, b>>) = <<a>>
  /\ \A a, b, c : Front(<<a, b, c>>) = <<a, b>>
<1>1. ASSUME NEW a PROVE Front(<<a>>) = << >>
  BY DEF Front
<1> QED BY <1>1, Front2, Front3

LEMMA BootFileIs ==
  ASSUME NEW p \in BootFiles
  PROVE  p \in Paths \ {<< >>} /\ Front(p) \in BootDirs
<1>1. CASE p = <<"idios", "thais", "boas_vindas">>
  BY <1>1, Fronts DEF BootDirs, Paths, PathNames
<1>2. CASE \E a \in {"nomos", "paradosis", "synallagma", "bin", "praxis", "kormi"}, b \in PathNames : p = <<a, b>>
  <2>1. PICK a \in {"nomos", "paradosis", "synallagma", "bin", "praxis", "kormi"}, b \in PathNames : p = <<a, b>>
    BY <1>2
  <2>2. a \in PathNames
    BY DEF PathNames
  <2>3. Front(p) = <<a>> /\ <<a>> \in BootDirs
    BY <2>1, Fronts DEF BootDirs
  <2> QED BY <2>1, <2>2, <2>3 DEF Paths
<1>3. p # <<"idios", "thais", "boas_vindas">> =>
        \E a \in {"nomos", "paradosis", "synallagma", "bin", "praxis", "kormi"}, b \in PathNames : p = <<a, b>>
  <2>1. CASE p \in {<<"nomos", "manifesto">>, <<"paradosis", "exemplo">>}
    BY <2>1 DEF PathNames
  <2>2. CASE p \in Names("synallagma", DOMAIN Pactos)
    BY <2>2 DEF PathNames, Names
  <2>3. CASE p \in Names("bin", Modules \cup {Manifest[m] : m \in Modules})
    BY <2>3 DEF PathNames, Names
  <2>4. CASE p \in Names("praxis", Modules \cap {"spoudazo", "praxia"}) \cup Names("kormi", Kormi)
    BY <2>4 DEF PathNames, Names
  <2> QED BY <2>1, <2>2, <2>3, <2>4 DEF BootFiles
<1> QED BY <1>1, <1>2, <1>3

LEMMA BootDirIs ==
  ASSUME NEW p \in BootDirs
  PROVE  p \in Paths \ {<< >>} /\ (Front(p) = << >> \/ Front(p) \in BootDirs)
<1>1. CASE p = <<"idios", "thais">>
  BY <1>1, Fronts DEF BootDirs, Paths, PathNames
<1>2. CASE \E a \in PathNames : p = <<a>>
  BY <1>2, Fronts DEF Paths
<1> QED BY <1>1, <1>2 DEF BootDirs, PathNames

LEMMA BootOK == TreeOK(BootTree)
<1>1. /\ DOMAIN BootTree = BootDirs \cup BootFiles /\ BootTree = [p \in DOMAIN BootTree |-> BootTree[p]]
      /\ \A p \in BootDirs : BootTree[p] = Dir
      /\ \A p \in BootFiles : BootTree[p] = Dir \/ BootTree[p] = File(BootText, FirstCap)
  BY DEF BootTree
<1>2. BootText \in Text /\ BootText.len <= FirstCap
  BY Limits DEF BootText, Text, Tags
<1>3. File(BootText, FirstCap) \in Node /\ File(BootText, FirstCap).data.len <= File(BootText, FirstCap).cap
  BY <1>2, FileIs, Limits
<1>4. \A p \in DOMAIN BootTree : BootTree[p] \in Node /\ BootTree[p].data.len <= BootTree[p].cap
  BY <1>1, <1>3, DirIs
<1>5. \A p \in DOMAIN BootTree : p \in Paths \ {<< >>} /\ (Front(p) = << >> \/ Front(p) \in BootDirs)
  BY <1>1, BootFileIs, BootDirIs
<1>6. \A p \in DOMAIN BootTree : IsDir(BootTree, Front(p))
  BY <1>1, <1>5, DirIs DEF IsDir
<1> QED BY <1>1, <1>4, <1>5, <1>6, BootFits DEF TreeOK

LEMMA VfsInit == Init => VfsInv
<1> SUFFICES ASSUME Init PROVE VfsInv
  OBVIOUS
<1>1. TreeOK(tree)
  BY BootOK DEF Init
<1>2. StoreOK(stFiles)
  <2>1. PICK a, b : a = [path |-> <<"nomos", "manifesto">>, data |-> BootText]
                    /\ b = [path |-> <<"paradosis", "exemplo">>, data |-> BootText]
    OBVIOUS
  <2>2. <<"nomos", "manifesto">> \in Paths /\ <<"paradosis", "exemplo">> \in Paths /\ BootText \in Text
    BY DEF Paths, PathNames, BootText, Text, Tags
  <2>3. a \in Entry /\ b \in Entry /\ a.path # b.path
    BY <2>1, <2>2 DEF Entry
  <2>4. stFiles = <<a, b>>
    BY <2>1 DEF Init
  <2>5. stFiles \in Seq(Entry) /\ Len(stFiles) = 2 /\ stFiles[1] = a /\ stFiles[2] = b
    BY <2>3, <2>4
  <2> QED BY <2>3, <2>5, Limits DEF StoreOK
<1>3. DirsOK(stDirs)
  <2>1. PICK l : l = <<<<"bin">>, <<"kormi">>, <<"nomos">>, <<"paradosis">>, <<"idios">>, <<"oikos">>,
                       <<"synallagma">>, <<"praxis">>>>
    OBVIOUS
  <2>2. {<<"bin">>, <<"kormi">>, <<"nomos">>, <<"paradosis">>, <<"idios">>, <<"oikos">>,
         <<"synallagma">>, <<"praxis">>} \subseteq Paths
    BY DEF Paths, PathNames
  <2>3. l \in Seq(Paths) /\ Len(l) = 8
    BY <2>1, <2>2
  <2>4. stDirs = SubSeq(l, 1, IF 8 < DirMax THEN 8 ELSE DirMax)
    BY <2>1, <2>3 DEF Init, UpTo
  <2> QED BY <2>3, <2>4, Limits DEF DirsOK
<1> QED BY <1>1, <1>2, <1>3 DEF VfsInv, Init

-----------------------------------------------------------------------------
(* What vfs_create, vfs_write and vfs_remove do for a program, or for the shell *)

\* Nothing but the node at p differs
Same(t, u, p) == \A q : q # p => (q \in DOMAIN t <=> q \in DOMAIN u) /\ (q \in DOMAIN t => u[q] = t[q])

\* A sound tree, the same as before except, where the policy allows writing, at p
Outcome(u, p) == TreeOK(u) /\ (u = tree \/ (CheckCap(p, TRUE) /\ Same(tree, u, p)))

LEMMA SameTree == \A t, p : Same(t, t, p)
BY DEF Same

LEMMA CreateSame ==
  ASSUME NEW t, TreeOK(t), NEW p \in Paths, NEW type \in {"dir", "file"}
  PROVE  Same(t, FsCreate(t, p, type).tree, p)
<1>1. PICK node : node = IF type = "dir" THEN Dir ELSE File(Empty, 0)
  OBVIOUS
<1>2. Same(t, With(t, p, node), p)
  BY DEF Same, With
<1> QED BY <1>1, <1>2, CreateSpec, SameTree

LEMMA WriteSame ==
  ASSUME NEW t, TreeOK(t), NEW p \in Paths, NEW d \in Text, NEW mem \in BOOLEAN
  PROVE  Same(t, FsWrite(t, p, d, mem).tree, p)
<1>1. ASSUME NEW u, p \in DOMAIN t, Wrote(t, p, d, u)
      PROVE  Same(t, u, p)
  <2>1. PICK c \in Nat : u = [t EXCEPT ![p] = File(d, c)]
    BY <1>1 DEF Wrote
  <2>2. PICK f : f = File(d, c)
    OBVIOUS
  <2>3. u = [t EXCEPT ![p] = f]
    BY <2>1, <2>2
  <2>4. DOMAIN u = DOMAIN t /\ \A q \in DOMAIN t : q # p => u[q] = t[q]
    BY <2>3
  <2> QED BY <2>4 DEF Same
<1> QED BY <1>1, WriteSpec, SameTree

LEMMA RemoveSame ==
  ASSUME NEW t, TreeOK(t), NEW p \in Paths
  PROVE  Same(t, FsRemove(t, p).tree, p)
<1>1. Same(t, Only(t, DOMAIN t \ {p}), p)
  BY DEF Same, Only
<1> QED BY <1>1, RemoveSpec, SameTree

LEMMA SameTwice ==
  ASSUME NEW t, NEW u, NEW v, NEW p, Same(t, u, p), Same(u, v, p)
  PROVE  Same(t, v, p)
BY DEF Same

LEMMA VfsOps ==
  ASSUME VfsInv, NEW p \in Paths, NEW d \in Text, NEW mem \in BOOLEAN
  PROVE  /\ Outcome(VfsCreate(p, "file").tree, p) /\ Outcome(VfsCreate(p, "dir").tree, p)
         /\ Outcome(VfsWrite(p, d, mem).tree, p) /\ Outcome(VfsRemove(p).tree, p)
<1>1. TreeOK(tree)
  BY DEF VfsInv
<1>2. /\ TreeOK(FsCreate(tree, p, "file").tree) /\ TreeOK(FsCreate(tree, p, "dir").tree)
      /\ TreeOK(FsRemove(tree, p).tree)
      /\ Same(tree, FsCreate(tree, p, "file").tree, p) /\ Same(tree, FsCreate(tree, p, "dir").tree, p)
      /\ Same(tree, FsRemove(tree, p).tree, p)
  BY <1>1, CreateSpec, RemoveSpec, CreateSame, RemoveSame
<1>3. Outcome(VfsWrite(p, d, mem).tree, p)
  <2>1. PICK made : made = IF p = << >> \/ p \in DOMAIN tree THEN Done(tree) ELSE FsCreate(tree, p, "file")
    OBVIOUS
  <2>2. TreeOK(made.tree) /\ Same(tree, made.tree, p)
    BY <1>1, <1>2, <2>1, SameTree DEF Done
  <2>3. TreeOK(FsWrite(made.tree, p, d, mem).tree) /\ Same(tree, FsWrite(made.tree, p, d, mem).tree, p)
    BY <2>2, WriteSpec, WriteSame, SameTwice
  <2>4. CASE ~CheckCap(p, TRUE) \/ Pseudo(p) \/ ~made.ok
    BY <1>1, <2>1, <2>4 DEF VfsWrite, Failed, Outcome
  <2>5. CASE CheckCap(p, TRUE) /\ ~(Pseudo(p) \/ ~made.ok)
    <3>1. VfsWrite(p, d, mem) = FsWrite(made.tree, p, d, mem)
      BY <2>1, <2>5 DEF VfsWrite
    <3> QED BY <2>3, <2>5, <3>1 DEF Outcome
  <2> QED BY <2>4, <2>5
<1>4. CASE CheckCap(p, TRUE)
  BY <1>2, <1>3, <1>4 DEF VfsCreate, VfsRemove, Outcome
<1>5. CASE ~CheckCap(p, TRUE)
  BY <1>1, <1>3, <1>5 DEF VfsCreate, VfsRemove, Failed, Outcome
<1> QED BY <1>4, <1>5

\* What a system call of a program does to the tree
LEMMA FallBackTree ==
  ASSUME VfsInv, NEW r \in Requests, FallBack(r)
  PROVE  Outcome(tree', Full(r.path))
<1>1. r.op \in {"create", "mkdir", "write", "remove"} /\ r.data \in Text /\ Full(r.path) \in Paths
  BY SentIs, ArgsArePaths
<1>2. PICK mem \in BOOLEAN :
        tree' = CASE r.op = "create" -> VfsCreate(Full(r.path), "file").tree
                  [] r.op = "mkdir"  -> VfsCreate(Full(r.path), "dir").tree
                  [] r.op = "write"  -> VfsWrite(Full(r.path), r.data, mem).tree
                  [] r.op = "remove" -> VfsRemove(Full(r.path)).tree
  BY DEF FallBack
<1> QED BY <1>1, <1>2, VfsOps

\* What fsd does to its own files and folders, and to the tree
LEMMA FsdSpec ==
  ASSUME VfsInv, NEW r, r.op \in {"create", "mkdir", "write", "remove"}, r.path \in Args, r.data \in Text,
         NEW mem \in BOOLEAN
  PROVE  LET s == FsdSays(r, mem)
         IN  Outcome(s.tree, Full(r.path)) /\ StoreOK(s.files) /\ DirsOK(s.dirs)
<1> DEFINE p == r.path
           k == CASE r.op = "create" -> VfsCreate(Full(p), "file")
                  [] r.op = "mkdir"  -> VfsCreate(Full(p), "dir")
                  [] r.op = "write"  -> VfsWrite(Full(p), r.data, mem)
                  [] r.op = "remove" -> VfsRemove(Full(p))
           files == CASE r.op = "create" -> StSet(stFiles, p, Empty)
                      [] r.op = "write"  -> StSet(stFiles, p, r.data)
                      [] r.op = "remove" -> StRemove(stFiles, p)
                      [] OTHER -> stFiles
           di == StDirFind(stDirs, p)
           dirs == CASE r.op = "mkdir" /\ di = 0 /\ Len(stDirs) < DirMax -> Append(stDirs, p)
                     [] r.op = "remove" /\ files = stFiles /\ p \notin Roots /\ di # 0 -> RemoveAt(stDirs, di)
                     [] OTHER -> stDirs
<1>1. p \in Paths /\ Full(p) \in Paths /\ Empty \in Text
  BY ArgsArePaths, DirIs
<1>2. TreeOK(tree) /\ StoreOK(stFiles) /\ DirsOK(stDirs)
  BY DEF VfsInv
<1>3. Outcome(k.tree, Full(p)) /\ Outcome(tree, Full(p))
  BY <1>1, <1>2, VfsOps DEF Outcome
<1>4. StoreOK(files)
  BY <1>1, <1>2, SetSpec, StRemoveSpec
<1>5. DirsOK(dirs)
  <2> HIDE DEF files
  <2>1. ASSUME Len(stDirs) < DirMax PROVE DirsOK(Append(stDirs, p))
    BY <1>1, <1>2, <2>1, Limits DEF DirsOK
  <2>2. ASSUME di # 0 PROVE DirsOK(RemoveAt(stDirs, di))
    BY <1>2, <2>2, DirFindSpec, RemoveAtSpec
  <2> HIDE DEF di
  <2> QED BY <1>2, <2>1, <2>2
<1>6. /\ FsdSays(r, mem).tree = IF Owns(p) THEN tree ELSE k.tree
      /\ FsdSays(r, mem).files = IF Owns(p) THEN files ELSE stFiles
      /\ FsdSays(r, mem).dirs = IF Owns(p) THEN dirs ELSE stDirs
  BY DEF FsdSays
<1> QED BY <1>2, <1>3, <1>4, <1>5, <1>6

LEMMA AskStep ==
  ASSUME VfsInv, NEW r \in Requests, Ask(r)
  PROVE  Outcome(tree', Full(r.path)) /\ StoreOK(stFiles') /\ DirsOK(stDirs')
<1>1. PICK mem \in BOOLEAN : Serve(Sent(r), mem)
  BY DEF Ask, Answered
<1>2. LET s == FsdSays(Sent(r), mem) IN tree' = s.tree /\ stFiles' = s.files /\ stDirs' = s.dirs
  BY <1>1 DEF Serve
<1>3. LET s == FsdSays(Sent(r), mem)
      IN  Outcome(s.tree, Full(Sent(r).path)) /\ StoreOK(s.files) /\ DirsOK(s.dirs)
  BY SentIs, FsdSpec
<1> QED BY <1>2, <1>3, SentIs

\* edit_file of the ring-0 shell
LEMMA EditStep ==
  ASSUME VfsInv, NEW raw \in Args, NEW d \in Texts \cup {Empty}, KEdit(raw, d)
  PROVE  TreeOK(tree')
<1>1. PICK p, made : p = Full(raw)
        /\ made = IF p \in DOMAIN tree /\ ~IsDir(tree, p) THEN Done(tree) ELSE FsCreate(tree, p, "file")
  OBVIOUS
<1>2. p \in Paths /\ d \in Text /\ TreeOK(tree)
  BY <1>1, ArgsArePaths, TextsAreText DEF VfsInv
<1>3. TreeOK(made.tree)
  BY <1>1, <1>2, CreateSpec DEF Done
<1>4. PICK mem \in BOOLEAN : tree' = IF d = Empty THEN made.tree ELSE FsWrite(made.tree, p, d, mem).tree
  BY <1>1 DEF KEdit
<1> QED BY <1>2, <1>3, <1>4, WriteSpec

\* The commands cp and mv of the ring-0 shell
LEMMA CopyMoveStep ==
  ASSUME VfsInv, NEW s \in Args, NEW d \in Args, KCopy(s, d) \/ KMove(s, d)
  PROVE  TreeOK(tree')
<1>1. Full(s) \in Paths /\ Full(d) \in Paths /\ TreeOK(tree)
  BY ArgsArePaths DEF VfsInv
<1>2. \A mem \in BOOLEAN :
        TreeOK(FsCopy(tree, Full(s), Full(d), mem).tree) /\ TreeOK(FsMove(tree, Full(s), Full(d), mem).tree)
  BY <1>1, CopySpec, MoveSpec
<1>3. \A mem \in BOOLEAN :
        TreeOK(VfsCopy(Full(s), Full(d), mem).tree) /\ TreeOK(VfsMove(Full(s), Full(d), mem).tree)
  BY <1>1, <1>2 DEF VfsCopy, VfsMove, Failed
<1> QED BY <1>3 DEF KCopy, KMove

LEMMA VfsStep == VfsInv /\ [Next]_vars => VfsInv'
<1> SUFFICES ASSUME VfsInv, [Next]_vars PROVE VfsInv'
  OBVIOUS
<1>0. TreeOK(tree) /\ StoreOK(stFiles) /\ DirsOK(stDirs) /\ consented \in {{}, {c.path : c \in Contracts}}
  BY DEF VfsInv
<1>1. ASSUME TreeOK(tree'), StoreOK(stFiles'), DirsOK(stDirs'),
             consented' = consented \/ consented' = {c.path : c \in Contracts}
      PROVE  VfsInv'
  <2>1. consented' \in {{}, {c.path : c \in Contracts}}
    BY <1>0, <1>1
  <2>2. VfsInv' = (/\ TreeOK(tree') /\ StoreOK(stFiles') /\ DirsOK(stDirs')
                   /\ consented' \in {{}, {c.path : c \in Contracts}})
    BY DEF VfsInv, TreeOK, StoreOK, DirsOK, IsDir
  <2> QED BY <1>1, <2>1, <2>2
<1>2. ASSUME TreeOK(tree'), KernelOnly PROVE VfsInv'
  BY <1>0, <1>1, <1>2 DEF KernelOnly
<1>3. CASE \E r \in Requests : Ask(r)
  <2>1. PICK r \in Requests : Ask(r)
    BY <1>3
  <2>2. consented' = consented
    BY <2>1 DEF Ask, Answered
  <2> QED BY <1>1, <2>1, <2>2, AskStep DEF Outcome
<1>4. CASE \E r \in Requests : FallBack(r)
  <2>1. PICK r \in Requests : FallBack(r)
    BY <1>4
  <2>2. KernelOnly
    BY <2>1 DEF FallBack, KernelOnly
  <2> QED BY <1>2, <2>1, <2>2, FallBackTree DEF Outcome
<1>5. CASE LogIn
  BY <1>0, <1>1, <1>5 DEF LogIn
<1>6. CASE \E c \in Contracts, yes \in BOOLEAN : SyndMark(c.path, yes)
  BY <1>0, <1>1, <1>6 DEF SyndMark
<1>7. CASE \E p \in Args : KCreate(p, "file") \/ KCreate(p, "dir") \/ KRemove(p)
  <2>1. PICK p \in Args : KCreate(p, "file") \/ KCreate(p, "dir") \/ KRemove(p)
    BY <1>7
  <2>2. Full(p) \in Paths /\ Empty \in Text /\ TRUE \in BOOLEAN
    BY ArgsArePaths, DirIs
  <2>3. /\ TreeOK(VfsCreate(Full(p), "file").tree) /\ TreeOK(VfsCreate(Full(p), "dir").tree)
        /\ TreeOK(VfsRemove(Full(p)).tree)
    BY <2>2, VfsOps DEF Outcome
  <2> QED BY <1>2, <2>1, <2>3 DEF KCreate, KRemove
<1>8. CASE \E s, d \in Args : KCopy(s, d) \/ KMove(s, d)
  <2>1. PICK s \in Args, d \in Args : KCopy(s, d) \/ KMove(s, d)
    BY <1>8
  <2>2. KernelOnly
    BY <2>1 DEF KCopy, KMove
  <2> QED BY <1>2, <2>1, <2>2, CopyMoveStep
<1>9. CASE \E p \in Args, d \in Texts \cup {Empty} : KEdit(p, d)
  <2>1. PICK p \in Args, d \in Texts \cup {Empty} : KEdit(p, d)
    BY <1>9
  <2>2. KernelOnly
    BY <2>1 DEF KEdit
  <2> QED BY <1>2, <2>1, <2>2, EditStep
<1>10. CASE UNCHANGED vars
  BY <1>0, <1>1, <1>10 DEF vars
<1> QED BY <1>3, <1>4, <1>5, <1>6, <1>7, <1>8, <1>9, <1>10 DEF Next

LEMMA VfsInvariant == Spec => []VfsInv
BY VfsInit, VfsStep, PTL DEF Spec
-----------------------------------------------------------------------------
(* The theorems *)

\* fs.c and fsd: through any mix of creations, copies, moves, removals and edits, for any paths,
\* contracts and limits, every node hangs from a directory, the table is not overfull, no text is
\* longer than its buffer, and fsd's store keeps each path once and within its limits
THEOREM TreeStaysSound == Spec => []TreeSound
<1>1. VfsInv => TreeSound
  <2> SUFFICES ASSUME VfsInv PROVE TreeSound
    OBVIOUS
  <2>1. TreeOK(tree) /\ StoreOK(stFiles) /\ DirsOK(stDirs)
    BY DEF VfsInv
  <2>2. DOMAIN stFiles = 1 .. Len(stFiles)
    BY <2>1 DEF StoreOK
  <2> QED BY <2>1, <2>2 DEF TreeSound, TreeOK, StoreOK, DirsOK
<1> QED BY <1>1, VfsInvariant, PTL

\* fs_move of fs.c: whichever of its copy and its removal fails, the text moved is still in the
\* source or in the target
THEOREM MovesKeepText == Spec => MoveKeepsText
<1>1. ASSUME VfsInv, NEW s \in Args, NEW d \in Args, Full(s) \in DOMAIN tree, ~IsDir(tree, Full(s)),
             ~Holds(tree', Full(s), tree[Full(s)].data), KMove(s, d)
      PROVE  Holds(tree', Full(d), tree[Full(s)].data)
  <2>1. PICK a \in Paths, b \in Paths : a = Full(s) /\ b = Full(d)
    BY ArgsArePaths
  <2>2. TreeOK(tree) /\ tree[a].type = "file"
    BY <1>1, <2>1 DEF VfsInv, TreeOK, Node, IsDir
  <2>3. PICK mem \in BOOLEAN : tree' = VfsMove(a, b, mem).tree
    BY <1>1, <2>1 DEF KMove
  <2>4. tree' = tree \/ tree' = FsMove(tree, a, b, mem).tree
    BY <2>3 DEF VfsMove, Failed
  <2>5. a \in DOMAIN tree' /\ tree'[a] = tree[a] => Holds(tree', a, tree[a].data)
    BY <2>2 DEF Holds
  <2>6. CASE tree' = tree
    BY <1>1, <2>1, <2>5, <2>6
  <2>7. CASE tree' = FsMove(tree, a, b, mem).tree
    <3>1. \/ a \in DOMAIN tree' /\ tree'[a] = tree[a]
          \/ b \in DOMAIN tree' /\ tree'[b].type = "file" /\ tree'[b].data = tree[a].data
      BY <1>1, <2>1, <2>2, <2>7, MoveSpec
    <3> QED BY <1>1, <2>1, <2>5, <3>1 DEF Holds
  <2> QED BY <2>4, <2>6, <2>7
<1>2. VfsInv /\ [Next]_vars =>
        [\A s, d \in Args :
           LET from == Full(s)
           IN  from \in DOMAIN tree /\ ~IsDir(tree, from) /\ ~Holds(tree', from, tree[from].data) /\ KMove(s, d) =>
                 Holds(tree', Full(d), tree[from].data)]_vars
  BY <1>1
<1> QED BY <1>2, VfsInvariant, PTL DEF Spec, MoveKeepsText

\* Two functions that agree below root
LEMMA UnderSame ==
  ASSUME NEW t, NEW u, NEW p, NEW root, Same(t, u, p), ~IsPrefix(root, p)
  PROVE  Under(u, root) = Under(t, root)
<1>1. DOMAIN Under(t, root) = {q \in DOMAIN t : IsPrefix(root, q)}
  BY DEF Under, Only
<1>2. DOMAIN Under(u, root) = {q \in DOMAIN u : IsPrefix(root, q)}
  BY DEF Under, Only
<1>3. \A q : IsPrefix(root, q) => q # p
  OBVIOUS
<1>4. DOMAIN Under(u, root) = DOMAIN Under(t, root)
  BY <1>1, <1>2, <1>3 DEF Same
<1>5. \A q \in DOMAIN Under(t, root) : u[q] = t[q]
  BY <1>1, <1>3 DEF Same
<1>6. /\ Under(t, root) = [q \in DOMAIN Under(t, root) |-> t[q]]
      /\ Under(u, root) = [q \in DOMAIN Under(u, root) |-> u[q]]
  BY DEF Under, Only
<1> QED BY <1>4, <1>5, <1>6

\* vfs_check_cap grants no writing under /oikos, nor under a contract without consent
LEMMA NotWritable ==
  ASSUME VfsInv, NEW p \in Paths, CheckCap(p, TRUE),
         NEW root \in {<<"oikos">>} \cup ({c.path : c \in Contracts} \ consented)
  PROVE  ~IsPrefix(root, p)
<1> SUFFICES ASSUME IsPrefix(root, p) PROVE FALSE
  OBVIOUS
<1>1. \A c \in Contracts : c.path \in Seq(STRING) /\ c.path # << >> /\ Head(c.path) # "oikos"
  BY PactosAssumption DEF Contracts
<1>2. CASE root = <<"oikos">>
  <2>1. Covering(p) = {}
    <3> SUFFICES ASSUME NEW c \in Contracts, IsPrefix(c.path, p) PROVE FALSE
      BY DEF Covering
    <3>1. Len(p) >= 1 /\ p[1] = "oikos"
      BY <1>2 DEF IsPrefix, Paths
    <3>2. PICK x \in Seq(STRING) : x = c.path /\ x # << >> /\ Head(x) # "oikos"
      BY <1>1
    <3>3. x[1] = p[1]
      BY <3>1, <3>2 DEF IsPrefix, Paths
    <3> QED BY <3>1, <3>2, <3>3
  <2> QED BY <1>2, <2>1 DEF CheckCap
<1>3. CASE root \in {c.path : c \in Contracts} \ consented
  <2>1. consented = {}
    BY <1>3 DEF VfsInv
  <2>2. Covering(p) # {}
    BY <1>3 DEF Covering
  <2> QED BY <2>1, <2>2 DEF CheckCap
<1> QED BY <1>2, <1>3

\* vfs_check_cap, for programs: no request to fsd and no system call of theirs changes anything
\* under /oikos, or under a contract nobody has consented to at a login
THEOREM ProtectedStays == Spec => ProtectedKept
<1>1. ASSUME VfsInv, tree' # tree, \E r \in Requests : Ask(r) \/ FallBack(r),
             NEW root \in {<<"oikos">>} \cup ({c.path : c \in Contracts} \ consented)
      PROVE  Under(tree', root) = Under(tree, root)
  <2>1. PICK r \in Requests : Ask(r) \/ FallBack(r)
    BY <1>1
  <2>2. Outcome(tree', Full(r.path))
    BY <1>1, <2>1, AskStep, FallBackTree
  <2>3. Full(r.path) \in Paths
    BY SentIs, ArgsArePaths
  <2>4. CheckCap(Full(r.path), TRUE) /\ Same(tree, tree', Full(r.path))
    BY <1>1, <2>2 DEF Outcome
  <2>5. ~IsPrefix(root, Full(r.path))
    BY <1>1, <2>3, <2>4, NotWritable
  <2> QED BY <2>4, <2>5, UnderSame
<1>2. VfsInv /\ [Next]_vars =>
        [tree' # tree /\ (\E r \in Requests : Ask(r) \/ FallBack(r)) =>
           \A root \in {<<"oikos">>} \cup ({c.path : c \in Contracts} \ consented) :
             Under(tree', root) = Under(tree, root)]_vars
  BY <1>1
<1> QED BY <1>2, VfsInvariant, PTL DEF Spec, ProtectedKept
-----------------------------------------------------------------------------
(* What a read of fsd's own files finds is a matter of the set of its entries *)

Entries(fs) == {fs[j] : j \in 1 .. Len(fs)}
Lookup(fs, p) == LET i == StFind(fs, p) IN IF i = 0 THEN << >> ELSE <<fs[i].data>>

LEMMA LookupIs ==
  ASSUME NEW fs, StoreOK(fs), NEW q
  PROVE  \/ Lookup(fs, q) = << >> /\ \A e \in Entries(fs) : e.path # q
         \/ \E e \in Entries(fs) : e.path = q /\ Lookup(fs, q) = <<e.data>>
<1>1. CASE StFind(fs, q) = 0 /\ \A i \in 1 .. Len(fs) : fs[i].path # q
  BY <1>1 DEF Lookup, Entries
<1>2. CASE StFind(fs, q) \in 1 .. Len(fs) /\ fs[StFind(fs, q)].path = q
  <2>1. StFind(fs, q) # 0
    BY <1>2 DEF StoreOK
  <2> QED BY <1>2, <2>1 DEF Lookup, Entries
<1> QED BY <1>1, <1>2, FindSpec

LEMMA OneEntry ==
  ASSUME NEW fs, StoreOK(fs), NEW a \in Entries(fs), NEW b \in Entries(fs), a.path = b.path
  PROVE  a = b
BY DEF Entries, StoreOK

LEMMA SameLookup ==
  ASSUME NEW fs, StoreOK(fs), NEW gs, StoreOK(gs), NEW q,
         \A e : e.path = q => (e \in Entries(fs) <=> e \in Entries(gs))
  PROVE  Lookup(fs, q) = Lookup(gs, q)
<1>1. CASE \E e \in Entries(fs) : e.path = q
  <2>1. PICK e \in Entries(fs) : e.path = q
    BY <1>1
  <2>2. e \in Entries(gs)
    BY <2>1
  <2>3. Lookup(fs, q) = <<e.data>> /\ Lookup(gs, q) = <<e.data>>
    BY <2>1, <2>2, LookupIs, OneEntry
  <2> QED BY <2>3
<1>2. CASE \A e \in Entries(fs) : e.path # q
  <2>1. \A e \in Entries(gs) : e.path # q
    BY <1>2
  <2> QED BY <1>2, <2>1, LookupIs
<1> QED BY <1>1, <1>2

\* fsd_st_set: no room, or the entry of p and the others as they were
LEMMA SetEntries ==
  ASSUME NEW fs, StoreOK(fs), NEW p \in Paths, NEW d \in Text
  PROVE  LET new == [path |-> p, data |-> Cut(d, StData - 1)]
             g == StSet(fs, p, d)
         IN  \/ g = fs /\ StFind(fs, p) = 0
             \/ Entries(g) = {e \in Entries(fs) : e.path # p} \cup {new}
<1>1. PICK i, new : i = StFind(fs, p) /\ new = [path |-> p, data |-> Cut(d, StData - 1)]
  OBVIOUS
<1>2. Len(fs) \in Nat /\ fs \in Seq(Entry) /\ DOMAIN fs = 1 .. Len(fs)
  BY DEF StoreOK
<1>3. CASE i # 0
  <2>1. StSet(fs, p, d) = [fs EXCEPT ![i] = new] /\ i \in 1 .. Len(fs) /\ fs[i].path = p
    BY <1>1, <1>3, FindSpec DEF StSet
  <2>2. PICK g : g = [fs EXCEPT ![i] = new]
    OBVIOUS
  <2>3. /\ g[i] = new /\ \A j \in 1 .. Len(fs) : j # i => g[j] = fs[j]
        /\ DOMAIN g = 1 .. Len(fs)
    BY <1>2, <2>1, <2>2
  <2>4. Len(g) = Len(fs)
    BY <1>2, <2>3
  <2>5. \A j \in 1 .. Len(fs) : fs[j].path = p => j = i
    BY <2>1 DEF StoreOK
  <2>6. Entries(g) = {e \in Entries(fs) : e.path # p} \cup {new}
    <3>1. ASSUME NEW e \in Entries(g) PROVE e \in {x \in Entries(fs) : x.path # p} \cup {new}
      <4>1. PICK j \in 1 .. Len(fs) : e = g[j]
        BY <2>4 DEF Entries
      <4> QED BY <2>3, <2>5, <4>1 DEF Entries
    <3>2. ASSUME NEW e \in {x \in Entries(fs) : x.path # p} \cup {new} PROVE e \in Entries(g)
      <4>1. CASE e = new
        BY <2>1, <2>3, <2>4, <4>1 DEF Entries
      <4>2. CASE e \in Entries(fs) /\ e.path # p
        <5>1. PICK j \in 1 .. Len(fs) : e = fs[j]
          BY <4>2 DEF Entries
        <5>2. j # i
          BY <2>1, <4>2, <5>1
        <5> QED BY <2>3, <2>4, <5>1, <5>2 DEF Entries
      <4> QED BY <4>1, <4>2
    <3> QED BY <3>1, <3>2
  <2> QED BY <1>1, <2>1, <2>2, <2>6
<1>4. CASE i = 0 /\ Len(fs) >= StMax
  BY <1>1, <1>4 DEF StSet
<1>5. CASE i = 0 /\ ~(Len(fs) >= StMax)
  <2>1. StSet(fs, p, d) = Append(fs, new) /\ \A j \in 1 .. Len(fs) : fs[j].path # p
    <3>1. 0 \notin 1 .. Len(fs)
      BY <1>2
    <3> QED BY <1>1, <1>5, <3>1, FindSpec DEF StSet
  <2>2. PICK g : g = Append(fs, new)
    OBVIOUS
  <2>3. /\ Len(g) = Len(fs) + 1 /\ g[Len(fs) + 1] = new
        /\ \A j \in 1 .. Len(fs) : g[j] = fs[j]
    BY <1>2, <2>2
  <2>4. \A j : j \in 1 .. Len(g) <=> j \in 1 .. Len(fs) \/ j = Len(fs) + 1
    BY <1>2, <2>3
  <2>5. Entries(g) = {e \in Entries(fs) : e.path # p} \cup {new}
    BY <2>1, <2>3, <2>4 DEF Entries
  <2> QED BY <1>1, <2>1, <2>2, <2>5
<1> QED BY <1>3, <1>4, <1>5

\* fsd_st_remove: the entry of p goes, the others stay
LEMMA RemoveEntries ==
  ASSUME NEW fs, StoreOK(fs), NEW p
  PROVE  Entries(StRemove(fs, p)) = {e \in Entries(fs) : e.path # p}
<1>1. PICK i : i = StFind(fs, p)
  OBVIOUS
<1>2. Len(fs) \in Nat /\ fs \in Seq(Entry) /\ DOMAIN fs = 1 .. Len(fs)
  BY DEF StoreOK
<1>3. CASE i = 0
  <2>1. \A j \in 1 .. Len(fs) : fs[j].path # p
    <3>1. 0 \notin 1 .. Len(fs)
      BY <1>2
    <3> QED BY <1>1, <1>3, <3>1, FindSpec
  <2> QED BY <1>1, <1>3, <2>1 DEF StRemove, Entries
<1>4. CASE i # 0
  <2>1. i \in 1 .. Len(fs) /\ fs[i].path = p /\ StRemove(fs, p) = Front([fs EXCEPT ![i] = Last(fs)])
    BY <1>1, <1>4, FindSpec DEF StRemove
  <2>2. PICK n \in Nat : n = Len(fs) /\ n >= 1 /\ n - 1 \in Nat
    <3>1. i \in 1 .. Len(fs)
      BY <2>1
    <3>2. Len(fs) \in Nat /\ Len(fs) >= 1 /\ Len(fs) - 1 \in Nat
      BY <1>2, <3>1
    <3> QED BY <3>2
  <2>3. Last(fs) = fs[n] /\ fs[n] \in Entry
    BY <1>2, <2>2 DEF Last
  <2>4. PICK g : g = [fs EXCEPT ![i] = Last(fs)]
    OBVIOUS
  <2>5. g \in Seq(Entry) /\ Len(g) = n /\ \A j \in 1 .. n : g[j] = IF j = i THEN fs[n] ELSE fs[j]
    BY <1>2, <2>1, <2>2, <2>3, <2>4
  <2>6. PICK h : h = Front(g)
    OBVIOUS
  <2>7. h = SubSeq(g, 1, n - 1)
    BY <2>5, <2>6 DEF Front
  <2>8. Len(h) = n - 1 /\ \A j \in 1 .. n - 1 : h[j] = g[j]
    BY <2>2, <2>5, <2>7
  <2>9. \A j \in 1 .. n : fs[j].path = p => j = i
    BY <2>1, <2>2 DEF StoreOK
  <2>10. \A j \in 1 .. n - 1 : h[j] = (IF j = i THEN fs[n] ELSE fs[j]) /\ j \in 1 .. n /\ j # n
    BY <2>2, <2>5, <2>8
  <2>11. \A j \in 1 .. n : j = n \/ j \in 1 .. n - 1
    BY <2>2
  <2>12. n \in 1 .. n /\ i \in 1 .. n
    BY <2>1, <2>2
  <2>13. ASSUME NEW e \in Entries(h) PROVE e \in Entries(fs) /\ e.path # p
    <3>1. PICK j \in 1 .. n - 1 : e = h[j]
      BY <2>8 DEF Entries
    <3> QED BY <2>2, <2>9, <2>10, <2>12, <3>1 DEF Entries
  <2>14. ASSUME NEW e \in Entries(fs), e.path # p PROVE e \in Entries(h)
    <3>1. PICK j \in 1 .. n : e = fs[j]
      BY <2>2 DEF Entries
    <3>2. j # i
      BY <2>1, <2>14, <3>1
    <3>3. CASE j = n
      <4>1. i \in 1 .. n - 1 /\ h[i] = fs[n]
        BY <2>10, <2>11, <2>12, <3>2, <3>3
      <4> QED BY <2>8, <3>1, <3>3, <4>1 DEF Entries
    <3>4. CASE j \in 1 .. n - 1
      <4>1. h[j] = fs[j]
        BY <2>10, <3>2, <3>4
      <4> QED BY <2>8, <3>1, <3>4, <4>1 DEF Entries
    <3> QED BY <2>11, <3>1, <3>3, <3>4
  <2> QED BY <2>1, <2>4, <2>6, <2>13, <2>14
<1> QED BY <1>3, <1>4

\* What a read of the tree finds
ReadOf(t, p) ==
  IF CheckCap(p, FALSE) /\ ~Pseudo(p) /\ p \in DOMAIN t /\ ~IsDir(t, p) THEN <<t[p].data>> ELSE << >>

LEMMA ReadsNext ==
  ASSUME NEW raw, consented' = consented
  PROVE  /\ FsdRead(raw) = IF Owns(raw) THEN Lookup(stFiles, raw) ELSE ReadOf(tree, Full(raw))
         /\ FsdRead(raw)' = IF Owns(raw) THEN Lookup(stFiles', raw) ELSE ReadOf(tree', Full(raw))
<1>1. FsdRead(raw) = IF Owns(raw) THEN Lookup(stFiles, raw) ELSE ReadOf(tree, Full(raw))
  BY DEF FsdRead, Lookup, VfsRead, ReadOf
<1>2. \A p : CheckCap(p, FALSE)' = CheckCap(p, FALSE)
  BY DEF CheckCap
<1>3. \A p : VfsRead(p)' = ReadOf(tree', p)
  BY <1>2 DEF VfsRead, ReadOf, IsDir, Pseudo
<1>4. FsdRead(raw)' = IF Owns(raw) THEN Lookup(stFiles', raw) ELSE ReadOf(tree', Full(raw))
  BY <1>3 DEF FsdRead, Lookup
<1> QED BY <1>1, <1>4

\* A request that fsd serves from its own files, and grants
LEMMA OwnGranted ==
  ASSUME VfsInv, NEW r \in Requests, NEW mem \in BOOLEAN, Owns(r.path), FsdSays(Sent(r), mem).ok
  PROVE  LET g == FsdSays(Sent(r), mem).files
         IN  /\ FsdSays(Sent(r), mem).tree = tree
             /\ \A q : q # r.path => Lookup(g, q) = Lookup(stFiles, q)
             /\ r.op = "write" => Lookup(g, r.path) = <<Sent(r).data>>
             /\ r.op = "create" => Lookup(g, r.path) = <<Empty>>
             /\ r.op = "remove" => Lookup(g, r.path) = << >>
<1>1. PICK p, d, fs : p = r.path /\ d = Sent(r).data /\ fs = stFiles
  OBVIOUS
<1>2. /\ p \in Paths /\ d \in Text /\ Empty \in Text /\ StoreOK(fs)
      /\ r.op \in {"create", "mkdir", "write", "remove"} /\ Sent(r).op = r.op /\ Sent(r).path = p
  BY <1>1, SentIs, ArgsArePaths, DirIs DEF VfsInv
<1>3. PICK g : g = FsdSays(Sent(r), mem).files
  OBVIOUS
<1>4. /\ FsdSays(Sent(r), mem).tree = tree
      /\ g = CASE r.op = "create" -> StSet(fs, p, Empty)
               [] r.op = "write"  -> StSet(fs, p, d)
               [] r.op = "remove" -> StRemove(fs, p)
               [] OTHER -> fs
      /\ r.op \in {"create", "write"} => StFind(g, p) # 0
  BY <1>1, <1>2, <1>3 DEF FsdSays
<1>5. Cut(d, StData - 1) = d /\ Cut(Empty, StData - 1) = Empty
  <2>1. ReqMax \in Nat /\ StData \in Nat /\ ReqMax <= StData - 1 /\ StData - 1 >= 0
    BY Limits, RequestFits
  <2>2. r.data \in Text
    BY SentIs
  <2>3. Sent(r).data = Cut(r.data, ReqMax)
    BY DEF Sent, Requests
  <2>4. d.len <= ReqMax /\ d.len \in Nat
    BY <1>1, <2>1, <2>2, <2>3 DEF Cut, Text
  <2>5. ~(d.len > StData - 1) /\ ~(Empty.len > StData - 1)
    BY <2>1, <2>4, DirIs
  <2> QED BY <2>5 DEF Cut
<1>6. ASSUME NEW x \in Text, Cut(x, StData - 1) = x, g = StSet(fs, p, x), StFind(g, p) # 0
      PROVE  Lookup(g, p) = <<x>> /\ \A q : q # p => Lookup(g, q) = Lookup(fs, q)
  <2>1. StoreOK(g)
    BY <1>2, <1>6, SetSpec
  <2>2. PICK new : new = [path |-> p, data |-> x]
    OBVIOUS
  <2>3. Entries(g) = {e \in Entries(fs) : e.path # p} \cup {new}
    BY <1>2, <1>6, <2>2, SetEntries
  <2>4. new.path = p /\ new.data = x /\ new \in Entries(g)
    BY <2>2, <2>3
  <2>5. Lookup(g, p) = <<x>>
    BY <2>1, <2>4, LookupIs, OneEntry
  <2>6. ASSUME NEW q, q # p PROVE Lookup(g, q) = Lookup(fs, q)
    <3>1. \A e : e.path = q => (e \in Entries(g) <=> e \in Entries(fs))
      BY <2>3, <2>4, <2>6
    <3> QED BY <1>2, <2>1, <3>1, SameLookup
  <2> QED BY <2>5, <2>6
<1>7. CASE r.op = "create"
  BY <1>1, <1>2, <1>3, <1>4, <1>5, <1>6, <1>7
<1>8. CASE r.op = "write"
  BY <1>1, <1>2, <1>3, <1>4, <1>5, <1>6, <1>8
<1>9. CASE r.op = "remove"
  <2>1. g = StRemove(fs, p)
    BY <1>4, <1>9
  <2>2. StoreOK(g) /\ Entries(g) = {e \in Entries(fs) : e.path # p}
    BY <1>2, <2>1, StRemoveSpec, RemoveEntries
  <2>3. Lookup(g, p) = << >>
    BY <2>2, LookupIs
  <2>4. ASSUME NEW q, q # p PROVE Lookup(g, q) = Lookup(fs, q)
    <3>1. \A e : e.path = q => (e \in Entries(g) <=> e \in Entries(fs))
      BY <2>2, <2>4
    <3> QED BY <1>2, <2>2, <3>1, SameLookup
  <2> QED BY <1>1, <1>3, <1>4, <1>9, <2>3, <2>4
<1>10. CASE r.op = "mkdir"
  BY <1>1, <1>3, <1>4, <1>10
<1> QED BY <1>2, <1>7, <1>8, <1>9, <1>10

\* A request that fsd passes on to the kernel, which grants it
LEMMA PassedGranted ==
  ASSUME VfsInv, NEW r \in Requests, NEW mem \in BOOLEAN, ~Owns(r.path), FsdSays(Sent(r), mem).ok
  PROVE  LET u == FsdSays(Sent(r), mem).tree
             p == Full(r.path)
         IN  /\ FsdSays(Sent(r), mem).files = stFiles
             /\ Same(tree, u, p)
             /\ r.op = "write" => p \in DOMAIN u /\ ~IsDir(u, p) /\ u[p].data = Sent(r).data
             /\ r.op = "create" => p \in DOMAIN u /\ ~IsDir(u, p) /\ u[p].data = Empty
             /\ r.op = "remove" => p \notin DOMAIN u
<1>1. PICK p, d : p = Full(r.path) /\ d = Sent(r).data
  OBVIOUS
<1>2. /\ p \in Paths /\ d \in Text /\ Empty \in Text /\ TreeOK(tree)
      /\ r.op \in {"create", "mkdir", "write", "remove"} /\ Sent(r).op = r.op /\ Sent(r).path = r.path
      /\ r.path \in Args
  BY <1>1, SentIs, ArgsArePaths, DirIs DEF VfsInv
<1>3. PICK u : u = FsdSays(Sent(r), mem).tree
  OBVIOUS
<1>4. PICK k : k = CASE r.op = "create" -> VfsCreate(p, "file")
                     [] r.op = "mkdir"  -> VfsCreate(p, "dir")
                     [] r.op = "write"  -> VfsWrite(p, d, mem)
                     [] r.op = "remove" -> VfsRemove(p)
  OBVIOUS
<1>5. FsdSays(Sent(r), mem).files = stFiles /\ u = k.tree /\ k.ok
  BY <1>1, <1>2, <1>3, <1>4 DEF FsdSays
<1>6. Same(tree, u, p)
  <2>1. Outcome(u, p)
    BY <1>2, <1>4, <1>5, VfsOps
  <2> QED BY <2>1, SameTree DEF Outcome
<1>7. CASE r.op = "create"
  <2>1. k = FsCreate(tree, p, "file")
    BY <1>4, <1>5, <1>7 DEF VfsCreate, Failed
  <2>2. p # << >> /\ u = With(tree, p, File(Empty, 0))
    BY <1>2, <1>5, <2>1, CreateSpec
  <2>3. PICK f : f = File(Empty, 0) /\ u = With(tree, p, f)
    BY <2>2
  <2>4. p \in DOMAIN u /\ u[p] = f
    BY <2>3 DEF With
  <2>5. f.type = "file" /\ f.data = Empty
    BY <2>3 DEF File
  <2>6. ~IsDir(u, p) /\ u[p].data = Empty
    BY <2>2, <2>4, <2>5 DEF IsDir
  <2> QED BY <1>1, <1>3, <1>5, <1>6, <1>7, <2>4, <2>6
<1>8. CASE r.op = "write"
  <2>1. PICK made : made = IF p = << >> \/ p \in DOMAIN tree THEN Done(tree) ELSE FsCreate(tree, p, "file")
    OBVIOUS
  <2>2. TreeOK(made.tree)
    BY <1>2, <2>1, CreateSpec DEF Done
  <2>3. k = FsWrite(made.tree, p, d, mem)
    BY <1>4, <1>5, <1>8, <2>1 DEF VfsWrite, Failed
  <2>4. p \in DOMAIN made.tree /\ ~IsDir(made.tree, p) /\ Wrote(made.tree, p, d, u)
    BY <1>2, <1>5, <2>2, <2>3, WriteSpec
  <2>5. PICK c \in Nat : d.len <= c /\ u = [made.tree EXCEPT ![p] = File(d, c)]
    BY <2>4 DEF Wrote
  <2>6. p \in DOMAIN u /\ u[p] = File(d, c) /\ p # << >>
    BY <2>4, <2>5 DEF IsDir
  <2>7. ~IsDir(u, p) /\ u[p].data = d
    BY <1>2, <2>5, <2>6, FileIs DEF IsDir
  <2> QED BY <1>1, <1>3, <1>5, <1>6, <1>8, <2>6, <2>7
<1>9. CASE r.op = "remove"
  <2>1. k = FsRemove(tree, p)
    BY <1>4, <1>5, <1>9 DEF VfsRemove, Failed
  <2>2. u = Only(tree, DOMAIN tree \ {p})
    BY <1>2, <1>5, <2>1, RemoveSpec
  <2>3. p \notin DOMAIN u
    BY <2>2 DEF Only
  <2> QED BY <1>1, <1>3, <1>5, <1>6, <1>9, <2>3
<1>10. CASE r.op = "mkdir"
  BY <1>1, <1>3, <1>5, <1>6, <1>10
<1> QED BY <1>2, <1>7, <1>8, <1>9, <1>10

\* fsd's handler answers for what it did: after any request it granted, a read through it finds
\* the text written, where reading is allowed, and no removed file, and every other file reads as
\* before, whether it lies in fsd's store or in the kernel's tree
THEOREM ServiceStaysCoherent == Spec => ServiceCoherent
<1>1. ASSUME VfsInv, NEW r \in Requests, NEW mem \in BOOLEAN, Answered(r, mem), FsdSays(Sent(r), mem).ok
      PROVE  /\ \A p \in {q \in Args : FsdRead(q)' # FsdRead(q)} : p = r.path \/ Full(p) = Full(r.path)
             /\ r.op = "write"  /\ Readable(r.path) => FsdRead(r.path)' = <<Sent(r).data>>
             /\ r.op = "create" /\ Readable(r.path) => FsdRead(r.path)' = <<Empty>>
             /\ r.op = "remove" => FsdRead(r.path)' = << >>
  <2>1. Serve(Sent(r), mem)
    BY <1>1 DEF Answered
  <2>2. tree' = FsdSays(Sent(r), mem).tree /\ stFiles' = FsdSays(Sent(r), mem).files /\ consented' = consented
    BY <1>1, <2>1 DEF Serve, Answered
  <2>3. FsdSays(Sent(r), mem).ok
    BY <1>1
  <2>4. \A q : /\ FsdRead(q) = IF Owns(q) THEN Lookup(stFiles, q) ELSE ReadOf(tree, Full(q))
               /\ FsdRead(q)' = IF Owns(q) THEN Lookup(stFiles', q) ELSE ReadOf(tree', Full(q))
    BY <2>2, ReadsNext
  <2>5. CASE Owns(r.path)
    <3>1. /\ tree' = tree /\ \A q : q # r.path => Lookup(stFiles', q) = Lookup(stFiles, q)
          /\ r.op = "write" => Lookup(stFiles', r.path) = <<Sent(r).data>>
          /\ r.op = "create" => Lookup(stFiles', r.path) = <<Empty>>
          /\ r.op = "remove" => Lookup(stFiles', r.path) = << >>
      BY <1>1, <2>2, <2>3, <2>5, OwnGranted
    <3>2. \A q : q # r.path => FsdRead(q)' = FsdRead(q)
      BY <2>4, <3>1
    <3>3. FsdRead(r.path)' = Lookup(stFiles', r.path)
      BY <2>4, <2>5
    <3> QED BY <3>1, <3>2, <3>3
  <2>6. CASE ~Owns(r.path)
    <3>1. PICK p : p = Full(r.path)
      OBVIOUS
    <3>2. /\ stFiles' = stFiles /\ Same(tree, tree', p)
          /\ r.op = "write" => p \in DOMAIN tree' /\ ~IsDir(tree', p) /\ tree'[p].data = Sent(r).data
          /\ r.op = "create" => p \in DOMAIN tree' /\ ~IsDir(tree', p) /\ tree'[p].data = Empty
          /\ r.op = "remove" => p \notin DOMAIN tree'
      BY <1>1, <2>2, <2>3, <2>6, <3>1, PassedGranted
    <3>3. \A q : q # p => ReadOf(tree', q) = ReadOf(tree, q)
      BY <3>2 DEF ReadOf, Same, IsDir
    <3>4. \A q : Full(q) # p => FsdRead(q)' = FsdRead(q)
      BY <2>4, <3>2, <3>3
    <3>5. FsdRead(r.path)' = ReadOf(tree', p)
      BY <2>4, <2>6, <3>1
    <3>6. Readable(r.path) => CheckCap(p, FALSE) /\ ~Pseudo(p)
      BY <2>6, <3>1 DEF Readable
    <3>7. /\ r.op = "write"  /\ Readable(r.path) => ReadOf(tree', p) = <<Sent(r).data>>
          /\ r.op = "create" /\ Readable(r.path) => ReadOf(tree', p) = <<Empty>>
          /\ r.op = "remove" => ReadOf(tree', p) = << >>
      BY <3>2, <3>6 DEF ReadOf
    <3> QED BY <3>1, <3>4, <3>5, <3>7
  <2> QED BY <2>5, <2>6
<1>2. VfsInv /\ [Next]_vars =>
        [LET changed == {p \in Args : FsdRead(p)' # FsdRead(p)}
         IN  \A r \in Requests, mem \in BOOLEAN :
               Answered(r, mem) /\ FsdSays(Sent(r), mem).ok =>
                 /\ \A p \in changed : p = r.path \/ Full(p) = Full(r.path)
                 /\ r.op = "write"  /\ Readable(r.path) => FsdRead(r.path)' = <<Sent(r).data>>
                 /\ r.op = "create" /\ Readable(r.path) => FsdRead(r.path)' = <<Empty>>
                 /\ r.op = "remove" => FsdRead(r.path)' = << >>]_vars
  BY <1>1
<1> QED BY <1>2, VfsInvariant, PTL DEF Spec, ServiceCoherent
=============================================================================
