--------------------------- MODULE KeyboardProofs ---------------------------
(***************************************************************************)
(* Proofs about Keyboard, for any maps of keys, dead keys and number of    *)
(* strokes: until the driver starts the kernel's decoder keeps every       *)
(* character the user meant, in order, and a key comes twice from the two  *)
(* decoders only if both were about to read its byte.                      *)
(*                                                                         *)
(* The bytes in the controller and those on the wire are one stream, which *)
(* grows behind and which decoders eat from the front.  A byte read again  *)
(* is not of the stream any more; its key is one of those that raced.      *)
(***************************************************************************)
EXTENDS Keyboard, SequenceTheorems, WellFoundedInduction, TLAPS

\* A set of numbers that is not empty has a least one
LEMMA LeastOf ==
  ASSUME NEW S \in SUBSET Nat, S # {}
  PROVE  \E x \in S : \A y \in S : x <= y
<1> DEFINE R == {p \in Nat \X Nat : p[1] < p[2]}
<1>1. IsWellFoundedOn(R, Nat)
  BY NatLessThanWellFounded, Zenon DEF OpToRel
<1> HIDE DEF R
<1>2. PICK x \in S : \A y \in S : ~(<<y, x>> \in R)
  BY <1>1, WFMin
<1>3. ASSUME NEW y \in S PROVE x <= y
  <2>1. x \in Nat /\ y \in Nat /\ <<y, x>> \in Nat \X Nat
    OBVIOUS
  <2>2. ~(<<y, x>>[1] < <<y, x>>[2])
    BY <1>2, <2>1, Zenon DEF R
  <2> QED BY <2>1, <2>2
<1> QED BY <1>3
-----------------------------------------------------------------------------
(* Sequences without their spaces *)

\* f[n] is the first n members of s without the spaces
Spaceless(s, N, f) ==
  f = [n \in 0 .. N |-> IF n = 0 THEN << >> ELSE IF s[n].ch = " " THEN f[n - 1] ELSE Append(f[n - 1], s[n])]

LEMMA SpacelessGrows ==
  ASSUME NEW s, NEW N \in Nat, NEW M \in Nat, M = N + 1, NEW g, Spaceless(s, N, g)
  PROVE  \E f : Spaceless(s, M, f)
<1>1. M # 0 /\ M - 1 = N /\ N \in 0 .. M /\ N # M
  OBVIOUS
<1>2. PICK last : last = IF s[M].ch = " " THEN g[N] ELSE Append(g[N], s[M])
  OBVIOUS
<1>3. PICK f : f = [n \in 0 .. M |-> IF n = M THEN last ELSE g[n]]
  OBVIOUS
<1>4. \A n \in 0 .. N : g[n] = IF n = 0 THEN << >> ELSE IF s[n].ch = " " THEN g[n - 1] ELSE Append(g[n - 1], s[n])
  BY DEF Spaceless
<1>5. ASSUME NEW n \in 0 .. M
      PROVE  f[n] = IF n = 0 THEN << >> ELSE IF s[n].ch = " " THEN f[n - 1] ELSE Append(f[n - 1], s[n])
  <2>1. CASE n = M
    <3>1. f[N] = g[N] /\ f[n] = last
      BY <1>3, <1>1, <2>1
    <3> QED BY <1>2, <1>1, <2>1, <3>1
  <2>2. CASE n # M /\ n # 0
    <3>1. n \in 0 .. N /\ n - 1 \in 0 .. M /\ n - 1 # M
      BY <1>1, <2>2
    <3>2. f[n] = g[n] /\ f[n - 1] = g[n - 1]
      BY <1>3, <2>2, <3>1
    <3> QED BY <1>4, <2>2, <3>1, <3>2
  <2>3. CASE n = 0
    <3>1. 0 \in 0 .. N /\ f[0] = g[0]
      BY <1>3, <1>1, <2>3
    <3> QED BY <1>4, <2>3, <3>1
  <2> QED BY <2>1, <2>2, <2>3
<1>6. f = [n \in 0 .. M |-> IF n = 0 THEN << >> ELSE IF s[n].ch = " " THEN f[n - 1] ELSE Append(f[n - 1], s[n])]
  BY <1>3, <1>5
<1> QED BY <1>6 DEF Spaceless

LEMMA SpacelessExists ==
  ASSUME NEW s
  PROVE  \A N \in Nat : \E g : Spaceless(s, N, g)
<1> DEFINE Bad == {N \in Nat : ~\E g : Spaceless(s, N, g)}
<1>1. SUFFICES ASSUME Bad # {} PROVE FALSE
  OBVIOUS
<1>2. PICK N \in Nat : N \in Bad /\ \A y \in Bad : N <= y
  <2>1. Bad \in SUBSET Nat
    OBVIOUS
  <2> HIDE DEF Bad
  <2> QED BY <1>1, <2>1, LeastOf
<1>3. CASE N = 0
  <2>1. PICK g : g = [n \in 0 .. 0 |-> << >>]
    OBVIOUS
  <2>2. \A n \in 0 .. 0 : n = 0
    OBVIOUS
  <2>3. Spaceless(s, 0, g)
    BY <2>1, <2>2 DEF Spaceless
  <2> QED BY <1>2, <1>3, <2>3
<1>4. CASE N # 0
  <2>1. PICK L \in Nat : N = L + 1
    <3>1. N - 1 \in Nat /\ N = (N - 1) + 1
      BY <1>4
    <3> QED BY <3>1
  <2>2. L \notin Bad
    BY <1>2, <2>1
  <2>3. PICK g : Spaceless(s, L, g)
    BY <2>2
  <2> QED BY <1>2, <2>1, <2>3, SpacelessGrows
<1> QED BY <1>3, <1>4

\* It depends on the first N members only
StartAlike(s, t, N, M, f, g) ==
  /\ N \in Nat /\ M \in Nat /\ N <= M /\ \A n \in 1 .. N : s[n] = t[n]
  /\ Spaceless(s, N, f) /\ Spaceless(t, M, g)
SameTo(N, f, g) == \A n \in 0 .. N : f[n] = g[n]
LEMMA SpacelessSame ==
  ASSUME NEW s, NEW t, NEW N, NEW M, NEW f, NEW g, StartAlike(s, t, N, M, f, g)
  PROVE  SameTo(N, f, g)
<1>0. /\ N \in Nat /\ M \in Nat /\ N <= M /\ \A n \in 1 .. N : s[n] = t[n]
      /\ Spaceless(s, N, f) /\ Spaceless(t, M, g)
  BY DEF StartAlike
<1> DEFINE Bad == {n \in 0 .. N : f[n] # g[n]}
<1>1. SUFFICES ASSUME Bad # {} PROVE FALSE
  BY DEF SameTo
<1>2. PICK n \in Nat : n \in Bad /\ \A y \in Bad : n <= y
  <2>1. Bad \in SUBSET Nat
    BY <1>0
  <2> HIDE DEF Bad
  <2> QED BY <1>1, <2>1, LeastOf
<1>3. n \in 0 .. N /\ n \in 0 .. M /\ f[n] # g[n]
  BY <1>0, <1>2
<1>4. f[n] = IF n = 0 THEN << >> ELSE IF s[n].ch = " " THEN f[n - 1] ELSE Append(f[n - 1], s[n])
  BY <1>0, <1>3 DEF Spaceless
<1>5. g[n] = IF n = 0 THEN << >> ELSE IF t[n].ch = " " THEN g[n - 1] ELSE Append(g[n - 1], t[n])
  BY <1>0, <1>3 DEF Spaceless
<1>6. n # 0
  BY <1>3, <1>4, <1>5
<1>7. n - 1 \in 0 .. N /\ n - 1 \notin Bad /\ s[n] = t[n]
  BY <1>0, <1>2, <1>3, <1>6
<1>8. f[n - 1] = g[n - 1]
  BY <1>7
<1> QED BY <1>3, <1>4, <1>5, <1>7, <1>8

LEMMA NoSpacesIs ==
  ASSUME NEW S, NEW s \in Seq(S)
  PROVE  \E f : Spaceless(s, Len(s), f) /\ NoSpaces(s) = f[Len(s)]
<1>1. \E f : Spaceless(s, Len(s), f)
  BY SpacelessExists
<1>2. PICK f : f = CHOOSE g : Spaceless(s, Len(s), g)
  OBVIOUS
<1>3. Spaceless(s, Len(s), f)
  BY <1>1, <1>2, Zenon
<1>4. NoSpaces(s) = f[Len(s)]
  BY <1>2 DEF NoSpaces, Spaceless
<1> QED BY <1>3, <1>4

\* A member more, which counts unless it is a space
LEMMA NoSpacesAppend ==
  ASSUME NEW S, NEW s \in Seq(S), NEW c \in S
  PROVE  NoSpaces(Append(s, c)) = IF c.ch = " " THEN NoSpaces(s) ELSE Append(NoSpaces(s), c)
<1>1. PICK t : t = Append(s, c)
  OBVIOUS
<1>2. t \in Seq(S) /\ Len(t) = Len(s) + 1 /\ t[Len(t)] = c /\ \A n \in 1 .. Len(s) : s[n] = t[n]
  BY <1>1
<1>3. PICK f : Spaceless(s, Len(s), f) /\ NoSpaces(s) = f[Len(s)]
  BY NoSpacesIs
<1>4. PICK g : Spaceless(t, Len(t), g) /\ NoSpaces(t) = g[Len(t)]
  BY <1>2, NoSpacesIs
<1>5. Len(s) \in Nat /\ Len(t) \in Nat /\ Len(s) <= Len(t) /\ Len(s) \in 0 .. Len(s)
  BY <1>2
<1>6. f[Len(s)] = g[Len(s)]
  <2>1. PICK N \in Nat, M \in Nat : N = Len(s) /\ M = Len(t)
    BY <1>5
  <2>2. StartAlike(s, t, N, M, f, g)
    BY <1>2, <1>3, <1>4, <1>5, <2>1 DEF StartAlike
  <2>3. SameTo(N, f, g)
    BY <2>2, SpacelessSame
  <2> QED BY <1>5, <2>1, <2>3 DEF SameTo
<1>7. Len(t) \in 0 .. Len(t) /\ Len(t) # 0 /\ Len(t) - 1 = Len(s)
  BY <1>2, <1>5
<1>8. g[Len(t)] = IF t[Len(t)].ch = " " THEN g[Len(t) - 1] ELSE Append(g[Len(t) - 1], t[Len(t)])
  BY <1>4, <1>7 DEF Spaceless
<1> QED BY <1>1, <1>2, <1>3, <1>4, <1>6, <1>7, <1>8
-----------------------------------------------------------------------------
(* The stream of bytes *)

Mods == [shift : BOOLEAN, caps : BOOLEAN]
KeySet == Scans \cup Extended \cup {"E0", "shift", "shift up", "caps"}
Glyphs == {""} \cup {Sc1[k] : k \in Scans} \cup {Sc1Shift[k] : k \in Scans} \cup {Caps[c] : c \in DOMAIN Caps}
Items == [ch : Glyphs, id : Nat]
Bytes == [scan : KeySet, id : Nat, ch : Glyphs]
DecSet == [shift : BOOLEAN, caps : BOOLEAN, dead : Items, queued : Items]

\* 0xE0 is followed by another byte, and the bytes but 0xE0 have numbers of their own
StreamOK(s, n) ==
  /\ s \in Seq(Bytes) /\ n \in Nat
  /\ \A i \in 1 .. Len(s) : s[i].id \in 1 .. n /\ (s[i].scan = "E0" => i < Len(s) /\ s[i + 1].scan # "E0")
  /\ \A i, j \in 1 .. Len(s) : s[i].scan # "E0" /\ s[j].scan # "E0" /\ s[i].id = s[j].id => i = j

\* No byte that can give a character has a number of I
Unseen(s, I) == \A i \in 1 .. Len(s) : s[i].scan # "E0" => s[i].id \notin I

\* t is s without its first k members
Suffix(s, k, t) ==
  /\ s \in Seq(Bytes) /\ t \in Seq(Bytes) /\ k \in 0 .. Len(s) /\ Len(t) = Len(s) - k
  /\ \A i \in 1 .. Len(t) : t[i] = s[i + k]

LEMMA EatOK ==
  ASSUME NEW s, NEW n, StreamOK(s, n), NEW k, NEW t, Suffix(s, k, t)
  PROVE  StreamOK(t, n) /\ \A I : Unseen(s, I) => Unseen(t, I)
<1>1. /\ s \in Seq(Bytes) /\ t \in Seq(Bytes) /\ k \in Nat /\ Len(s) \in Nat /\ Len(t) \in Nat /\ Len(s) = Len(t) + k
      /\ \A i \in 1 .. Len(t) : t[i] = s[i + k]
  BY DEF Suffix
<1>2. \A i \in 1 .. Len(t) : i \in Nat /\ i + k \in 1 .. Len(s)
  BY <1>1
<1>3. ASSUME NEW i \in 1 .. Len(t)
      PROVE  t[i].id \in 1 .. n /\ (t[i].scan = "E0" => i < Len(t) /\ t[i + 1].scan # "E0")
  <2>1. s[i + k].id \in 1 .. n /\ (s[i + k].scan = "E0" => i + k < Len(s) /\ s[(i + k) + 1].scan # "E0")
    BY <1>2 DEF StreamOK
  <2>2. CASE t[i].scan = "E0"
    <3>1. i < Len(t) /\ s[(i + k) + 1].scan # "E0"
      BY <1>1, <1>2, <2>1, <2>2
    <3>2. i + 1 \in 1 .. Len(t) /\ (i + k) + 1 = (i + 1) + k
      BY <1>1, <1>2, <3>1
    <3> QED BY <1>1, <2>1, <3>1, <3>2
  <2> QED BY <1>1, <2>1, <2>2
<1>4. ASSUME NEW i \in 1 .. Len(t), NEW j \in 1 .. Len(t), t[i].scan # "E0", t[j].scan # "E0", t[i].id = t[j].id
      PROVE  i = j
  <2>1. i + k = j + k
    BY <1>1, <1>2, <1>4 DEF StreamOK
  <2> QED BY <1>1, <1>2, <2>1
<1>5. ASSUME NEW I, Unseen(s, I) PROVE Unseen(t, I)
  BY <1>1, <1>2, <1>5 DEF Unseen
<1> QED BY <1>1, <1>3, <1>4, <1>5 DEF StreamOK

\* A key is typed
LEMMA TypedOK ==
  ASSUME NEW s, NEW n, StreamOK(s, n), NEW b \in Bytes, b.id = n + 1, b.scan # "E0", NEW t, t = Append(s, b)
  PROVE  StreamOK(t, n + 1) /\ \A I : Unseen(s, I) /\ I \subseteq 0 .. n => Unseen(t, I)
<1>1. s \in Seq(Bytes) /\ n \in Nat /\ Len(s) \in Nat
  BY DEF StreamOK
<1>2. t \in Seq(Bytes) /\ Len(t) = Len(s) + 1 /\ t[Len(s) + 1] = b /\ \A i \in 1 .. Len(s) : t[i] = s[i]
  BY <1>1
<1>3. \A i \in 1 .. Len(t) : i \in 1 .. Len(s) \/ i = Len(s) + 1
  BY <1>1, <1>2
<1>4. ASSUME NEW i \in 1 .. Len(t)
      PROVE  t[i].id \in 1 .. n + 1 /\ (t[i].scan = "E0" => i < Len(t) /\ t[i + 1].scan # "E0")
  <2>1. CASE i \in 1 .. Len(s)
    <3>1. s[i].id \in 1 .. n /\ (s[i].scan = "E0" => i < Len(s) /\ s[i + 1].scan # "E0")
      BY <2>1 DEF StreamOK
    <3>2. s[i].scan = "E0" => i + 1 \in 1 .. Len(s)
      BY <1>1, <2>1, <3>1
    <3> QED BY <1>1, <1>2, <2>1, <3>1, <3>2
  <2>2. CASE i = Len(s) + 1
    BY <1>1, <1>2, <2>2
  <2> QED BY <1>3, <2>1, <2>2
<1>5. \A i \in 1 .. Len(s) : s[i].id # n + 1
  BY <1>1 DEF StreamOK
<1>6. ASSUME NEW i \in 1 .. Len(t), NEW j \in 1 .. Len(t), t[i].scan # "E0", t[j].scan # "E0", t[i].id = t[j].id
      PROVE  i = j
  <2>1. CASE i \in 1 .. Len(s) /\ j \in 1 .. Len(s)
    BY <1>2, <1>6, <2>1 DEF StreamOK
  <2> QED BY <1>2, <1>3, <1>5, <1>6, <2>1
<1>7. ASSUME NEW I, Unseen(s, I), I \subseteq 0 .. n PROVE Unseen(t, I)
  BY <1>1, <1>2, <1>3, <1>7 DEF Unseen
<1> QED BY <1>1, <1>2, <1>4, <1>6, <1>7 DEF StreamOK

\* A key of two bytes is typed
LEMMA TypedTwoOK ==
  ASSUME NEW s, NEW n, StreamOK(s, n), NEW a \in Bytes, a.id = n + 1, a.scan = "E0",
         NEW b \in Bytes, b.id = n + 1, b.scan # "E0", NEW t, t = Append(Append(s, a), b)
  PROVE  StreamOK(t, n + 1) /\ \A I : Unseen(s, I) /\ I \subseteq 0 .. n => Unseen(t, I)
<1>1. s \in Seq(Bytes) /\ n \in Nat /\ Len(s) \in Nat
  BY DEF StreamOK
<1>2. /\ t \in Seq(Bytes) /\ Len(t) = Len(s) + 2 /\ t[Len(s) + 1] = a /\ t[Len(s) + 2] = b
      /\ \A i \in 1 .. Len(s) : t[i] = s[i]
  BY <1>1
<1>3. \A i \in 1 .. Len(t) : i \in 1 .. Len(s) \/ i = Len(s) + 1 \/ i = Len(s) + 2
  BY <1>1, <1>2
<1>4. ASSUME NEW i \in 1 .. Len(t)
      PROVE  t[i].id \in 1 .. n + 1 /\ (t[i].scan = "E0" => i < Len(t) /\ t[i + 1].scan # "E0")
  <2>1. CASE i \in 1 .. Len(s)
    <3>1. s[i].id \in 1 .. n /\ (s[i].scan = "E0" => i < Len(s) /\ s[i + 1].scan # "E0")
      BY <2>1 DEF StreamOK
    <3>2. s[i].scan = "E0" => i + 1 \in 1 .. Len(s)
      BY <1>1, <2>1, <3>1
    <3> QED BY <1>1, <1>2, <2>1, <3>1, <3>2
  <2>2. CASE i = Len(s) + 1
    <3>1. i + 1 = Len(s) + 2
      BY <1>1, <2>2
    <3> QED BY <1>1, <1>2, <2>2, <3>1
  <2>3. CASE i = Len(s) + 2
    BY <1>1, <1>2, <2>3
  <2> QED BY <1>3, <2>1, <2>2, <2>3
<1>5. \A i \in 1 .. Len(s) : s[i].id # n + 1
  BY <1>1 DEF StreamOK
<1>6. ASSUME NEW i \in 1 .. Len(t), NEW j \in 1 .. Len(t), t[i].scan # "E0", t[j].scan # "E0", t[i].id = t[j].id
      PROVE  i = j
  <2>1. CASE i \in 1 .. Len(s) /\ j \in 1 .. Len(s)
    BY <1>2, <1>6, <2>1 DEF StreamOK
  <2> QED BY <1>2, <1>3, <1>5, <1>6, <2>1
<1>7. ASSUME NEW I, Unseen(s, I), I \subseteq 0 .. n PROVE Unseen(t, I)
  BY <1>1, <1>2, <1>3, <1>7 DEF Unseen
<1> QED BY <1>1, <1>2, <1>4, <1>6, <1>7 DEF StreamOK
-----------------------------------------------------------------------------
(* What the user meant, replayed from what a decoder knows of shift and caps lock *)

\* M[i] is how shift and caps lock stand after i bytes
Means(b, m) == b.ch = CharAt(m, b.scan)
ReplayAt(s, M, i) ==
  IF s[i].scan = "E0" \/ (i > 1 /\ s[i - 1].scan = "E0")
  THEN M[i] = M[i - 1] /\ s[i].ch = ""
  ELSE M[i] = Modified(M[i - 1], s[i].scan) /\ Means(s[i], M[i - 1])
ReplayBy(s, m, k, M) ==
  /\ M \in [0 .. Len(s) -> Mods] /\ M[0] = m /\ M[Len(s)] = k
  /\ \A i \in 1 .. Len(s) : ReplayAt(s, M, i)
Replays(s, m, k) == \E M : ReplayBy(s, m, k, M)

LEMMA ModifiedIs ==
  ASSUME NEW m \in Mods, NEW k
  PROVE  Modified(m, k) \in Mods
BY DEF Modified, Mods

LEMMA ReplayTyped ==
  ASSUME NEW s, NEW n, StreamOK(s, n), NEW m, NEW k, Replays(s, m, k), NEW b \in Bytes, b.scan # "E0",
         Means(b, k)
  PROVE  Replays(Append(s, b), m, Modified(k, b.scan))
<1>1. s \in Seq(Bytes) /\ Len(s) \in Nat
  BY DEF StreamOK
<1>2. PICK t : t = Append(s, b)
  OBVIOUS
<1>3. t \in Seq(Bytes) /\ Len(t) = Len(s) + 1 /\ t[Len(s) + 1] = b /\ \A i \in 1 .. Len(s) : t[i] = s[i]
  BY <1>1, <1>2
<1>4. PICK M : ReplayBy(s, m, k, M)
  BY DEF Replays
<1>5. M \in [0 .. Len(s) -> Mods] /\ M[0] = m /\ M[Len(s)] = k /\ k \in Mods
  BY <1>1, <1>4 DEF ReplayBy
<1>6. PICK kk : kk = Modified(k, b.scan)
  OBVIOUS
<1>7. kk \in Mods
  BY <1>5, <1>6, ModifiedIs
<1>8. PICK L : L = [i \in 0 .. Len(t) |-> IF i = Len(t) THEN kk ELSE M[i]]
  OBVIOUS
<1>9. \A i \in 0 .. Len(s) : i \in 0 .. Len(t) /\ i # Len(t)
  BY <1>1, <1>3
<1>10. L[Len(t)] = kk /\ \A i \in 0 .. Len(s) : L[i] = M[i]
  BY <1>1, <1>3, <1>8, <1>9
<1>11. L \in [0 .. Len(t) -> Mods]
  <2>1. \A i \in 0 .. Len(t) : i = Len(t) \/ i \in 0 .. Len(s)
    BY <1>1, <1>3
  <2> QED BY <1>5, <1>7, <1>8, <2>1
<1>12. ASSUME NEW i \in 1 .. Len(t) PROVE ReplayAt(t, L, i)
  <2>1. CASE i \in 1 .. Len(s)
    <3>1. i \in 0 .. Len(s) /\ i - 1 \in 0 .. Len(s) /\ (i > 1 => i - 1 \in 1 .. Len(s))
      BY <1>1, <2>1
    <3>2. t[i] = s[i] /\ L[i] = M[i] /\ L[i - 1] = M[i - 1] /\ (i > 1 => t[i - 1] = s[i - 1])
      BY <1>3, <1>10, <2>1, <3>1
    <3>3. ReplayAt(s, M, i)
      BY <1>4, <2>1 DEF ReplayBy
    <3> QED BY <3>2, <3>3 DEF ReplayAt
  <2>2. CASE i = Len(s) + 1
    <3>1. i - 1 = Len(s) /\ i = Len(t)
      BY <1>1, <1>3, <2>2
    <3>2. L[i] = kk /\ L[i - 1] = k /\ t[i] = b
      BY <1>1, <1>3, <1>5, <1>10, <2>2, <3>1
    <3>3. i > 1 => s[i - 1].scan # "E0" /\ t[i - 1] = s[i - 1]
      <4> SUFFICES ASSUME i > 1 PROVE s[i - 1].scan # "E0" /\ t[i - 1] = s[i - 1]
        OBVIOUS
      <4>1. Len(s) \in 1 .. Len(s)
        BY <1>1, <3>1
      <4> QED BY <1>1, <1>3, <3>1, <4>1 DEF StreamOK
    <3> QED BY <1>6, <3>2, <3>3 DEF ReplayAt
  <2> QED BY <1>1, <1>3, <2>1, <2>2
<1>13. L[0] = m
  BY <1>1, <1>5, <1>10
<1>14. ReplayBy(t, m, kk, L)
  BY <1>10, <1>11, <1>12, <1>13 DEF ReplayBy
<1> QED BY <1>2, <1>6, <1>14 DEF Replays

Silent(a, b) == a \in Bytes /\ b \in Bytes /\ a.scan = "E0" /\ b.scan # "E0" /\ a.ch = "" /\ b.ch = ""
LEMMA ReplayTypedTwo ==
  ASSUME NEW s, NEW n, StreamOK(s, n), NEW m, NEW k, Replays(s, m, k), NEW a, NEW b, Silent(a, b)
  PROVE  Replays(Append(Append(s, a), b), m, k)
<1>1. s \in Seq(Bytes) /\ Len(s) \in Nat
  BY DEF StreamOK
<1>2. PICK t : t = Append(Append(s, a), b)
  OBVIOUS
<1>3. /\ t \in Seq(Bytes) /\ Len(t) = Len(s) + 2 /\ t[Len(s) + 1] = a /\ t[Len(s) + 2] = b
      /\ \A i \in 1 .. Len(s) : t[i] = s[i]
  <2>1. a \in Bytes /\ b \in Bytes
    BY DEF Silent
  <2> QED BY <1>1, <1>2, <2>1
<1>4. PICK M : ReplayBy(s, m, k, M)
  BY DEF Replays
<1>5. M \in [0 .. Len(s) -> Mods] /\ M[0] = m /\ M[Len(s)] = k /\ k \in Mods
  BY <1>1, <1>4 DEF ReplayBy
<1>6. PICK L : L = [i \in 0 .. Len(t) |-> IF i > Len(s) THEN k ELSE M[i]]
  OBVIOUS
<1>7. \A i \in 0 .. Len(s) : i \in 0 .. Len(t) /\ ~(i > Len(s))
  BY <1>1, <1>3
<1>8. L[Len(s) + 1] = k /\ L[Len(s) + 2] = k /\ \A i \in 0 .. Len(s) : L[i] = M[i]
  BY <1>1, <1>3, <1>6, <1>7
<1>9. L \in [0 .. Len(t) -> Mods]
  <2>1. \A i \in 0 .. Len(t) : i > Len(s) \/ i \in 0 .. Len(s)
    BY <1>1, <1>3
  <2> QED BY <1>5, <1>6, <2>1
<1>10. ASSUME NEW i \in 1 .. Len(t) PROVE ReplayAt(t, L, i)
  <2>1. CASE i \in 1 .. Len(s)
    <3>1. i \in 0 .. Len(s) /\ i - 1 \in 0 .. Len(s) /\ (i > 1 => i - 1 \in 1 .. Len(s))
      BY <1>1, <2>1
    <3>2. t[i] = s[i] /\ L[i] = M[i] /\ L[i - 1] = M[i - 1] /\ (i > 1 => t[i - 1] = s[i - 1])
      BY <1>3, <1>8, <2>1, <3>1
    <3>3. ReplayAt(s, M, i)
      BY <1>4, <2>1 DEF ReplayBy
    <3> QED BY <3>2, <3>3 DEF ReplayAt
  <2>2. CASE i = Len(s) + 1
    <3>1. i - 1 = Len(s) /\ Len(s) \in 0 .. Len(s)
      BY <1>1, <2>2
    <3>2. L[i] = k /\ L[i - 1] = k /\ t[i] = a
      BY <1>3, <1>5, <1>8, <2>2, <3>1
    <3> QED BY <3>2 DEF ReplayAt, Silent
  <2>3. CASE i = Len(s) + 2
    <3>1. i - 1 = Len(s) + 1 /\ i > 1
      BY <1>1, <2>3
    <3>2. L[i] = k /\ L[i - 1] = k /\ t[i] = b /\ t[i - 1] = a
      BY <1>3, <1>8, <2>3, <3>1
    <3> QED BY <3>1, <3>2 DEF ReplayAt, Silent
  <2> QED BY <1>1, <1>3, <2>1, <2>2, <2>3
<1>11. L[0] = m /\ L[Len(t)] = k
  BY <1>1, <1>3, <1>5, <1>8
<1>12. ReplayBy(t, m, k, L)
  BY <1>9, <1>10, <1>11 DEF ReplayBy
<1> QED BY <1>2, <1>12 DEF Replays

\* A decoder has taken the first byte, or 0xE0 and the byte after it
LEMMA ReplayEaten ==
  ASSUME NEW s, NEW n, StreamOK(s, n), NEW m, NEW k, Replays(s, m, k), NEW t, NEW e,
         Suffix(s, e, t), (e = 1 /\ s[1].scan # "E0") \/ (e = 2 /\ s[1].scan = "E0")
  PROVE  /\ e = 1 => Replays(t, Modified(m, s[1].scan), k) /\ Means(s[1], m)
         /\ e = 2 => Replays(t, m, k)
         /\ m \in Mods
<1>1. /\ s \in Seq(Bytes) /\ t \in Seq(Bytes) /\ Len(s) \in Nat /\ Len(t) \in Nat /\ e \in 1 .. 2
      /\ Len(s) = Len(t) + e /\ \A i \in 1 .. Len(t) : t[i] = s[i + e]
  BY DEF Suffix
<1>2. PICK M : ReplayBy(s, m, k, M)
  BY DEF Replays
<1>3. /\ M \in [0 .. Len(s) -> Mods] /\ M[0] = m /\ M[Len(s)] = k /\ m \in Mods
      /\ \A i \in 1 .. Len(s) : ReplayAt(s, M, i)
  BY <1>1, <1>2 DEF ReplayBy
<1>4. s[e].scan # "E0"
  BY <1>1 DEF StreamOK
<1>5. PICK L : L = [i \in 0 .. Len(t) |-> M[i + e]]
  OBVIOUS
<1>6. \A i \in 0 .. Len(t) : i + e \in 0 .. Len(s) /\ L[i] = M[i + e]
  BY <1>1, <1>5
<1>7. L \in [0 .. Len(t) -> Mods] /\ L[0] = M[e] /\ L[Len(t)] = k
  BY <1>1, <1>3, <1>5, <1>6
<1>8. ASSUME NEW i \in 1 .. Len(t) PROVE ReplayAt(t, L, i)
  <2>1. i + e \in 1 .. Len(s) /\ i \in 0 .. Len(t) /\ i - 1 \in 0 .. Len(t) /\ (i - 1) + e = (i + e) - 1 /\ i + e > 1
    BY <1>1
  <2>2. L[i] = M[i + e] /\ L[i - 1] = M[(i + e) - 1] /\ t[i] = s[i + e]
    BY <1>1, <1>6, <2>1
  <2>3. i > 1 => t[i - 1] = s[(i + e) - 1]
    <3> SUFFICES ASSUME i > 1 PROVE t[i - 1] = s[(i + e) - 1]
      OBVIOUS
    <3>1. i - 1 \in 1 .. Len(t)
      BY <1>1
    <3> QED BY <1>1, <2>1, <3>1
  <2>4. ~(i > 1) => (i + e) - 1 = e
    BY <1>1
  <2>5. ReplayAt(s, M, i + e)
    BY <1>3, <2>1
  <2> QED BY <1>4, <2>1, <2>2, <2>3, <2>4, <2>5 DEF ReplayAt
<1>9. ReplayBy(t, M[e], k, L)
  BY <1>7, <1>8 DEF ReplayBy
<1>10. ReplayAt(s, M, 1) /\ (e = 2 => ReplayAt(s, M, 2))
  BY <1>1, <1>3
<1>11. ASSUME e = 1 PROVE M[1] = Modified(m, s[1].scan) /\ Means(s[1], m)
  <2>1. s[1].scan # "E0" /\ ~(1 > 1) /\ 1 - 1 = 0
    BY <1>11
  <2>2. M[1] = Modified(M[1 - 1], s[1].scan) /\ Means(s[1], M[1 - 1])
    BY <1>10, <2>1 DEF ReplayAt
  <2>3. M[1 - 1] = m
    BY <1>3, <2>1
  <2> QED BY <2>2, <2>3
<1>12. e = 2 => M[2] = m
  <2>1. ~(1 > 1) /\ 1 - 1 = 0 /\ 2 - 1 = 1 /\ 2 > 1
    OBVIOUS
  <2> QED BY <1>3, <1>10, <2>1 DEF ReplayAt
<1> QED BY <1>1, <1>3, <1>9, <1>11, <1>12 DEF Replays
-----------------------------------------------------------------------------
(* The decoders *)

LEMMA NoneIs == None \in Items /\ None.id = 0 /\ None.ch = ""
BY DEF None, Items, Glyphs

\* Two numbers differ, or are one of those that may come twice
Differ(x, y, R) == x # y \/ x \in R

\* What a decoder has delivered and what it holds are different keys, but for those of R
Solo(s, d, R) ==
  /\ s \in Seq(Items) /\ d \in DecSet
  /\ \A i, j \in 1 .. Len(s) : i # j => Differ(s[i].id, s[j].id, R)
  /\ \A i \in 1 .. Len(s) : s[i].id # 0 /\ Differ(s[i].id, d.queued.id, R) /\ Differ(s[i].id, d.dead.id, R)
  /\ d.queued.id # 0 => Differ(d.queued.id, d.dead.id, R)
  /\ d.queued.id = 0 => d.queued = None
  /\ d.dead.id = 0 => d.dead = None
Ids(s, d) == {s[i].id : i \in 1 .. Len(s)} \cup {d.queued.id, d.dead.id}

\* From d a decoder goes to e and delivers c: keys it held, and the key n
OneOf(x, d, n) == x \in Items /\ (x = None \/ x = d.queued \/ x = d.dead \/ x.id = n)
Moved(d, e, c, n, R) ==
  /\ e \in DecSet /\ OneOf(c, d, n) /\ OneOf(e.queued, d, n) /\ OneOf(e.dead, d, n)
  /\ c.id # 0 => Differ(c.id, e.queued.id, R) /\ Differ(c.id, e.dead.id, R)
  /\ e.queued.id # 0 => Differ(e.queued.id, e.dead.id, R)

Given(s, c) == IF c = None THEN s ELSE Append(s, c)

LEMMA MovedSolo ==
  ASSUME NEW s, NEW d, NEW R, Solo(s, d, R), NEW n \in Nat, n # 0, n \in R \/ n \notin Ids(s, d), NEW e, NEW c, Moved(d, e, c, n, R)
  PROVE  Solo(Given(s, c), e, R) /\ Ids(Given(s, c), e) \subseteq Ids(s, d) \cup {0, n}
<1>1. s \in Seq(Items) /\ Len(s) \in Nat /\ d \in DecSet /\ e \in DecSet /\ c \in Items
  BY DEF Solo, Moved, OneOf
<1>2. PICK q, z, eq, ez : q = d.queued /\ z = d.dead /\ eq = e.queued /\ ez = e.dead
  OBVIOUS
<1>3. /\ q \in Items /\ z \in Items /\ eq \in Items /\ ez \in Items
      /\ q.id \in Nat /\ z.id \in Nat /\ eq.id \in Nat /\ ez.id \in Nat /\ c.id \in Nat
  BY <1>1, <1>2 DEF DecSet, Items
<1>4. /\ \A i \in 1 .. Len(s) : s[i] \in Items /\ s[i].id # 0 
           /\ Differ(s[i].id, q.id, R) /\ Differ(s[i].id, z.id, R) /\ Differ(s[i].id, n, R)
      /\ (q.id = 0 => q = None) /\ (z.id = 0 => z = None) /\ Differ(n, q.id, R) /\ Differ(n, z.id, R)
      /\ (q.id # 0 => Differ(q.id, z.id, R))
  BY <1>1, <1>2 DEF Solo, Ids, Differ
<1>5. /\ (c = None \/ c = q \/ c = z \/ c.id = n) /\ (eq = None \/ eq = q \/ eq = z \/ eq.id = n)
      /\ (ez = None \/ ez = q \/ ez = z \/ ez.id = n)
      /\ (c.id # 0 => Differ(c.id, eq.id, R) /\ Differ(c.id, ez.id, R)) /\ (eq.id # 0 => Differ(eq.id, ez.id, R))
  BY <1>2 DEF Moved, OneOf
<1>6. (eq.id = 0 => eq = None) /\ (ez.id = 0 => ez = None) /\ (c.id = 0 => c = None)
  BY <1>4, <1>5
<1>7. \A i \in 1 .. Len(s) : Differ(s[i].id, eq.id, R) /\ Differ(s[i].id, ez.id, R) /\ Differ(s[i].id, c.id, R)
  BY <1>4, <1>5, NoneIs DEF Differ
<1>8. {eq.id, ez.id, c.id} \subseteq {0, q.id, z.id, n}
  BY <1>5, NoneIs
<1>9. CASE c = None
  <2>1. Solo(s, e, R)
    BY <1>1, <1>2, <1>4, <1>5, <1>6, <1>7 DEF Solo
  <2> QED BY <1>2, <1>8, <1>9, <2>1 DEF Ids, Given
<1>10. CASE c # None
  <2>1. PICK t : t = Append(s, c)
    OBVIOUS
  <2>2. t \in Seq(Items) /\ Len(t) = Len(s) + 1 /\ t[Len(s) + 1] = c /\ \A i \in 1 .. Len(s) : t[i] = s[i]
    BY <1>1, <2>1
  <2>3. \A i \in 1 .. Len(t) : i \in 1 .. Len(s) \/ i = Len(s) + 1
    BY <1>1, <2>2
  <2>4. c.id # 0
    BY <1>6, <1>10
  <2>5. \A i, j \in 1 .. Len(t) : i # j => Differ(t[i].id, t[j].id, R)
    <3>1. \A i, j \in 1 .. Len(s) : i # j => Differ(s[i].id, s[j].id, R)
      BY DEF Solo
    <3> QED BY <1>7, <2>2, <2>3, <3>1 DEF Differ
  <2>6. \A i \in 1 .. Len(t) : t[i].id # 0 /\ Differ(t[i].id, eq.id, R) /\ Differ(t[i].id, ez.id, R)
    BY <1>4, <1>5, <1>7, <2>2, <2>3, <2>4
  <2>7. Solo(t, e, R)
    BY <1>1, <1>2, <1>5, <1>6, <2>2, <2>5, <2>6 DEF Solo
  <2>8. Ids(t, e) \subseteq Ids(s, d) \cup {0, n}
    <3>1. ASSUME NEW i \in 1 .. Len(t) PROVE t[i].id \in Ids(s, d) \cup {0, n}
      <4>1. CASE i \in 1 .. Len(s)
        BY <2>2, <4>1 DEF Ids
      <4>2. CASE i = Len(s) + 1
        BY <1>2, <1>8, <2>2, <4>2 DEF Ids
      <4> QED BY <2>3, <4>1, <4>2
    <3>2. {eq.id, ez.id} \subseteq Ids(s, d) \cup {0, n}
      BY <1>2, <1>8 DEF Ids
    <3>3. Ids(t, e) = {t[i].id : i \in 1 .. Len(t)} \cup {eq.id, ez.id}
      BY <1>2 DEF Ids
    <3> QED BY <3>1, <3>2, <3>3
  <2> QED BY <1>10, <2>1, <2>7, <2>8 DEF Given
<1> QED BY <1>9, <1>10

\* The three ways to a character, and the end of a line
LEMMA CharAtIs ==
  ASSUME NEW m, NEW k
  PROVE  CharAt(m, k) \in Glyphs
BY DEF CharAt, CharOf, Glyphs

Char(d, b) == [ch |-> CharAt(d, b.scan), id |-> b.id]
LEMMA CharIs ==
  ASSUME NEW d, NEW b \in Bytes
  PROVE  Char(d, b) \in Items /\ Char(d, b).id = b.id
BY CharAtIs DEF Char, Items, Bytes

LEMMA DecFields ==
  ASSUME NEW d \in DecSet, NEW x \in Items, NEW y \in Items, NEW k
  PROVE  /\ [d EXCEPT !.dead = x] \in DecSet /\ [d EXCEPT !.queued = x] \in DecSet
         /\ [d EXCEPT !.dead = x, !.queued = y] \in DecSet
         /\ Modified(d, k) \in DecSet
         /\ Modified(d, k).dead = d.dead /\ Modified(d, k).queued = d.queued
BY DEF DecSet, Modified

\* d holds two keys at most, different from n, but for those of R
HoldsApart(d, n, R) ==
  /\ d \in DecSet /\ n \in Nat /\ n # 0 /\ Differ(n, d.queued.id, R) /\ Differ(n, d.dead.id, R)
  /\ d.queued.id # 0 => Differ(d.queued.id, d.dead.id, R)

LEMMA DeadKeysMoved ==
  ASSUME NEW d, NEW R, NEW c \in Items, HoldsApart(d, c.id, R)
  PROVE  Moved(d, DeadKeys(d, c).d, DeadKeys(d, c).c, c.id, R)
<1>1. d \in DecSet /\ d.queued \in Items /\ d.dead \in Items /\ c.id \in Nat /\ c.id # 0
  BY DEF HoldsApart, DecSet
<1>2. CASE c.ch \in Dead /\ d.dead = None
  <2>1. PICK e : e = [d EXCEPT !.dead = c]
    OBVIOUS
  <2>2. e \in DecSet /\ e.dead = c /\ e.queued = d.queued
    BY <1>1, <2>1, DecFields DEF DecSet
  <2>3. DeadKeys(d, c) = [d |-> e, c |-> None]
    BY <1>2, <2>1 DEF DeadKeys
  <2>4. Moved(d, e, None, c.id, R)
    BY <1>1, <2>2, NoneIs DEF Moved, OneOf, HoldsApart, Differ
  <2> QED BY <2>3, <2>4
<1>3. CASE ~(c.ch \in Dead /\ d.dead = None) /\ d.dead # None
  <2>1. PICK q : q = IF c.ch = " " THEN d.queued ELSE c
    OBVIOUS
  <2>2. q \in Items
    BY <1>1, <2>1
  <2>3. PICK e : e = [d EXCEPT !.dead = None, !.queued = q]
    OBVIOUS
  <2>4. e \in DecSet /\ e.dead = None /\ e.queued = q
    BY <1>1, <2>2, <2>3, NoneIs, DecFields DEF DecSet
  <2>5. DeadKeys(d, c) = [d |-> e, c |-> d.dead]
    BY <1>3, <2>1, <2>3 DEF DeadKeys
  <2>6. Moved(d, e, d.dead, c.id, R)
    BY <1>1, <2>1, <2>2, <2>4, NoneIs DEF Moved, OneOf, HoldsApart, Differ
  <2> QED BY <2>5, <2>6
<1>4. CASE ~(c.ch \in Dead /\ d.dead = None) /\ d.dead = None
  <2>1. DeadKeys(d, c) = [d |-> d, c |-> c]
    BY <1>4 DEF DeadKeys
  <2>2. Moved(d, d, c, c.id, R)
    BY <1>1, NoneIs DEF Moved, OneOf, HoldsApart, Differ
  <2> QED BY <2>1, <2>2
<1> QED BY <1>2, <1>3, <1>4

LEMMA ModifiedMoved ==
  ASSUME NEW d, NEW R, NEW n, HoldsApart(d, n, R), NEW k
  PROVE  Moved(d, Modified(d, k), None, n, R)
<1>1. d \in DecSet /\ d.queued \in Items /\ d.dead \in Items
  BY DEF HoldsApart, DecSet
<1> QED BY <1>1, NoneIs, DecFields DEF Moved, OneOf, HoldsApart, Differ

LEMMA TakeQueuedMoved ==
  ASSUME NEW d, NEW R, NEW n, HoldsApart(d, n, R)
  PROVE  Moved(d, TakeQueued(d).d, TakeQueued(d).c, n, R)
<1>1. d \in DecSet /\ d.queued \in Items /\ d.dead \in Items
  BY DEF HoldsApart, DecSet
<1>2. PICK e : e = [d EXCEPT !.queued = None]
  OBVIOUS
<1>3. e \in DecSet /\ e.queued = None /\ e.dead = d.dead
  BY <1>1, <1>2, NoneIs, DecFields DEF DecSet
<1>4. TakeQueued(d) = [d |-> e, c |-> d.queued]
  BY <1>2 DEF TakeQueued
<1>5. Moved(d, e, d.queued, n, R)
  BY <1>1, <1>3, NoneIs DEF Moved, OneOf, HoldsApart, Differ
<1> QED BY <1>4, <1>5

LEMMA Ps2ProcessMoved ==
  ASSUME NEW d, NEW R, NEW b \in Bytes, HoldsApart(d, b.id, R)
  PROVE  Moved(d, Ps2Process(d, b).d, Ps2Process(d, b).c, b.id, R)
<1>1. PICK c : c = Char(d, b)
  OBVIOUS
<1>2. d \in DecSet /\ c \in Items /\ c.id = b.id
  BY <1>1, CharIs DEF HoldsApart
<1>3. Ps2Process(d, b) = IF c.ch = "" THEN [d |-> Modified(d, b.scan), c |-> None] ELSE DeadKeys(d, c)
  BY <1>1 DEF Ps2Process, Char
<1>4. CASE c.ch = ""
  <2>1. PICK e : e = Modified(d, b.scan)
    OBVIOUS
  <2>2. Moved(d, e, None, b.id, R)
    BY <2>1, ModifiedMoved
  <2>3. Ps2Process(d, b) = [d |-> e, c |-> None]
    BY <1>3, <1>4, <2>1
  <2> QED BY <2>2, <2>3
<1>5. CASE c.ch # ""
  BY <1>2, <1>3, <1>5, DeadKeysMoved
<1> QED BY <1>4, <1>5

LEMMA DrainByteMoved ==
  ASSUME NEW d, NEW R, NEW b \in Bytes, HoldsApart(d, b.id, R)
  PROVE  Moved(d, DrainByte(d, b).d, DrainByte(d, b).c, b.id, R)
<1>1. PICK c : c = Char(d, b)
  OBVIOUS
<1>2. d \in DecSet /\ c \in Items /\ c.id = b.id
  BY <1>1, CharIs DEF HoldsApart
<1>3. DrainByte(d, b) = IF c.ch = "" THEN [d |-> Modified(d, b.scan), c |-> None]
                        ELSE IF c.ch \in Dead \/ d.dead # None \/ d.queued = None THEN DeadKeys(d, c)
                        ELSE [d |-> [d EXCEPT !.queued = None], c |-> d.queued]
  BY <1>1 DEF DrainByte, Char
<1>4. CASE c.ch = ""
  <2>1. PICK e : e = Modified(d, b.scan)
    OBVIOUS
  <2>2. Moved(d, e, None, b.id, R)
    BY <2>1, ModifiedMoved
  <2>3. DrainByte(d, b) = [d |-> e, c |-> None]
    BY <1>3, <1>4, <2>1
  <2> QED BY <2>2, <2>3
<1>5. CASE c.ch # "" /\ (c.ch \in Dead \/ d.dead # None \/ d.queued = None)
  BY <1>2, <1>3, <1>5, DeadKeysMoved
<1>6. CASE c.ch # "" /\ ~(c.ch \in Dead \/ d.dead # None \/ d.queued = None)
  <2>1. DrainByte(d, b) = TakeQueued(d)
    BY <1>3, <1>6 DEF TakeQueued
  <2> QED BY <2>1, TakeQueuedMoved
<1> QED BY <1>4, <1>5, <1>6

LEMMA AfterEnterMoved ==
  ASSUME NEW d, NEW R, NEW e, NEW c, NEW n, Moved(d, e, c, n, R)
  PROVE  Moved(d, AfterEnter(e, c), c, n, R)
<1>1. e \in DecSet
  BY DEF Moved
<1>2. CASE c.ch = "ret"
  <2>1. PICK f : f = [e EXCEPT !.dead = None, !.queued = None]
    OBVIOUS
  <2>2. f \in DecSet /\ f.dead = None /\ f.queued = None
    BY <1>1, <2>1, NoneIs, DecFields DEF DecSet
  <2>3. AfterEnter(e, c) = f
    BY <1>2, <2>1 DEF AfterEnter
  <2>4. Moved(d, f, c, n, R)
    BY <2>2, NoneIs DEF Moved, OneOf, Differ
  <2> QED BY <2>3, <2>4
<1>3. CASE c.ch # "ret"
  BY <1>3 DEF AfterEnter
<1> QED BY <1>2, <1>3
-----------------------------------------------------------------------------
(* The kernel's decoder *)

Seen(o, d) == o \o Holding(d)
Mod(d) == [shift |-> d.shift, caps |-> d.caps]

\* What it has delivered and holds is what was meant by the bytes taken
KernelKeeps(d, o, t) ==
  /\ d \in DecSet /\ o \in Seq(Items) /\ t \in Seq(Items)
  /\ d.queued = None \/ d.dead = None
  /\ d.dead.ch # "ret"
  /\ NoSpaces(Seen(o, d)) = NoSpaces(t)

LEMMA ModIs ==
  ASSUME NEW d \in DecSet, NEW k
  PROVE  /\ Mod(Modified(d, k)) = Modified(Mod(d), k)
         /\ k # "shift" /\ k # "shift up" /\ k # "caps" => Modified(Mod(d), k) = Mod(d)
<1>1. PICK a \in BOOLEAN, z \in BOOLEAN : a = d.shift /\ z = d.caps
  BY DEF DecSet
<1>2. PICK aa, zz : aa = (k = "shift" \/ (a /\ k # "shift up")) /\ zz = (IF k = "caps" THEN ~z ELSE z)
  OBVIOUS
<1>3. Modified(d, k).shift = aa /\ Modified(d, k).caps = zz
  BY <1>1, <1>2 DEF DecSet, Modified
<1>4. Mod(d) = [shift |-> a, caps |-> z]
  BY <1>1 DEF Mod
<1>5. Modified([shift |-> a, caps |-> z], k) = [shift |-> aa, caps |-> zz]
  <2>1. PICK m \in Mods : m = [shift |-> a, caps |-> z]
    BY DEF Mods
  <2>2. m.shift = a /\ m.caps = z
    BY <2>1
  <2>3. Modified(m, k).shift = aa /\ Modified(m, k).caps = zz
    BY <1>2, <2>2 DEF Mods, Modified
  <2>4. Modified(m, k) \in Mods
    BY ModifiedIs
  <2> QED BY <2>1, <2>3, <2>4 DEF Mods
<1>6. Mod(Modified(d, k)) = [shift |-> aa, caps |-> zz]
  BY <1>3 DEF Mod
<1>7. k # "shift" /\ k # "shift up" /\ k # "caps" => aa = a /\ zz = z
  BY <1>2
<1> QED BY <1>4, <1>5, <1>6, <1>7

LEMMA SeenIs ==
  ASSUME NEW o \in Seq(Items), NEW d \in DecSet
  PROVE  /\ d.queued = None /\ d.dead = None => Seen(o, d) = o
         /\ d.queued = None /\ d.dead # None => Seen(o, d) = Append(o, d.dead)
         /\ d.queued # None /\ d.dead = None => Seen(o, d) = Append(o, d.queued)
<1>1. PICK q \in Items, z \in Items : q = d.queued /\ z = d.dead
  BY DEF DecSet
<1>2. Seen(o, d) = o \o (One(q) \o One(z))
  BY <1>1 DEF Seen, Holding
<1>3. CASE q = None /\ z = None
  <2>1. One(q) = << >> /\ One(z) = << >>
    BY <1>3 DEF One
  <2>2. o \o (<< >> \o << >>) = o
    OBVIOUS
  <2> QED BY <1>1, <1>2, <1>3, <2>1, <2>2
<1>4. CASE q = None /\ z # None
  <2>1. One(q) = << >> /\ One(z) = <<z>>
    BY <1>4 DEF One
  <2>2. o \o (<< >> \o <<z>>) = Append(o, z)
    OBVIOUS
  <2> QED BY <1>1, <1>2, <1>4, <2>1, <2>2
<1>5. CASE q # None /\ z = None
  <2>1. One(q) = <<q>> /\ One(z) = << >>
    BY <1>5 DEF One
  <2>2. o \o (<<q>> \o << >>) = Append(o, q)
    OBVIOUS
  <2> QED BY <1>1, <1>2, <1>5, <2>1, <2>2
<1> QED BY <1>1, <1>3, <1>4, <1>5

\* The end of a line finds nothing that is still held
Ended(line, e, c) == IF line THEN AfterEnter(e, c) ELSE e

LEMMA EndedIs ==
  ASSUME NEW line \in BOOLEAN, NEW e \in DecSet, NEW c, c.ch # "ret" \/ (e.queued = None /\ e.dead = None)
  PROVE  Ended(line, e, c) = e
<1>1. CASE c.ch # "ret"
  BY <1>1 DEF Ended, AfterEnter
<1>2. CASE e.queued = None /\ e.dead = None
  <2>1. [e EXCEPT !.dead = None, !.queued = None] = e
    BY <1>2 DEF DecSet
  <2> QED BY <2>1 DEF Ended, AfterEnter
<1> QED BY <1>1, <1>2

LEMMA QueuedKept ==
  ASSUME NEW d, NEW o, NEW t, KernelKeeps(d, o, t), d.queued # None, NEW line \in BOOLEAN,
         NEW e, e = TakeQueued(d).d, NEW c, c = TakeQueued(d).c
  PROVE  KernelKeeps(Ended(line, e, c), Given(o, c), t) /\ Mod(Ended(line, e, c)) = Mod(d)
<1>1. d \in DecSet /\ o \in Seq(Items) /\ d.queued \in Items /\ d.dead = None
  BY DEF KernelKeeps, DecSet
<1>2. e = [d EXCEPT !.queued = None] /\ c = d.queued
  <2>1. PICK x, y : x = [d EXCEPT !.queued = None] /\ y = d.queued
    OBVIOUS
  <2>2. TakeQueued(d) = [d |-> x, c |-> y]
    BY <2>1 DEF TakeQueued
  <2> QED BY <2>1, <2>2
<1>3. e \in DecSet /\ e.queued = None /\ e.dead = None /\ e.shift = d.shift /\ e.caps = d.caps
  BY <1>1, <1>2, NoneIs DEF DecSet
<1>4. Ended(line, e, c) = e
  BY <1>3, EndedIs
<1>5. Given(o, c) = Append(o, c) /\ Given(o, c) \in Seq(Items)
  BY <1>1, <1>2 DEF Given
<1>6. Seen(Given(o, c), e) = Seen(o, d)
  <2>1. PICK g \in Seq(Items) : g = Given(o, c)
    BY <1>5
  <2>2. Seen(g, e) = g
    BY <1>3, SeenIs
  <2>3. Seen(o, d) = Append(o, d.queued)
    BY <1>1, SeenIs
  <2> QED BY <1>2, <1>5, <2>1, <2>2, <2>3
<1>7. KernelKeeps(e, Given(o, c), t)
  BY <1>3, <1>5, <1>6, NoneIs DEF KernelKeeps
<1> QED BY <1>3, <1>4, <1>7 DEF Mod

LEMMA AppendIn ==
  ASSUME NEW S, NEW s \in Seq(S), NEW c \in S
  PROVE  Append(s, c) \in Seq(S)
OBVIOUS

\* A character more is meant, and either it follows what was seen or it is a space that is left out
LEMMA OneMore ==
  ASSUME NEW d, NEW o, NEW t, KernelKeeps(d, o, t), NEW c \in Items,
         NEW e \in DecSet, NEW p \in Seq(Items), e.queued = None \/ e.dead = None, e.dead.ch # "ret",
         Seen(p, e) = Append(Seen(o, d), c) \/ (c.ch = " " /\ Seen(p, e) = Seen(o, d)),
         Seen(o, d) \in Seq(Items)
  PROVE  KernelKeeps(e, p, Append(t, c))
<1>1. t \in Seq(Items) /\ Append(t, c) \in Seq(Items) /\ NoSpaces(Seen(o, d)) = NoSpaces(t)
  <2>1. t \in Seq(Items) /\ NoSpaces(Seen(o, d)) = NoSpaces(t)
    BY DEF KernelKeeps
  <2> QED BY <2>1, AppendIn
<1>2. PICK s \in Seq(Items) : s = Seen(o, d)
  OBVIOUS
<1>3. NoSpaces(Append(s, c)) = IF c.ch = " " THEN NoSpaces(s) ELSE Append(NoSpaces(s), c)
  BY NoSpacesAppend
<1>4. NoSpaces(Append(t, c)) = IF c.ch = " " THEN NoSpaces(t) ELSE Append(NoSpaces(t), c)
  BY <1>1, NoSpacesAppend
<1>5. NoSpaces(Seen(p, e)) = NoSpaces(Append(t, c))
  <2>1. CASE Seen(p, e) = Append(s, c)
    BY <1>1, <1>2, <1>3, <1>4, <2>1
  <2>2. CASE c.ch = " " /\ Seen(p, e) = s
    BY <1>1, <1>2, <1>4, <2>2
  <2> QED BY <1>2, <2>1, <2>2
<1> QED BY <1>1, <1>5 DEF KernelKeeps

\* ps2_process on a byte that means what the decoder makes of it
ByteTaken(d, o, t, b, line, x, e, c) ==
  /\ KernelKeeps(d, o, t) /\ d.queued = None /\ b \in Bytes /\ b.id # 0
  /\ line \in BOOLEAN /\ x = Char(d, b) /\ e = Ps2Process(d, b).d /\ c = Ps2Process(d, b).c
ByteGiven(d, o, t, b, line, x, e, c) ==
  /\ KernelKeeps(Ended(line, e, c), Given(o, c), IF x.ch = "" THEN t ELSE Append(t, x))
  /\ Mod(Ended(line, e, c)) = Modified(Mod(d), b.scan)

LEMMA ByteKept ==
  ASSUME NEW d, NEW o, NEW t, NEW b, NEW line, NEW x, NEW e, NEW c, ByteTaken(d, o, t, b, line, x, e, c)
  PROVE  ByteGiven(d, o, t, b, line, x, e, c)
<1> SUFFICES ASSUME KernelKeeps(d, o, t), d.queued = None, b \in Bytes, b.id # 0,
                    line \in BOOLEAN, x = Char(d, b), e = Ps2Process(d, b).d, c = Ps2Process(d, b).c
             PROVE  /\ KernelKeeps(Ended(line, e, c), Given(o, c), IF x.ch = "" THEN t ELSE Append(t, x))
                    /\ Mod(Ended(line, e, c)) = Modified(Mod(d), b.scan)
  BY DEF ByteTaken, ByteGiven
<1>1. d \in DecSet /\ o \in Seq(Items) /\ d.dead \in Items /\ d.queued = None /\ d.dead.ch # "ret"
  BY DEF KernelKeeps, DecSet
<1>2. x \in Items /\ x.id = b.id /\ x # None
  BY CharIs, NoneIs
<1>3. Ps2Process(d, b) = IF x.ch = "" THEN [d |-> Modified(d, b.scan), c |-> None] ELSE DeadKeys(d, x)
  BY DEF Ps2Process, Char
<1>4. Seen(o, d) = IF d.dead = None THEN o ELSE Append(o, d.dead)
  BY <1>1, SeenIs
<1>5. Seen(o, d) \in Seq(Items)
  BY <1>1, <1>4
<1>6. x.ch # "" => Modified(Mod(d), b.scan) = Mod(d)
  <2> SUFFICES ASSUME x.ch # "" PROVE Modified(Mod(d), b.scan) = Mod(d)
    OBVIOUS
  <2>1. b.scan \in Scans
    BY DEF Char, CharAt
  <2>2. b.scan # "shift" /\ b.scan # "shift up" /\ b.scan # "caps"
    BY <2>1, KeysAssumption DEF Scans
  <2> QED BY <1>1, <2>2, ModIs
<1>7. CASE x.ch = ""
  <2>1. PICK m : m = Modified(d, b.scan)
    OBVIOUS
  <2>2. e = m /\ c = None
    <3>1. Ps2Process(d, b) = [d |-> m, c |-> None]
      BY <1>3, <1>7, <2>1
    <3> QED BY <3>1
  <2>3. m \in DecSet /\ m.dead = d.dead /\ m.queued = None
    BY <1>1, <2>1, NoneIs, DecFields
  <2>4. Ended(line, e, c) = m
    BY <2>2, <2>3, NoneIs, EndedIs
  <2>5. Given(o, c) = o /\ Seen(o, m) = Seen(o, d)
    BY <1>1, <1>4, <2>2, <2>3, SeenIs DEF Given
  <2>6. KernelKeeps(m, o, t)
    BY <2>3, <2>5 DEF KernelKeeps
  <2>7. Mod(m) = Modified(Mod(d), b.scan)
    BY <1>1, <2>1, ModIs
  <2> QED BY <1>7, <2>4, <2>5, <2>6, <2>7
<1>8. CASE x.ch # "" /\ x.ch \in Dead /\ d.dead = None
  <2>1. PICK m : m = [d EXCEPT !.dead = x]
    OBVIOUS
  <2>2. e = m /\ c = None
    <3>1. Ps2Process(d, b) = [d |-> m, c |-> None]
      BY <1>3, <1>8, <2>1 DEF DeadKeys
    <3> QED BY <3>1
  <2>3. m \in DecSet /\ m.dead = x /\ m.queued = None /\ Mod(m) = Mod(d)
    BY <1>1, <1>2, <2>1 DEF DecSet, Mod
  <2>4. Ended(line, e, c) = m
    BY <2>2, <2>3, NoneIs, EndedIs
  <2>5. Given(o, c) = o /\ Seen(o, m) = Append(Seen(o, d), x)
    BY <1>1, <1>2, <1>4, <1>8, <2>2, <2>3, SeenIs DEF Given
  <2>6. x.ch # "ret"
    BY <1>8, KeysAssumption
  <2>7. KernelKeeps(m, o, Append(t, x))
    BY <1>1, <1>2, <1>5, <2>3, <2>5, <2>6, OneMore
  <2> QED BY <1>6, <1>8, <2>3, <2>4, <2>5, <2>7
<1>9. CASE x.ch # "" /\ d.dead # None
  <2>1. PICK q : q = IF x.ch = " " THEN None ELSE x
    OBVIOUS
  <2>2. q \in Items
    BY <1>2, <2>1, NoneIs
  <2>3. PICK m : m = [d EXCEPT !.dead = None, !.queued = q]
    OBVIOUS
  <2>4. e = m /\ c = d.dead
    <3>1. Ps2Process(d, b) = [d |-> m, c |-> d.dead]
      BY <1>1, <1>3, <1>9, <2>1, <2>3 DEF DeadKeys
    <3> QED BY <3>1
  <2>5. m \in DecSet /\ m.dead = None /\ m.queued = q /\ Mod(m) = Mod(d)
    BY <1>1, <2>2, <2>3, NoneIs DEF DecSet, Mod
  <2>6. Ended(line, e, c) = m
    BY <1>1, <2>4, <2>5, EndedIs
  <2>7. Given(o, c) = Seen(o, d) /\ Given(o, c) \in Seq(Items)
    BY <1>1, <1>4, <1>5, <1>9, <2>4 DEF Given
  <2>8. Seen(Given(o, c), m) = Append(Seen(o, d), x) \/ (x.ch = " " /\ Seen(Given(o, c), m) = Seen(o, d))
    <3>1. PICK g \in Seq(Items) : g = Given(o, c)
      BY <2>7
    <3>2. CASE x.ch = " "
      <4>1. Seen(g, m) = g
        BY <2>1, <2>5, <3>2, SeenIs
      <4> QED BY <2>7, <3>1, <3>2, <4>1
    <3>3. CASE x.ch # " "
      <4>1. m.queued = x
        BY <2>1, <2>5, <3>3
      <4>2. Seen(g, m) = Append(g, x)
        BY <1>2, <2>5, <4>1, SeenIs
      <4> QED BY <2>7, <3>1, <4>2
    <3> QED BY <3>2, <3>3
  <2>9. KernelKeeps(m, Given(o, c), Append(t, x))
    BY <1>2, <1>5, <2>5, <2>7, <2>8, NoneIs, OneMore
  <2> QED BY <1>6, <1>9, <2>5, <2>6, <2>9
<1>10. CASE x.ch # "" /\ x.ch \notin Dead /\ d.dead = None
  <2>1. e = d /\ c = x
    <3>1. Ps2Process(d, b) = [d |-> d, c |-> x]
      BY <1>3, <1>10 DEF DeadKeys
    <3> QED BY <3>1
  <2>2. Ended(line, e, c) = d
    BY <1>1, <1>10, <2>1, EndedIs
  <2>3. Given(o, c) = Append(o, x) /\ Append(o, x) \in Seq(Items)
    BY <1>1, <1>2, <2>1 DEF Given
  <2>4. Seen(Append(o, x), d) = Append(Seen(o, d), x)
    BY <1>1, <1>4, <1>10, <2>3, SeenIs
  <2>5. KernelKeeps(d, Append(o, x), Append(t, x))
    BY <1>1, <1>2, <1>5, <2>3, <2>4, OneMore
  <2> QED BY <1>6, <1>10, <2>2, <2>3, <2>5
<1> QED BY <1>7, <1>8, <1>9, <1>10
-----------------------------------------------------------------------------
(* The inductive invariant *)

\* The keys delivered and held by the two decoders and those still to come are all different, but for those of R
AllApart(o, dd, s, n, R) ==
  /\ o \in [Decoders -> Seq(Items)] /\ dd \in [Decoders -> DecSet] /\ R \subseteq 1 .. n
  /\ \A w \in Decoders : Solo(o[w], dd[w], R) /\ Ids(o[w], dd[w]) \subseteq 0 .. n /\ Unseen(s, Ids(o[w], dd[w]))
  /\ \A v, w \in Decoders : v # w => Ids(o[v], dd[v]) \cap Ids(o[w], dd[w]) \subseteq {0} \cup R

\* What the user meant by the bytes the kernel has yet to take, with the 0xE0 it has taken if it is about to
\* throw away the byte that belongs to it
Ahead(s, w, t, n) ==
  IF w \in {"skip", "drop"} THEN Suffix(s, 1, t) /\ s[1].scan = "E0" /\ StreamOK(s, n) ELSE s = t

Stream ==
  /\ obf \in Seq(Bytes) /\ wire \in Seq(Bytes) /\ kb \in Mods /\ split \in BOOLEAN
  /\ taken \in [Decoders -> Seq(Items)] /\ StreamOK(obf \o wire, typed)

\* The byte read last is not in the stream
Latched ==
  latch = NoByte \/ /\ latch \in Bytes /\ latch.id \in 1 .. typed
                    /\ latch.scan # "E0" => Unseen(obf \o wire, {latch.id})

\* A decoder about to read finds a byte, or the other was faster
Racing ==
  /\ at \in [Decoders -> {"check", "read", "skip", "drop"}]
  /\ \A w \in Decoders : at[w] \in {"read", "drop"} /\ obf = << >> => latch # NoByte /\ latch.id \in raced

\* Before the driver starts the kernel is alone with the controller; it reads when nothing is queued
Alone ==
  /\ stage = "none" => /\ at["driver"] = "check" /\ drain = -1
                       /\ at["kernel"] \in {"read", "drop"} => obf # << >>
  /\ at["kernel"] # "check" => dec["kernel"].queued = None

Kept ==
  stage = "none" /\ ~split =>
    /\ KernelKeeps(dec["kernel"], out["kernel"], taken["kernel"])
    /\ \E s : Ahead(s, at["kernel"], obf \o wire, typed) /\ Replays(s, Mod(dec["kernel"]), kb)

KbInv == Stream /\ AllApart(out, dec, obf \o wire, typed, raced) /\ Latched /\ Racing /\ Alone /\ Kept

LEMMA ApartEaten ==
  ASSUME NEW o, NEW dd, NEW s, NEW n, NEW R, AllApart(o, dd, s, n, R), StreamOK(s, n), NEW k, NEW t, Suffix(s, k, t)
  PROVE  AllApart(o, dd, t, n, R)
<1>1. \A I : Unseen(s, I) => Unseen(t, I)
  BY EatOK
<1> QED BY <1>1 DEF AllApart

LEMMA ApartAfter ==
  ASSUME NEW o, NEW dd, NEW t, NEW n, NEW R, AllApart(o, dd, t, n, R), StreamOK(t, n), NEW w \in Decoders,
         NEW F, F \subseteq 1 .. n, Unseen(t, F), \A v \in Decoders : Ids(o[v], dd[v]) \cap F \subseteq R,
         NEW p, NEW e, Solo(p, e, R), Ids(p, e) \subseteq Ids(o[w], dd[w]) \cup {0} \cup F
  PROVE  AllApart([o EXCEPT ![w] = p], [dd EXCEPT ![w] = e], t, n, R)
<1>1. p \in Seq(Items) /\ e \in DecSet /\ n \in Nat
  BY DEF Solo, StreamOK
<1>2. PICK oo, de : oo = [o EXCEPT ![w] = p] /\ de = [dd EXCEPT ![w] = e]
  OBVIOUS
<1>3. /\ oo \in [Decoders -> Seq(Items)] /\ de \in [Decoders -> DecSet] /\ oo[w] = p /\ de[w] = e
      /\ \A v \in Decoders : v # w => oo[v] = o[v] /\ de[v] = dd[v]
  BY <1>1, <1>2 DEF AllApart
<1>4. Unseen(t, {0})
  BY DEF Unseen, StreamOK
<1>5. Ids(p, e) \subseteq 0 .. n
  <2>1. Ids(o[w], dd[w]) \subseteq 0 .. n
    BY DEF AllApart
  <2>2. F \subseteq 0 .. n /\ 0 \in 0 .. n
    BY <1>1
  <2> QED BY <2>1, <2>2
<1>6. Unseen(t, Ids(p, e))
  <2>1. Unseen(t, Ids(o[w], dd[w]))
    BY DEF AllApart
  <2> QED BY <1>4, <2>1 DEF Unseen
<1>7. \A v \in Decoders : Solo(oo[v], de[v], R) /\ Ids(oo[v], de[v]) \subseteq 0 .. n /\ Unseen(t, Ids(oo[v], de[v]))
  <2> TAKE v \in Decoders
  <2>1. CASE v = w
    BY <1>3, <1>5, <1>6, <2>1
  <2>2. CASE v # w
    BY <1>3, <2>2 DEF AllApart
  <2> QED BY <2>1, <2>2
<1>8. ASSUME NEW v \in Decoders, v # w PROVE Ids(o[v], dd[v]) \cap Ids(p, e) \subseteq {0} \cup R
  <2>1. Ids(o[v], dd[v]) \cap Ids(o[w], dd[w]) \subseteq {0} \cup R /\ Ids(o[v], dd[v]) \cap F \subseteq R
    BY <1>8 DEF AllApart
  <2> QED BY <2>1
<1>9. ASSUME NEW u \in Decoders, NEW v \in Decoders, u # v PROVE Ids(oo[u], de[u]) \cap Ids(oo[v], de[v]) \subseteq {0} \cup R
  <2>1. CASE u = w
    BY <1>3, <1>8, <1>9, <2>1
  <2>2. CASE v = w
    BY <1>3, <1>8, <1>9, <2>2
  <2>3. CASE u # w /\ v # w
    BY <1>3, <1>9, <2>3 DEF AllApart
  <2> QED BY <2>1, <2>2, <2>3
<1>10. AllApart(oo, de, t, n, R)
  BY <1>3, <1>7, <1>9 DEF AllApart
<1> QED BY <1>2, <1>10

\* A decoder takes a byte that is new and delivers
LEMMA ApartNew ==
  ASSUME NEW o, NEW dd, NEW s, NEW n, NEW R, AllApart(o, dd, s, n, R), StreamOK(s, n), NEW w \in Decoders,
         NEW b \in 1 .. n, Unseen(s, {b}), \A v \in Decoders : b \notin Ids(o[v], dd[v]), NEW e, NEW c, Moved(dd[w], e, c, b, R)
  PROVE  AllApart([o EXCEPT ![w] = Given(o[w], c)], [dd EXCEPT ![w] = e], s, n, R)
<1>1. b \in Nat /\ b # 0 /\ Solo(o[w], dd[w], R)
  BY DEF AllApart, StreamOK
<1>2. PICK p, F : p = Given(o[w], c) /\ F = {b}
  OBVIOUS
<1>3. Solo(p, e, R) /\ Ids(p, e) \subseteq Ids(o[w], dd[w]) \cup {0, b}
  BY <1>1, <1>2, MovedSolo
<1>4. F \subseteq 1 .. n /\ Unseen(s, F) /\ \A v \in Decoders : Ids(o[v], dd[v]) \cap F \subseteq R
  BY <1>2
<1>5. Ids(p, e) \subseteq Ids(o[w], dd[w]) \cup {0} \cup F
  BY <1>2, <1>3
<1>6. AllApart([o EXCEPT ![w] = p], [dd EXCEPT ![w] = e], s, n, R)
  BY <1>3, <1>4, <1>5, ApartAfter
<1> QED BY <1>2, <1>6

\* A decoder delivers one it held
LEMMA ApartHeld ==
  ASSUME NEW o, NEW dd, NEW s, NEW n, NEW R, AllApart(o, dd, s, n, R), StreamOK(s, n), NEW w \in Decoders, NEW e, NEW c,
         \A k \in Nat : HoldsApart(dd[w], k, R) => Moved(dd[w], e, c, k, R)
  PROVE  AllApart([o EXCEPT ![w] = Given(o[w], c)], [dd EXCEPT ![w] = e], s, n, R)
<1>1. PICK a \in Nat, b \in Nat : a = n + 1 /\ b = n + 2
  BY DEF StreamOK
<1>2. n \in Nat /\ a # 0 /\ b # 0 /\ a # b /\ a \notin 0 .. n /\ b \notin 0 .. n
  BY <1>1 DEF StreamOK
<1>3. Solo(o[w], dd[w], R) /\ Ids(o[w], dd[w]) \subseteq 0 .. n
  BY DEF AllApart
<1>4. a \notin Ids(o[w], dd[w]) /\ b \notin Ids(o[w], dd[w])
  BY <1>2, <1>3
<1>5. HoldsApart(dd[w], a, R) /\ HoldsApart(dd[w], b, R)
  BY <1>2, <1>3, <1>4 DEF HoldsApart, Solo, Ids, Differ
<1>6. Moved(dd[w], e, c, a, R) /\ Moved(dd[w], e, c, b, R)
  BY <1>5
<1>7. PICK p : p = Given(o[w], c)
  OBVIOUS
<1>8. Solo(p, e, R) /\ Ids(p, e) \subseteq Ids(o[w], dd[w]) \cup {0, a}
  BY <1>2, <1>3, <1>4, <1>6, <1>7, MovedSolo
<1>9. Ids(p, e) \subseteq Ids(o[w], dd[w]) \cup {0, b}
  BY <1>2, <1>3, <1>4, <1>6, <1>7, MovedSolo
<1>10. PICK F : F = {}
  OBVIOUS
<1>11. F \subseteq 1 .. n /\ Unseen(s, F) /\ \A v \in Decoders : Ids(o[v], dd[v]) \cap F \subseteq R
  BY <1>10 DEF Unseen
<1>12. Ids(p, e) \subseteq Ids(o[w], dd[w]) \cup {0} \cup F
  BY <1>2, <1>8, <1>9
<1>13. AllApart([o EXCEPT ![w] = p], [dd EXCEPT ![w] = e], s, n, R)
  BY <1>8, <1>11, <1>12, ApartAfter
<1> QED BY <1>7, <1>13

\* Numbers that may come twice, and more of them
LEMMA ApartMore ==
  ASSUME NEW o, NEW dd, NEW s, NEW n, NEW R, AllApart(o, dd, s, n, R), NEW Q, R \subseteq Q, Q \subseteq 1 .. n
  PROVE  AllApart(o, dd, s, n, Q)
<1>1. \A x, y : Differ(x, y, R) => Differ(x, y, Q)
  BY DEF Differ
<1>2. \A w \in Decoders : Solo(o[w], dd[w], R) => Solo(o[w], dd[w], Q)
  BY <1>1 DEF Solo
<1> QED BY <1>2 DEF AllApart

\* A decoder reads again a byte that may come twice
LEMMA ApartStale ==
  ASSUME NEW o, NEW dd, NEW s, NEW n, NEW R, AllApart(o, dd, s, n, R), StreamOK(s, n),
         NEW b \in R, Unseen(s, {b}), NEW w \in Decoders, NEW e, NEW c, Moved(dd[w], e, c, b, R)
  PROVE  AllApart([o EXCEPT ![w] = Given(o[w], c)], [dd EXCEPT ![w] = e], s, n, R)
<1>1. b \in 1 .. n /\ b \in Nat /\ b # 0
  BY DEF AllApart, StreamOK
<1>2. Solo(o[w], dd[w], R)
  BY DEF AllApart
<1>3. PICK p : p = Given(o[w], c)
  OBVIOUS
<1>4. Solo(p, e, R) /\ Ids(p, e) \subseteq Ids(o[w], dd[w]) \cup {0, b}
  BY <1>1, <1>2, <1>3, MovedSolo
<1>5. PICK F : F = {b}
  OBVIOUS
<1>6. F \subseteq 1 .. n /\ Unseen(s, F) /\ \A v \in Decoders : Ids(o[v], dd[v]) \cap F \subseteq R
  BY <1>1, <1>5
<1>7. Ids(p, e) \subseteq Ids(o[w], dd[w]) \cup {0} \cup F
  BY <1>4, <1>5
<1>8. AllApart([o EXCEPT ![w] = p], [dd EXCEPT ![w] = e], s, n, R)
  BY <1>4, <1>6, <1>7, ApartAfter
<1> QED BY <1>3, <1>8
-----------------------------------------------------------------------------
(* Steps on the stream *)

LEMMA FrontTaken ==
  ASSUME NEW a \in Seq(Bytes), NEW b \in Seq(Bytes), a # << >>
  PROVE  /\ Suffix(a \o b, 1, Tail(a) \o b) /\ (a \o b)[1] = Head(a) /\ Tail(a) \in Seq(Bytes)
         /\ Head(a) \in Bytes /\ 1 \in 1 .. Len(a \o b)
<1>1. /\ Len(a) \in Nat /\ Len(b) \in Nat /\ Len(a) >= 1 /\ Tail(a) \in Seq(Bytes) /\ Len(Tail(a)) = Len(a) - 1
      /\ Head(a) = a[1] /\ Head(a) \in Bytes /\ \A i \in 1 .. Len(a) - 1 : Tail(a)[i] = a[i + 1]
  OBVIOUS
<1>2. PICK s, t : s = a \o b /\ t = Tail(a) \o b
  OBVIOUS
<1>3. /\ s \in Seq(Bytes) /\ Len(s) = Len(a) + Len(b)
      /\ \A i \in 1 .. Len(s) : s[i] = IF i <= Len(a) THEN a[i] ELSE b[i - Len(a)]
  BY <1>1, <1>2
<1>4. /\ t \in Seq(Bytes) /\ Len(t) = (Len(a) - 1) + Len(b)
      /\ \A i \in 1 .. Len(t) : t[i] = IF i <= Len(a) - 1 THEN Tail(a)[i] ELSE b[i - (Len(a) - 1)]
  BY <1>1, <1>2
<1>5. ASSUME NEW i \in 1 .. Len(t) PROVE t[i] = s[i + 1]
  <2>1. i + 1 \in 1 .. Len(s) /\ (i <= Len(a) - 1 <=> i + 1 <= Len(a)) /\ i - (Len(a) - 1) = (i + 1) - Len(a)
    BY <1>1, <1>3, <1>4
  <2>2. CASE i <= Len(a) - 1
    BY <1>1, <1>3, <1>4, <2>1, <2>2
  <2>3. CASE ~(i <= Len(a) - 1)
    BY <1>1, <1>3, <1>4, <2>1, <2>3
  <2> QED BY <2>2, <2>3
<1>6. Suffix(s, 1, t)
  BY <1>1, <1>3, <1>4, <1>5 DEF Suffix
<1> QED BY <1>1, <1>2, <1>3, <1>6

LEMMA SuffixTwice ==
  ASSUME NEW s, NEW t, NEW u, Suffix(s, 1, t), Suffix(t, 1, u)
  PROVE  Suffix(s, 2, u)
<1>1. /\ s \in Seq(Bytes) /\ t \in Seq(Bytes) /\ u \in Seq(Bytes) /\ Len(s) \in Nat /\ Len(t) \in Nat /\ Len(u) \in Nat
      /\ Len(t) = Len(s) - 1 /\ Len(u) = Len(t) - 1
      /\ (\A i \in 1 .. Len(t) : t[i] = s[i + 1]) /\ (\A i \in 1 .. Len(u) : u[i] = t[i + 1])
  BY DEF Suffix
<1>2. ASSUME NEW i \in 1 .. Len(u) PROVE u[i] = s[i + 2]
  <2>1. i + 1 \in 1 .. Len(t) /\ (i + 1) + 1 = i + 2
    BY <1>1
  <2> QED BY <1>1, <2>1
<1> QED BY <1>1, <1>2 DEF Suffix

LEMMA ArriveKeeps ==
  ASSUME NEW a \in Seq(Bytes), NEW b \in Seq(Bytes), b # << >>
  PROVE  /\ Append(a, Head(b)) \o Tail(b) = a \o b
         /\ Append(a, Head(b)) \in Seq(Bytes) /\ Tail(b) \in Seq(Bytes)
OBVIOUS
-----------------------------------------------------------------------------
(* The steps *)

LEMMA KbFacts ==
  ASSUME KbInv
  PROVE  /\ obf \in Seq(Bytes) /\ wire \in Seq(Bytes) /\ kb \in Mods /\ split \in BOOLEAN
         /\ taken \in [Decoders -> Seq(Items)] /\ out \in [Decoders -> Seq(Items)] /\ dec \in [Decoders -> DecSet]
         /\ at \in [Decoders -> {"check", "read", "skip", "drop"}] /\ raced \subseteq 1 .. typed
         /\ StreamOK(obf \o wire, typed) /\ AllApart(out, dec, obf \o wire, typed, raced)
         /\ obf \o wire \in Seq(Bytes) /\ typed \in Nat /\ typed + 1 \in Nat
BY DEF KbInv, Stream, Racing, AllApart, StreamOK

LEMMA TwoDecoders == "kernel" \in Decoders /\ "driver" \in Decoders /\ \A w \in Decoders : w = "kernel" \/ w = "driver"
BY DEF Decoders

LEMMA ApartTyped ==
  ASSUME NEW o, NEW dd, NEW s, NEW n \in Nat, NEW R, AllApart(o, dd, s, n, R), NEW t,
         \A I : Unseen(s, I) /\ I \subseteq 0 .. n => Unseen(t, I)
  PROVE  AllApart(o, dd, t, n + 1, R)
<1>1. \A I : I \subseteq 0 .. n => I \subseteq 0 .. n + 1
  OBVIOUS
<1>2. \A w \in Decoders : Ids(o[w], dd[w]) \subseteq 0 .. n /\ Unseen(s, Ids(o[w], dd[w]))
  BY DEF AllApart
<1>3. \A w \in Decoders : Ids(o[w], dd[w]) \subseteq 0 .. n + 1 /\ Unseen(t, Ids(o[w], dd[w]))
  BY <1>1, <1>2
<1> QED BY <1>3 DEF AllApart

LEMMA AppendBehind ==
  ASSUME NEW f \in Seq(Bytes), NEW w \in Seq(Bytes), NEW b \in Bytes
  PROVE  Append(w, b) \in Seq(Bytes) /\ f \o Append(w, b) = Append(f \o w, b)
OBVIOUS

LEMMA BothBehind ==
  ASSUME NEW w \in Seq(Bytes), NEW a \in Bytes, NEW b \in Bytes
  PROVE  w \o <<a, b>> = Append(Append(w, a), b)
OBVIOUS

\* What is ahead of the kernel grows with the stream
LEMMA AheadOK ==
  ASSUME NEW s, NEW w, NEW t, NEW n, Ahead(s, w, t, n), StreamOK(t, n)
  PROVE  StreamOK(s, n)
BY DEF Ahead

LEMMA SuffixMore ==
  ASSUME NEW s, NEW t, Suffix(s, 1, t), s[1].scan = "E0", NEW b \in Bytes
  PROVE  Suffix(Append(s, b), 1, Append(t, b)) /\ Append(s, b)[1].scan = "E0"
<1>1. /\ s \in Seq(Bytes) /\ t \in Seq(Bytes) /\ Len(s) \in Nat /\ Len(t) \in Nat /\ Len(s) >= 1 /\ Len(t) = Len(s) - 1
      /\ \A i \in 1 .. Len(t) : t[i] = s[i + 1]
  BY DEF Suffix
<1>2. PICK u, v : u = Append(s, b) /\ v = Append(t, b)
  OBVIOUS
<1>3. u \in Seq(Bytes) /\ Len(u) = Len(s) + 1 /\ u[Len(s) + 1] = b /\ \A i \in 1 .. Len(s) : u[i] = s[i]
  BY <1>1, <1>2
<1>4. v \in Seq(Bytes) /\ Len(v) = Len(t) + 1 /\ v[Len(t) + 1] = b /\ \A i \in 1 .. Len(t) : v[i] = t[i]
  BY <1>1, <1>2
<1>5. ASSUME NEW i \in 1 .. Len(v) PROVE v[i] = u[i + 1]
  <2>1. CASE i \in 1 .. Len(t)
    <3>1. i + 1 \in 1 .. Len(s)
      BY <1>1, <2>1
    <3> QED BY <1>1, <1>3, <1>4, <2>1, <3>1
  <2>2. CASE i = Len(t) + 1
    <3>1. i + 1 = Len(s) + 1
      BY <1>1, <2>2
    <3> QED BY <1>3, <1>4, <2>2, <3>1
  <2> QED BY <1>1, <1>4, <2>1, <2>2
<1>6. Suffix(u, 1, v)
  BY <1>1, <1>3, <1>4, <1>5 DEF Suffix
<1>7. u[1].scan = "E0"
  BY <1>1, <1>3
<1> QED BY <1>2, <1>6, <1>7

LEMMA AheadTyped ==
  ASSUME NEW s, NEW w, NEW t, NEW n, Ahead(s, w, t, n), NEW b \in Bytes, NEW m, StreamOK(Append(s, b), m)
  PROVE  Ahead(Append(s, b), w, Append(t, b), m)
<1>1. CASE w \notin {"skip", "drop"}
  BY <1>1 DEF Ahead
<1>2. CASE w \in {"skip", "drop"}
  BY <1>2, SuffixMore DEF Ahead
<1> QED BY <1>1, <1>2

LEMMA IdGrows ==
  ASSUME NEW n \in Nat, NEW i \in 1 .. n
  PROVE  i \in 1 .. n + 1 /\ {i} \subseteq 0 .. n
OBVIOUS

LEMMA TypeKeeps ==
  ASSUME KbInv, NEW k \in Scans \cup {"shift", "shift up", "caps"}, Type(k)
  PROVE  KbInv'
<1>1. /\ typed' = typed + 1 /\ kb' = Modified(kb, k)
      /\ wire' = Append(wire, [scan |-> k, id |-> typed + 1, ch |-> CharAt(kb, k)])
      /\ UNCHANGED <<obf, dec, stage, out, taken, split, latch, at, raced, drain>>
  BY DEF Type, port, decoded
<1>2. PICK b : b = [scan |-> k, id |-> typed + 1, ch |-> CharAt(kb, k)]
  OBVIOUS
<1>3. b \in Bytes /\ b.id = typed + 1 /\ b.scan = k /\ k # "E0" /\ Means(b, kb)
  <2>1. typed + 1 \in Nat
    BY KbFacts
  <2>2. CharAt(kb, k) \in Glyphs
    BY CharAtIs
  <2>3. k \in KeySet
    BY DEF KeySet
  <2>4. k # "E0"
    BY KeysAssumption DEF Scans
  <2>5. b.ch = CharAt(kb, k) /\ b.scan = k /\ b.id = typed + 1
    BY <1>2
  <2> QED BY <1>2, <2>1, <2>2, <2>3, <2>4, <2>5 DEF Bytes, Means
<1>4. PICK s, t : s = obf \o wire /\ t = Append(s, b)
  OBVIOUS
<1>5. wire' = Append(wire, b) /\ wire' \in Seq(Bytes) /\ obf' \o wire' = t
  <2>1. PICK f \in Seq(Bytes), w \in Seq(Bytes) : f = obf /\ w = wire
    BY KbFacts
  <2>2. Append(w, b) \in Seq(Bytes) /\ f \o Append(w, b) = Append(f \o w, b)
    BY <1>3, AppendBehind
  <2> QED BY <1>1, <1>2, <1>4, <2>1, <2>2
<1>6. StreamOK(s, typed) /\ AllApart(out, dec, s, typed, raced) /\ typed \in Nat
  BY <1>4, KbFacts
<1>7. StreamOK(t, typed + 1) /\ \A I : Unseen(s, I) /\ I \subseteq 0 .. typed => Unseen(t, I)
  BY <1>3, <1>4, <1>6, TypedOK
<1>8. AllApart(out, dec, t, typed + 1, raced)
  BY <1>6, <1>7, ApartTyped
<1>9. kb' \in Mods
  BY <1>1, KbFacts, ModifiedIs
<1>10. ASSUME stage = "none", ~split
       PROVE  /\ KernelKeeps(dec["kernel"], out["kernel"], taken["kernel"])
              /\ \E u : Ahead(u, at["kernel"], t, typed + 1) /\ Replays(u, Mod(dec["kernel"]), kb')
  <2>1. PICK u : Ahead(u, at["kernel"], s, typed) /\ Replays(u, Mod(dec["kernel"]), kb)
    BY <1>4, <1>10 DEF KbInv, Kept
  <2>2. StreamOK(u, typed)
    BY <1>6, <2>1, AheadOK
  <2>3. StreamOK(Append(u, b), typed + 1)
    BY <1>3, <2>2, TypedOK
  <2>4. Ahead(Append(u, b), at["kernel"], t, typed + 1)
    BY <1>3, <1>4, <2>1, <2>3, AheadTyped
  <2>5. Replays(Append(u, b), Mod(dec["kernel"]), kb')
    BY <1>1, <1>3, <2>1, <2>2, ReplayTyped
  <2> QED BY <1>10, <2>4, <2>5 DEF KbInv, Kept
<1>12. Latched'
  <2>1. CASE latch = NoByte
    BY <1>1, <2>1 DEF Latched
  <2>2. CASE latch # NoByte
    <3>1. latch \in Bytes /\ latch.id \in 1 .. typed /\ (latch.scan # "E0" => Unseen(s, {latch.id}))
      BY <1>4, <2>2 DEF KbInv, Latched
    <3>2. latch.id \in 1 .. typed + 1 /\ {latch.id} \subseteq 0 .. typed
      BY <1>6, <3>1, IdGrows
    <3>3. latch.scan # "E0" => Unseen(t, {latch.id})
      BY <1>7, <3>1, <3>2
    <3> QED BY <1>1, <1>5, <3>1, <3>2, <3>3 DEF Latched
  <2> QED BY <2>1, <2>2
<1>13. Racing' /\ Alone'
  BY <1>1 DEF KbInv, Racing, Alone
<1>14. Kept'
  BY <1>1, <1>5, <1>10 DEF Kept
<1> QED BY <1>1, <1>5, <1>7, <1>8, <1>9, <1>12, <1>13, <1>14, KbFacts DEF KbInv, Stream

LEMMA AheadTypedTwo ==
  ASSUME NEW s, NEW w \in {"skip", "drop"}, NEW t, NEW n, Ahead(s, w, t, n), NEW a \in Bytes, NEW b \in Bytes, NEW m,
         StreamOK(Append(Append(s, a), b), m)
  PROVE  Ahead(Append(Append(s, a), b), w, Append(Append(t, a), b), m)
<1>1. Suffix(Append(s, a), 1, Append(t, a)) /\ Append(s, a)[1].scan = "E0"
  BY SuffixMore DEF Ahead
<1>2. Suffix(Append(Append(s, a), b), 1, Append(Append(t, a), b)) /\ Append(Append(s, a), b)[1].scan = "E0"
  BY <1>1, SuffixMore
<1> QED BY <1>2 DEF Ahead

LEMMA TypeExtendedKeeps ==
  ASSUME KbInv, NEW k \in Extended, TypeExtended(k)
  PROVE  KbInv'
<1>1. /\ typed' = typed + 1
      /\ wire' = wire \o <<[scan |-> "E0", id |-> typed + 1, ch |-> ""], [scan |-> k, id |-> typed + 1, ch |-> ""]>>
      /\ UNCHANGED <<obf, kb, dec, stage, out, taken, split, latch, at, raced, drain>>
  BY DEF TypeExtended, port, decoded
<1>2. PICK a, b : a = [scan |-> "E0", id |-> typed + 1, ch |-> ""] /\ b = [scan |-> k, id |-> typed + 1, ch |-> ""]
  OBVIOUS
<1>3. a \in Bytes /\ b \in Bytes /\ a.id = typed + 1 /\ b.id = typed + 1 /\ a.scan = "E0" /\ b.scan # "E0"
  <2>1. typed + 1 \in Nat /\ "" \in Glyphs /\ k \in KeySet /\ "E0" \in KeySet /\ k # "E0"
    BY KbFacts, KeysAssumption DEF Glyphs, KeySet
  <2> QED BY <1>2, <2>1 DEF Bytes
<1>4. Silent(a, b)
  BY <1>2, <1>3 DEF Silent
<1>5. PICK s, t : s = obf \o wire /\ t = Append(Append(s, a), b)
  OBVIOUS
<1>6. wire' = wire \o <<a, b>>
  BY <1>1, <1>2
<1>7. wire' \in Seq(Bytes) /\ obf' \o wire' = t
  <2>1. PICK f \in Seq(Bytes), w \in Seq(Bytes) : f = obf /\ w = wire
    BY KbFacts
  <2>2. w \o <<a, b>> \in Seq(Bytes) /\ f \o (w \o <<a, b>>) = Append(Append(f \o w, a), b)
    <3>1. PICK v \in Seq(Bytes) : v = Append(w, a)
      BY <1>3, <2>1, AppendIn
    <3>2. w \o <<a, b>> = Append(v, b)
      BY <1>3, <2>1, <3>1, BothBehind
    <3>3. f \o v = Append(f \o w, a) /\ f \o Append(v, b) = Append(f \o v, b) /\ Append(v, b) \in Seq(Bytes)
      BY <1>3, <2>1, <3>1, AppendBehind
    <3> QED BY <3>2, <3>3
  <2> QED BY <1>1, <1>5, <1>6, <2>1, <2>2
<1>8. StreamOK(s, typed) /\ AllApart(out, dec, s, typed, raced) /\ typed \in Nat
  BY <1>5, KbFacts
<1>9. StreamOK(t, typed + 1) /\ \A I : Unseen(s, I) /\ I \subseteq 0 .. typed => Unseen(t, I)
  BY <1>3, <1>5, <1>8, TypedTwoOK
<1>10. AllApart(out, dec, t, typed + 1, raced)
  BY <1>8, <1>9, ApartTyped
<1>11. ASSUME stage = "none", ~split
       PROVE  /\ KernelKeeps(dec["kernel"], out["kernel"], taken["kernel"])
              /\ \E u : Ahead(u, at["kernel"], t, typed + 1) /\ Replays(u, Mod(dec["kernel"]), kb')
  <2>1. PICK u : Ahead(u, at["kernel"], s, typed) /\ Replays(u, Mod(dec["kernel"]), kb)
    BY <1>5, <1>11 DEF KbInv, Kept
  <2>2. StreamOK(u, typed)
    BY <1>8, <2>1, AheadOK
  <2>3. StreamOK(Append(Append(u, a), b), typed + 1)
    BY <1>3, <2>2, TypedTwoOK
  <2>4. Ahead(Append(Append(u, a), b), at["kernel"], t, typed + 1)
    <3>1. CASE at["kernel"] \notin {"skip", "drop"}
      BY <1>5, <2>1, <3>1 DEF Ahead
    <3>2. CASE at["kernel"] \in {"skip", "drop"}
      BY <1>3, <1>5, <2>1, <2>2, <2>3, <3>2, AheadTypedTwo
    <3> QED BY <3>1, <3>2
  <2>5. Replays(Append(Append(u, a), b), Mod(dec["kernel"]), kb')
    BY <1>1, <1>4, <2>1, <2>2, ReplayTypedTwo
  <2> QED BY <1>11, <2>4, <2>5 DEF KbInv, Kept
<1>12. Latched'
  <2>1. CASE latch = NoByte
    BY <1>1, <2>1 DEF Latched
  <2>2. CASE latch # NoByte
    <3>1. latch \in Bytes /\ latch.id \in 1 .. typed /\ (latch.scan # "E0" => Unseen(s, {latch.id}))
      BY <1>5, <2>2 DEF KbInv, Latched
    <3>2. latch.id \in 1 .. typed + 1 /\ {latch.id} \subseteq 0 .. typed
      BY <1>8, <3>1, IdGrows
    <3>3. latch.scan # "E0" => Unseen(t, {latch.id})
      BY <1>9, <3>1, <3>2
    <3> QED BY <1>1, <1>7, <3>1, <3>2, <3>3 DEF Latched
  <2> QED BY <2>1, <2>2
<1>13. Racing' /\ Alone'
  BY <1>1 DEF KbInv, Racing, Alone
<1>14. Kept'
  BY <1>1, <1>7, <1>11 DEF Kept
<1> QED BY <1>1, <1>7, <1>9, <1>10, <1>12, <1>13, <1>14, KbFacts DEF KbInv, Stream

\* The bytes move on and nothing else changes
LEMMA ArriveInv ==
  ASSUME KbInv, Arrive
  PROVE  KbInv'
<1>1. /\ wire # << >> /\ wire' = Tail(wire) /\ obf' = Append(obf, Head(wire))
      /\ UNCHANGED <<kb, dec, stage, out, taken, split, typed, latch, at, raced, drain>>
  BY DEF Arrive, decoded
<1>2. obf' \o wire' = obf \o wire /\ obf' \in Seq(Bytes) /\ wire' \in Seq(Bytes)
  BY <1>1, KbFacts, ArriveKeeps
<1>3. obf' # << >>
  <2>1. Len(obf') = Len(obf) + 1 /\ Len(obf) \in Nat
    BY <1>1, KbFacts
  <2> QED BY <1>2, <2>1
<1>4. Stream' /\ AllApart(out, dec, obf \o wire, typed, raced)'
  BY <1>1, <1>2 DEF KbInv, Stream
<1>5. Latched' /\ Racing'
  BY <1>1, <1>2, <1>3 DEF KbInv, Latched, Racing
<1>6. Alone' /\ Kept'
  BY <1>1, <1>2, <1>3 DEF KbInv, Alone, Kept
<1> QED BY <1>4, <1>5, <1>6 DEF KbInv

LEMMA StageInv ==
  ASSUME KbInv, ResetStart \/ Register \/ Ask \/ DrainEnd \/ UNCHANGED KbVars
  PROVE  KbInv'
<1>1. /\ UNCHANGED <<wire, obf, kb, dec, out, taken, split, typed, latch, at, raced>>
      /\ stage' = "none" => stage = "none" /\ drain' = drain
  BY DEF ResetStart, Register, Ask, DrainEnd, KbVars, port, decoded, KbInv, Alone
<1>2. Stream' /\ AllApart(out, dec, obf \o wire, typed, raced)' /\ Latched' /\ Racing'
  BY <1>1 DEF KbInv, Stream, Latched, Racing
<1>3. Alone' /\ Kept'
  BY <1>1 DEF KbInv, Alone, Kept
<1> QED BY <1>2, <1>3 DEF KbInv

\* A decoder sees a byte
LEMMA SeeInv ==
  ASSUME KbInv, NEW w \in Decoders, NEW from, NEW to, See(w, from, to), UNCHANGED drain,
         \/ from = "skip" /\ to = "drop"
         \/ w = "kernel" /\ from = "check" /\ to = "read" /\ dec["kernel"].queued = None
         \/ w = "driver" /\ stage # "none" /\ to \in {"read", "drop"}
  PROVE  KbInv'
<1>1. /\ at[w] = from /\ obf # << >> /\ at' = [at EXCEPT ![w] = to]
      /\ UNCHANGED <<wire, obf, latch, kb, dec, out, taken, stage, split, raced, typed, drain>>
  BY DEF See, decoded
<1>2. /\ at' \in [Decoders -> {"check", "read", "skip", "drop"}] /\ at'[w] = to
      /\ \A v \in Decoders : v # w => at'[v] = at[v]
  BY <1>1, KbFacts
<1>3. Stream' /\ AllApart(out, dec, obf \o wire, typed, raced)' /\ Latched' /\ Racing'
  BY <1>1, <1>2 DEF KbInv, Stream, Latched, Racing
<1>4. stage = "none" => w = "kernel"
  BY <1>1, TwoDecoders DEF KbInv, Alone
<1>5. Alone'
  BY <1>1, <1>2, <1>4, TwoDecoders DEF KbInv, Alone
<1>6. stage = "none" => (at'["kernel"] \in {"skip", "drop"} <=> at["kernel"] \in {"skip", "drop"})
  BY <1>1, <1>2, <1>4
<1>7. stage = "none" => \A s : Ahead(s, at'["kernel"], obf \o wire, typed) <=> Ahead(s, at["kernel"], obf \o wire, typed)
  BY <1>6 DEF Ahead
<1>8. Kept'
  BY <1>1, <1>7 DEF KbInv, Kept
<1> QED BY <1>3, <1>5, <1>8 DEF KbInv

\* A decoder reads port 0x60: the byte in front, or the last one again, which the other was faster to take
LEMMA InIs ==
  ASSUME KbInv, NEW w \in Decoders, at[w] \in {"read", "drop"}, In(w), UNCHANGED wire
  PROVE  /\ Data \in Bytes /\ Data.id \in 1 .. typed /\ latch' = Data /\ obf' \in Seq(Bytes)
         /\ StreamOK(obf' \o wire', typed) /\ AllApart(out, dec, obf' \o wire', typed, raced')
         /\ Data.scan # "E0" => Unseen(obf' \o wire', {Data.id})
         /\ \/ /\ obf # << >> /\ Suffix(obf \o wire, 1, obf' \o wire') /\ (obf \o wire)[1] = Data
               /\ Data.scan # "E0" => \A v \in Decoders : Data.id \notin Ids(out[v], dec[v])
            \/ obf = << >> /\ Data.id \in raced'
         /\ \A v \in Decoders : v # w /\ at[v] \in {"read", "drop"} /\ obf' = << >> => Data.id \in raced'
<1>1. PICK b : b = Data
  OBVIOUS
<1>2. /\ obf' = (IF obf = << >> THEN obf ELSE Tail(obf)) /\ latch' = b /\ wire' = wire
      /\ raced' = IF Len(obf) = 1 /\ \E v \in Decoders \ {w} : at[v] \in {"read", "drop"} THEN raced \cup {b.id} ELSE raced
  BY <1>1 DEF In
<1>3. CASE obf = << >>
  <2>1. b = latch /\ obf' = obf /\ raced' = raced
    <3>1. Len(obf) # 1
      BY <1>3
    <3> QED BY <1>1, <1>2, <1>3, <3>1 DEF Data
  <2>2. latch # NoByte /\ latch.id \in raced
    BY <1>3 DEF KbInv, Racing
  <2>3. b \in Bytes /\ b.id \in 1 .. typed /\ (b.scan # "E0" => Unseen(obf \o wire, {b.id}))
    BY <2>1, <2>2 DEF KbInv, Latched
  <2> QED BY <1>1, <1>2, <1>3, <2>1, <2>2, <2>3, KbFacts
<1>4. CASE obf # << >>
  <2>1. b = Head(obf) /\ obf' = Tail(obf)
    BY <1>1, <1>2, <1>4 DEF Data
  <2>2. PICK s, t : s = obf \o wire /\ t = obf' \o wire'
    OBVIOUS
  <2>3. Suffix(s, 1, t) /\ s[1] = b /\ obf' \in Seq(Bytes) /\ b \in Bytes /\ 1 \in 1 .. Len(s)
    BY <1>2, <1>4, <2>1, <2>2, KbFacts, FrontTaken
  <2>4. StreamOK(s, typed) /\ AllApart(out, dec, s, typed, raced)
    BY <2>2, KbFacts
  <2>5. b.id \in 1 .. typed
    BY <2>3, <2>4 DEF StreamOK
  <2>6. raced \subseteq raced' /\ raced' \subseteq 1 .. typed
    BY <1>2, <2>5, KbFacts
  <2>7. StreamOK(t, typed) /\ AllApart(out, dec, t, typed, raced')
    <3>1. StreamOK(t, typed) /\ AllApart(out, dec, t, typed, raced)
      BY <2>3, <2>4, EatOK, ApartEaten
    <3> QED BY <2>6, <3>1, ApartMore
  <2>8. b.scan # "E0" => \A v \in Decoders : b.id \notin Ids(out[v], dec[v])
    BY <2>3, <2>4 DEF AllApart, Unseen
  <2>9. b.scan # "E0" => Unseen(t, {b.id})
    <3> SUFFICES ASSUME b.scan # "E0", NEW i \in 1 .. Len(t), t[i].scan # "E0", t[i].id = b.id PROVE FALSE
      BY DEF Unseen
    <3>1. i \in Nat /\ i + 1 \in 1 .. Len(s) /\ i + 1 # 1 /\ t[i] = s[i + 1]
      BY <2>3 DEF Suffix
    <3> QED BY <2>3, <2>4, <3>1 DEF StreamOK
  <2>10. obf' = << >> => Len(obf) = 1
    <3>1. obf \in Seq(Bytes) /\ Len(obf) \in Nat /\ Len(obf) >= 1 /\ Len(obf') = Len(obf) - 1
      BY <1>4, <2>1, KbFacts
    <3> QED BY <3>1
  <2>11. \A v \in Decoders : v # w /\ at[v] \in {"read", "drop"} /\ obf' = << >> => b.id \in raced'
    BY <1>2, <2>10
  <2> QED BY <1>1, <1>2, <1>4, <2>2, <2>3, <2>5, <2>7, <2>8, <2>9, <2>11
<1> QED BY <1>3, <1>4

\* What the controller is like afterwards
LEMMA InInv ==
  ASSUME KbInv, NEW w \in Decoders, at[w] \in {"read", "drop"}, In(w),
         NEW x \in {"check", "skip"}, at' = [at EXCEPT ![w] = x], UNCHANGED <<wire, kb, stage, split, typed>>,
         stage = "none" => drain' = drain,
         at'["kernel"] # "check" => dec'["kernel"].queued = None, taken' \in [Decoders -> Seq(Items)]
  PROVE  Stream' /\ Latched' /\ Racing' /\ Alone'
<1>1. PICK b : b = Data
  OBVIOUS
<1>2. /\ b \in Bytes /\ b.id \in 1 .. typed /\ latch' = b /\ obf' \in Seq(Bytes) /\ StreamOK(obf' \o wire', typed)
      /\ b.scan # "E0" => Unseen(obf' \o wire', {b.id})
      /\ \A v \in Decoders : v # w /\ at[v] \in {"read", "drop"} /\ obf' = << >> => b.id \in raced'
  BY <1>1, InIs
<1>3. /\ at' \in [Decoders -> {"check", "read", "skip", "drop"}] /\ at'[w] = x
      /\ \A v \in Decoders : v # w => at'[v] = at[v]
  BY KbFacts
<1>4. b # NoByte
  <2>1. b.id # 0
    BY <1>2, KbFacts
  <2>2. NoByte.id = 0
    BY DEF NoByte
  <2> QED BY <2>1, <2>2
<1>5. Stream' /\ Latched'
  BY <1>2, KbFacts DEF Stream, Latched
<1>6. Racing'
  BY <1>2, <1>3, <1>4 DEF Racing
<1>7. stage = "none" => w = "kernel" /\ at["driver"] = "check" /\ drain = -1
  BY TwoDecoders DEF KbInv, Alone
<1>8. Alone'
  BY <1>3, <1>7, TwoDecoders DEF Alone
<1> QED BY <1>5, <1>6, <1>8

LEMMA ReadE0Inv ==
  ASSUME KbInv, NEW w \in Decoders, ReadE0(w), stage = "none" => drain' = drain
  PROVE  KbInv'
<1>1. /\ at[w] = "read" /\ Data.scan = "E0" /\ In(w) /\ at' = [at EXCEPT ![w] = "skip"]
      /\ UNCHANGED <<wire, kb, dec, out, taken, stage, split, typed>>
  BY DEF ReadE0, decoded
<1>2. w = "kernel" => dec["kernel"].queued = None
  BY <1>1 DEF KbInv, Alone
<1>3. \A v \in Decoders : v # w => at'[v] = at[v]
  BY <1>1, KbFacts
<1>4. at'["kernel"] # "check" => dec'["kernel"].queued = None
  BY <1>1, <1>2, <1>3, TwoDecoders DEF KbInv, Alone
<1>5. Stream' /\ Latched' /\ Racing' /\ Alone'
  BY <1>1, <1>4, KbFacts, InInv
<1>6. AllApart(out, dec, obf \o wire, typed, raced)'
  BY <1>1, InIs
<1>7. ASSUME stage = "none", ~split
      PROVE  /\ KernelKeeps(dec["kernel"], out["kernel"], taken["kernel"])
             /\ \E s : Ahead(s, at'["kernel"], obf' \o wire', typed) /\ Replays(s, Mod(dec["kernel"]), kb)
  <2>1. w = "kernel" /\ obf # << >>
    BY <1>1, <1>7, TwoDecoders DEF KbInv, Alone
  <2>2. PICK s, t : s = obf \o wire /\ t = obf' \o wire'
    OBVIOUS
  <2>3. Suffix(s, 1, t) /\ s[1].scan = "E0" /\ StreamOK(s, typed)
    BY <1>1, <2>1, <2>2, InIs, KbFacts
  <2>4. KernelKeeps(dec["kernel"], out["kernel"], taken["kernel"]) /\ Replays(s, Mod(dec["kernel"]), kb)
    BY <1>1, <1>7, <2>1, <2>2 DEF KbInv, Kept, Ahead
  <2>5. at'["kernel"] = "skip"
    BY <1>1, <2>1, TwoDecoders, KbFacts
  <2>6. Ahead(s, at'["kernel"], t, typed)
    BY <2>3, <2>5 DEF Ahead
  <2> QED BY <2>2, <2>4, <2>6
<1>8. Kept'
  BY <1>1, <1>7 DEF Kept
<1> QED BY <1>5, <1>6, <1>8 DEF KbInv

LEMMA DropInv ==
  ASSUME KbInv, NEW w \in Decoders, DropByte(w)
  PROVE  KbInv'
<1>1. /\ at[w] = "drop" /\ In(w) /\ at' = [at EXCEPT ![w] = "check"]
      /\ UNCHANGED <<wire, kb, dec, out, taken, stage, split, typed, drain>>
  BY DEF DropByte, decoded
<1>2. at'[w] = "check" /\ \A v \in Decoders : v # w => at'[v] = at[v]
  BY <1>1, KbFacts
<1>3. at'["kernel"] # "check" => dec'["kernel"].queued = None
  BY <1>1, <1>2, TwoDecoders DEF KbInv, Alone
<1>4. Stream' /\ Latched' /\ Racing' /\ Alone'
  BY <1>1, <1>3, KbFacts, InInv
<1>5. AllApart(out, dec, obf \o wire, typed, raced)'
  BY <1>1, InIs
<1>6. ASSUME stage = "none", ~split
      PROVE  /\ KernelKeeps(dec["kernel"], out["kernel"], taken["kernel"])
             /\ \E s : Ahead(s, at'["kernel"], obf' \o wire', typed) /\ Replays(s, Mod(dec["kernel"]), kb)
  <2>1. w = "kernel" /\ obf # << >>
    BY <1>1, <1>6, TwoDecoders DEF KbInv, Alone
  <2>2. PICK t, u : t = obf \o wire /\ u = obf' \o wire'
    OBVIOUS
  <2>3. Suffix(t, 1, u)
    BY <1>1, <2>1, <2>2, InIs
  <2>4. PICK s : Ahead(s, "drop", t, typed) /\ Replays(s, Mod(dec["kernel"]), kb)
    BY <1>1, <1>6, <2>1, <2>2 DEF KbInv, Kept
  <2>5. Suffix(s, 1, t) /\ s[1].scan = "E0" /\ StreamOK(s, typed)
    BY <2>4 DEF Ahead
  <2>6. Suffix(s, 2, u)
    BY <2>3, <2>5, SuffixTwice
  <2>7. Replays(u, Mod(dec["kernel"]), kb)
    <3>1. PICK k : k = 2
      OBVIOUS
    <3>2. Suffix(s, k, u) /\ ((k = 1 /\ s[1].scan # "E0") \/ (k = 2 /\ s[1].scan = "E0"))
      BY <2>5, <2>6, <3>1
    <3> QED BY <2>4, <2>5, <3>1, <3>2, ReplayEaten
  <2>8. Ahead(u, at'["kernel"], u, typed)
    BY <1>2, <2>1 DEF Ahead
  <2> QED BY <1>6, <2>2, <2>7, <2>8 DEF KbInv, Kept
<1>7. Kept'
  BY <1>1, <1>6 DEF Kept
<1> QED BY <1>4, <1>5, <1>7 DEF KbInv

LEMMA SkipGiveUpInv ==
  ASSUME KbInv, NEW w \in Decoders, SkipGiveUp(w)
  PROVE  KbInv'
<1>1. /\ at[w] = "skip" /\ at' = [at EXCEPT ![w] = "check"] /\ split' = TRUE
      /\ UNCHANGED <<wire, obf, latch, raced, kb, dec, out, taken, stage, drain, typed>>
  BY DEF SkipGiveUp, decoded
<1>2. /\ at' \in [Decoders -> {"check", "read", "skip", "drop"}] /\ at'[w] = "check"
      /\ \A v \in Decoders : v # w => at'[v] = at[v]
  BY <1>1, KbFacts
<1>3. Stream' /\ AllApart(out, dec, obf \o wire, typed, raced)' /\ Latched' /\ Racing'
  BY <1>1, <1>2 DEF KbInv, Stream, Latched, Racing
<1>4. Alone'
  BY <1>1, <1>2, TwoDecoders DEF KbInv, Alone
<1>5. Kept'
  BY <1>1 DEF Kept
<1> QED BY <1>3, <1>4, <1>5 DEF KbInv

LEMMA Ps2Shape ==
  ASSUME NEW d, NEW b
  PROVE  \E e, c : Ps2Process(d, b) = [d |-> e, c |-> c]
BY DEF Ps2Process, DeadKeys

LEMMA DrainShape ==
  ASSUME NEW d, NEW b
  PROVE  \E e, c : DrainByte(d, b) = [d |-> e, c |-> c]
BY DEF DrainByte, DeadKeys

LEMMA DeliverIs ==
  ASSUME KbInv, NEW w \in Decoders, NEW e, NEW c, Deliver(w, [d |-> e, c |-> c])
  PROVE  /\ dec' = [dec EXCEPT ![w] = e] /\ out' = [out EXCEPT ![w] = Given(out[w], c)]
         /\ UNCHANGED <<wire, split>>
BY KbFacts DEF Deliver, Given

\* A byte that is not 0xE0 and what it does to a decoder
LEMMA ReadApart ==
  ASSUME KbInv, NEW w \in Decoders, at[w] \in {"read", "drop"}, In(w), UNCHANGED wire, Data.scan # "E0"
  PROVE  /\ HoldsApart(dec[w], Data.id, raced')
         /\ \A e, c : Moved(dec[w], e, c, Data.id, raced') =>
              AllApart([out EXCEPT ![w] = Given(out[w], c)], [dec EXCEPT ![w] = e], obf' \o wire', typed, raced')
<1>1. PICK b, R, s, t : b = Data /\ R = raced' /\ s = obf \o wire /\ t = obf' \o wire'
  OBVIOUS
<1>2. /\ b \in Bytes /\ b.id \in 1 .. typed /\ StreamOK(t, typed) /\ AllApart(out, dec, t, typed, R) /\ Unseen(t, {b.id})
      /\ (\A v \in Decoders : b.id \notin Ids(out[v], dec[v])) \/ b.id \in R
  BY <1>1, InIs
<1>3. Solo(out[w], dec[w], R) /\ b.id \in Nat /\ b.id # 0
  BY <1>2, KbFacts DEF AllApart
<1>4. HoldsApart(dec[w], b.id, R)
  BY <1>2, <1>3 DEF HoldsApart, Solo, Ids, Differ
<1>5. ASSUME NEW e, NEW c, Moved(dec[w], e, c, b.id, R)
      PROVE  AllApart([out EXCEPT ![w] = Given(out[w], c)], [dec EXCEPT ![w] = e], t, typed, R)
  <2>1. CASE b.id \in R
    BY <1>2, <1>5, <2>1, ApartStale
  <2>2. CASE \A v \in Decoders : b.id \notin Ids(out[v], dec[v])
    BY <1>2, <1>5, <2>2, ApartNew
  <2> QED BY <1>2, <2>1, <2>2
<1> QED BY <1>1, <1>4, <1>5

LEMMA TakenIs ==
  ASSUME KbInv, NEW w \in Decoders, ReadByte(w), UNCHANGED wire
  PROVE  /\ taken' \in [Decoders -> Seq(Items)]
         /\ taken'[w] = IF obf = << >> \/ Data.ch = "" THEN taken[w] ELSE Append(taken[w], [ch |-> Data.ch, id |-> Data.id])
<1>1. PICK b : b = Data
  OBVIOUS
<1>2. b \in Bytes
  BY <1>1, InIs DEF ReadByte
<1>3. PICK x : x = [ch |-> b.ch, id |-> b.id]
  OBVIOUS
<1>4. x \in Items
  BY <1>2, <1>3 DEF Bytes, Items
<1>5. taken \in [Decoders -> Seq(Items)] /\ taken[w] \in Seq(Items)
  BY KbFacts
<1>6. PICK y : y = IF obf = << >> \/ b.ch = "" THEN taken[w] ELSE Append(taken[w], x)
  OBVIOUS
<1>7. y \in Seq(Items)
  BY <1>4, <1>5, <1>6, AppendIn
<1>8. taken' = [taken EXCEPT ![w] = y]
  BY <1>1, <1>3, <1>6 DEF ReadByte
<1> QED BY <1>1, <1>3, <1>5, <1>6, <1>7, <1>8

LEMMA QueuedInv ==
  ASSUME KbInv, NEW line \in BOOLEAN, KernelQueued(line)
  PROVE  KbInv'
<1>1. PICK d, e, c : d = dec["kernel"] /\ e = TakeQueued(d).d /\ c = TakeQueued(d).c
  OBVIOUS
<1>2. TakeQueued(d) = [d |-> e, c |-> c]
  BY <1>1 DEF TakeQueued
<1>3. PICK f : f = Ended(line, e, c)
  OBVIOUS
<1>4. [TakeQueued(d) EXCEPT !.d = IF line THEN AfterEnter(@, TakeQueued(d).c) ELSE @] = [d |-> f, c |-> c]
  BY <1>1, <1>2, <1>3 DEF Ended
<1>5. /\ "kernel" \in Decoders /\ Deliver("kernel", [d |-> f, c |-> c])
      /\ at["kernel"] = "check" /\ d.queued # None
      /\ UNCHANGED <<obf, latch, at, raced, taken, kb, stage, drain, typed>>
  BY <1>1, <1>4, TwoDecoders DEF KernelQueued
<1>6. /\ dec' = [dec EXCEPT !["kernel"] = f] /\ out' = [out EXCEPT !["kernel"] = Given(out["kernel"], c)]
      /\ UNCHANGED <<wire, split>>
  BY <1>5, DeliverIs
<1>7. \A n \in Nat : HoldsApart(dec["kernel"], n, raced) => Moved(dec["kernel"], f, c, n, raced)
  BY <1>1, <1>3, TakeQueuedMoved, AfterEnterMoved DEF Ended
<1>8. AllApart(out', dec', obf \o wire, typed, raced)
  BY <1>5, <1>6, <1>7, KbFacts, ApartHeld
<1>9. ASSUME stage = "none", ~split
      PROVE  /\ KernelKeeps(f, Given(out["kernel"], c), taken["kernel"])
             /\ \E s : Ahead(s, at["kernel"], obf \o wire, typed) /\ Replays(s, Mod(f), kb)
  <2>1. /\ KernelKeeps(d, out["kernel"], taken["kernel"])
        /\ \E s : Ahead(s, at["kernel"], obf \o wire, typed) /\ Replays(s, Mod(d), kb)
    BY <1>1, <1>9 DEF KbInv, Kept
  <2>2. KernelKeeps(f, Given(out["kernel"], c), taken["kernel"]) /\ Mod(f) = Mod(d)
    BY <1>1, <1>3, <1>5, <2>1, QueuedKept
  <2> QED BY <2>1, <2>2
<1>10. dec'["kernel"] = f /\ out'["kernel"] = Given(out["kernel"], c)
  BY <1>5, <1>6, KbFacts
<1>11. Stream' /\ Latched' /\ Racing'
  BY <1>5, <1>6 DEF KbInv, Stream, Latched, Racing
<1>12. Alone' /\ Kept'
  BY <1>5, <1>6, <1>9, <1>10 DEF KbInv, Alone, Kept
<1> QED BY <1>5, <1>6, <1>8, <1>11, <1>12 DEF KbInv

\* ps2_process on a byte that the kernel has read
LEMMA KernelReadInv ==
  ASSUME KbInv, NEW line \in BOOLEAN, KernelRead(line)
  PROVE  KbInv'
<1>1. PICK d, b : d = dec["kernel"] /\ b = Data
  OBVIOUS
<1>2. PICK e, c : Ps2Process(d, b) = [d |-> e, c |-> c]
  BY Ps2Shape
<1>3. PICK f : f = Ended(line, e, c)
  OBVIOUS
<1>4. [Ps2Process(d, b) EXCEPT !.d = IF line THEN AfterEnter(@, Ps2Process(d, b).c) ELSE @] = [d |-> f, c |-> c]
  BY <1>2, <1>3 DEF Ended
<1>5. /\ "kernel" \in Decoders /\ Deliver("kernel", [d |-> f, c |-> c]) /\ ReadByte("kernel")
      /\ UNCHANGED <<kb, stage, drain, typed>>
  BY <1>1, <1>4, TwoDecoders DEF KernelRead
<1>6. /\ dec' = [dec EXCEPT !["kernel"] = f] /\ out' = [out EXCEPT !["kernel"] = Given(out["kernel"], c)]
      /\ UNCHANGED <<wire, split>>
  BY <1>5, DeliverIs
<1>7. at["kernel"] = "read" /\ In("kernel") /\ at' = [at EXCEPT !["kernel"] = "check"] /\ b.scan # "E0"
  BY <1>1, <1>5 DEF ReadByte
<1>8. PICK s, t : s = obf \o wire /\ t = obf' \o wire'
  OBVIOUS
<1>9. b \in Bytes /\ b.id \in 1 .. typed /\ (obf # << >> => Suffix(s, 1, t) /\ s[1] = b) /\ StreamOK(s, typed)
  BY <1>1, <1>5, <1>6, <1>7, <1>8, InIs, KbFacts
<1>10. /\ taken' \in [Decoders -> Seq(Items)]
       /\ taken'["kernel"] = IF obf = << >> \/ b.ch = "" THEN taken["kernel"]
                             ELSE Append(taken["kernel"], [ch |-> b.ch, id |-> b.id])
  BY <1>1, <1>5, <1>6, TakenIs
<1>11. Moved(d, f, c, b.id, raced')
  <2>1. HoldsApart(d, b.id, raced')
    BY <1>1, <1>5, <1>6, <1>7, ReadApart
  <2>2. Moved(d, e, c, b.id, raced')
    BY <1>2, <1>9, <2>1, Ps2ProcessMoved
  <2> QED BY <1>3, <2>2, AfterEnterMoved DEF Ended
<1>12. AllApart(out', dec', t, typed, raced')
  BY <1>1, <1>5, <1>6, <1>7, <1>8, <1>11, ReadApart
<1>13. dec'["kernel"] = f /\ out'["kernel"] = Given(out["kernel"], c) /\ at'["kernel"] = "check"
  BY <1>5, <1>6, <1>7, KbFacts
<1>14. Stream' /\ Latched' /\ Racing' /\ Alone'
  BY <1>5, <1>6, <1>7, <1>10, <1>13, InInv
<1>15. ASSUME stage = "none", ~split
       PROVE  /\ KernelKeeps(f, Given(out["kernel"], c), taken'["kernel"])
              /\ Replays(t, Mod(f), kb)
  <2>1. KernelKeeps(d, out["kernel"], taken["kernel"]) /\ Replays(s, Mod(d), kb)
    BY <1>1, <1>7, <1>8, <1>15 DEF KbInv, Kept, Ahead
  <2>2. obf # << >> /\ d.queued = None
    BY <1>1, <1>7, <1>15 DEF KbInv, Alone
  <2>3. Replays(t, Modified(Mod(d), b.scan), kb) /\ Means(b, Mod(d))
    <3>1. PICK k : k = 1
      OBVIOUS
    <3>2. Suffix(s, k, t) /\ ((k = 1 /\ s[1].scan # "E0") \/ (k = 2 /\ s[1].scan = "E0"))
      BY <1>7, <1>9, <2>2, <3>1
    <3> QED BY <1>9, <2>1, <2>2, <3>1, <3>2, ReplayEaten
  <2>4. PICK x : x = Char(d, b)
    OBVIOUS
  <2>5. b.ch = CharAt(d, b.scan)
    <3>1. Mod(d).shift = d.shift /\ Mod(d).caps = d.caps
      BY DEF Mod
    <3>2. CharAt(Mod(d), b.scan) = CharAt(d, b.scan)
      BY <3>1 DEF CharAt
    <3> QED BY <2>3, <3>2 DEF Means
  <2>6. x = [ch |-> b.ch, id |-> b.id] /\ x.ch = b.ch
    BY <2>4, <2>5 DEF Char
  <2>7. e = Ps2Process(d, b).d /\ c = Ps2Process(d, b).c /\ b.id # 0
    <3>1. b.id # 0
      BY <1>9, KbFacts
    <3> QED BY <1>2, <3>1
  <2>8. /\ KernelKeeps(f, Given(out["kernel"], c), IF x.ch = "" THEN taken["kernel"] ELSE Append(taken["kernel"], x))
        /\ Mod(f) = Modified(Mod(d), b.scan)
    <3>1. PICK o, k : o = out["kernel"] /\ k = taken["kernel"]
      OBVIOUS
    <3>2. ByteTaken(d, o, k, b, line, x, e, c)
      BY <1>9, <2>1, <2>2, <2>4, <2>7, <3>1 DEF ByteTaken
    <3>3. ByteGiven(d, o, k, b, line, x, e, c)
      BY <3>2, ByteKept
    <3> QED BY <1>3, <3>1, <3>3 DEF ByteGiven
  <2>9. taken'["kernel"] = IF x.ch = "" THEN taken["kernel"] ELSE Append(taken["kernel"], x)
    BY <1>10, <2>2, <2>6
  <2> QED BY <2>3, <2>8, <2>9
<1>16. Kept'
  BY <1>5, <1>6, <1>8, <1>13, <1>15 DEF Kept, Ahead
<1> QED BY <1>5, <1>8, <1>12, <1>14, <1>16 DEF KbInv

\* kbd_drain_to_char on a byte that the driver has read
LEMMA DrainReadInv ==
  ASSUME KbInv, DrainRead
  PROVE  KbInv'
<1>1. PICK d, b : d = dec["driver"] /\ b = Data
  OBVIOUS
<1>2. PICK e, c : DrainByte(d, b) = [d |-> e, c |-> c]
  BY DrainShape
<1>3. /\ "driver" \in Decoders /\ Deliver("driver", [d |-> e, c |-> c]) /\ ReadByte("driver")
      /\ UNCHANGED <<kb, stage, typed>>
  BY <1>1, <1>2, TwoDecoders DEF DrainRead
<1>4. /\ dec' = [dec EXCEPT !["driver"] = e] /\ out' = [out EXCEPT !["driver"] = Given(out["driver"], c)]
      /\ UNCHANGED <<wire, split>>
  BY <1>3, DeliverIs
<1>5. at["driver"] = "read" /\ In("driver") /\ at' = [at EXCEPT !["driver"] = "check"] /\ b.scan # "E0"
  BY <1>1, <1>3 DEF ReadByte
<1>6. b \in Bytes /\ taken' \in [Decoders -> Seq(Items)]
  BY <1>1, <1>3, <1>4, <1>5, InIs, TakenIs
<1>7. Moved(d, e, c, b.id, raced')
  <2>1. HoldsApart(d, b.id, raced')
    BY <1>1, <1>3, <1>4, <1>5, ReadApart
  <2>2. Moved(d, DrainByte(d, b).d, DrainByte(d, b).c, b.id, raced')
    BY <1>6, <2>1, DrainByteMoved
  <2>3. DrainByte(d, b).d = e /\ DrainByte(d, b).c = c
    BY <1>2
  <2> QED BY <2>2, <2>3
<1>8. AllApart(out', dec', obf' \o wire', typed, raced')
  BY <1>1, <1>3, <1>4, <1>5, <1>7, ReadApart
<1>9. stage # "none"
  BY <1>5 DEF KbInv, Alone
<1>10. at'["kernel"] = at["kernel"] /\ dec'["kernel"] = dec["kernel"]
  BY <1>4, <1>5, TwoDecoders, KbFacts
<1>11. Stream' /\ Latched' /\ Racing' /\ Alone'
  <2>1. at'["kernel"] # "check" => dec'["kernel"].queued = None
    BY <1>10 DEF KbInv, Alone
  <2> QED BY <1>3, <1>4, <1>5, <1>6, <1>9, <2>1, InInv
<1>12. Kept'
  BY <1>3, <1>9 DEF Kept
<1> QED BY <1>3, <1>8, <1>11, <1>12 DEF KbInv

LEMMA KernelInv ==
  ASSUME KbInv, Kernel
  PROVE  KbInv'
<1>1. CASE KernelSee
  BY <1>1, SeeInv, TwoDecoders DEF KernelSee
<1>2. CASE \E line \in BOOLEAN : KernelQueued(line) \/ KernelRead(line)
  BY <1>2, QueuedInv, KernelReadInv
<1>3. CASE ReadE0("kernel") /\ UNCHANGED drain
  BY <1>3, ReadE0Inv, TwoDecoders
<1> QED BY <1>1, <1>2, <1>3 DEF Kernel

LEMMA DriverInv ==
  ASSUME KbInv, Driver
  PROVE  KbInv'
<1>1. CASE ResetStart \/ Register \/ Ask \/ DrainEnd
  BY <1>1, StageInv
<1>2. CASE ResetSee
  BY <1>2, SeeInv, TwoDecoders DEF ResetSee
<1>3. CASE DrainSee
  <2>1. drain # -1 /\ See("driver", "check", "read") /\ UNCHANGED drain
    BY <1>3 DEF DrainSee
  <2>2. stage # "none"
    BY <2>1 DEF KbInv, Alone
  <2> QED BY <2>1, <2>2, SeeInv, TwoDecoders
<1>4. CASE DrainRead
  BY <1>4, DrainReadInv
<1>5. CASE ReadE0("driver") /\ drain' = drain + 1
  <2>1. stage # "none"
    BY <1>5 DEF ReadE0, KbInv, Alone
  <2> QED BY <1>5, <2>1, ReadE0Inv, TwoDecoders
<1> QED BY <1>1, <1>2, <1>3, <1>4, <1>5 DEF Driver

LEMMA KbStep ==
  ASSUME KbInv, [KbNext]_KbVars
  PROVE  KbInv'
<1>1. CASE \E k \in Scans \cup {"shift", "shift up", "caps"} : Type(k)
  BY <1>1, TypeKeeps
<1>2. CASE \E k \in Extended : TypeExtended(k)
  BY <1>2, TypeExtendedKeeps
<1>3. CASE Arrive
  BY <1>3, ArriveInv
<1>4. CASE Kernel \/ Driver
  BY <1>4, KernelInv, DriverInv
<1>5. ASSUME NEW w \in Decoders, SkipSee(w) \/ DropByte(w) \/ SkipGiveUp(w) PROVE KbInv'
  <2>1. CASE SkipSee(w)
    BY <2>1, SeeInv DEF SkipSee
  <2> QED BY <1>5, <2>1, DropInv, SkipGiveUpInv
<1>6. CASE UNCHANGED KbVars
  BY <1>6, StageInv
<1> QED BY <1>1, <1>2, <1>3, <1>4, <1>5, <1>6 DEF KbNext

LEMMA KbStart ==
  ASSUME KbInit
  PROVE  KbInv
<1>1. /\ obf = << >> /\ wire = << >> /\ obf \o wire = << >> /\ kb = [shift |-> FALSE, caps |-> FALSE]
      /\ typed = 0 /\ split = FALSE /\ drain = -1 /\ latch = NoByte /\ raced = {} /\ stage = "none"
      /\ at = [w \in Decoders |-> "check"]
      /\ dec = [w \in Decoders |-> Fresh] /\ out = [w \in Decoders |-> << >>] /\ taken = [w \in Decoders |-> << >>]
  BY DEF KbInit
<1>2. kb \in Mods /\ Fresh \in DecSet /\ Fresh.queued = None /\ Fresh.dead = None /\ Mod(Fresh) = kb
  BY <1>1, NoneIs DEF Mods, Fresh, DecSet, Mod
<1>3. << >> \in Seq(Bytes) /\ << >> \in Seq(Items) /\ Len(<< >>) = 0
  OBVIOUS
<1>4. StreamOK(<< >>, 0)
  BY <1>3 DEF StreamOK
<1>5. Solo(<< >>, Fresh, {}) /\ Ids(<< >>, Fresh) = {0}
  <2>1. PICK s \in Seq(Items) : s = << >> /\ Len(s) = 0
    BY <1>3
  <2>2. 1 .. Len(s) = {}
    BY <2>1
  <2>3. Solo(s, Fresh, {})
    BY <1>2, <2>1, <2>2, NoneIs DEF Solo, Differ
  <2>4. Ids(s, Fresh) = {0}
    BY <1>2, <2>2, NoneIs DEF Ids
  <2> QED BY <2>1, <2>3, <2>4
<1>6. AllApart(out, dec, << >>, 0, {})
  BY <1>1, <1>2, <1>3, <1>5 DEF AllApart, Unseen
<1>7. KernelKeeps(Fresh, << >>, << >>)
  BY <1>2, <1>3, NoneIs, SeenIs DEF KernelKeeps
<1>8. Replays(<< >>, kb, kb)
  <2>1. PICK M : M = [i \in 0 .. 0 |-> kb]
    OBVIOUS
  <2>2. ReplayBy(<< >>, kb, kb, M)
    BY <1>2, <1>3, <2>1 DEF ReplayBy
  <2> QED BY <2>2 DEF Replays
<1>9. "kernel" \in Decoders
  BY DEF Decoders
<1>10. dec["kernel"] = Fresh /\ out["kernel"] = << >> /\ taken["kernel"] = << >> /\ taken \in [Decoders -> Seq(Items)]
  BY <1>1, <1>3, <1>9
<1>11. at \in [Decoders -> {"check", "read", "skip", "drop"}] /\ \A w \in Decoders : at[w] = "check"
  BY <1>1
<1>12. Stream /\ Latched /\ Racing
  BY <1>1, <1>2, <1>3, <1>4, <1>10, <1>11 DEF Stream, Latched, Racing
<1>13. Alone
  BY <1>1, <1>11, TwoDecoders DEF Alone
<1>14. Kept
  <2>1. Ahead(<< >>, at["kernel"], << >>, 0)
    BY <1>9, <1>11 DEF Ahead
  <2> QED BY <1>1, <1>2, <1>7, <1>8, <1>10, <2>1 DEF Kept
<1> QED BY <1>1, <1>6, <1>12, <1>13, <1>14 DEF KbInv

\* Both decoders, the controller and the wire, through every interleaving of typing, reading and the driver's start
LEMMA KbInvariant == KbSpec => []KbInv
<1>1. KbInv /\ [KbNext]_KbVars => KbInv'
  BY KbStep
<1> QED BY <1>1, KbStart, PTL DEF KbSpec
-----------------------------------------------------------------------------
(* The theorems *)

\* ps2_process, keyboard_getc, keyboard_getc_nonblock and keyboard_get_line: until the driver starts, for any
\* maps, dead keys and number of strokes, and however far the decoder is behind the keyboard, what the kernel
\* has delivered and holds is what the user meant, each character once and in order, but for spaces that dead
\* keys use up, unless a byte after 0xE0 came too late to be skipped
THEOREM KeysStayKept == KbSpec => []KeysKept
<1>1. KbInv => KeysKept
  BY DEF KbInv, Kept, KeysKept, KernelKeeps, Seen
<1> QED BY <1>1, KbInvariant, PTL

\* Once each, but for the keys of R
Once(s, R) == \A i, j \in DOMAIN s : s[i].id = s[j].id => i = j \/ s[i].id \in R
Foreign(s, t, R) == \A i \in DOMAIN s, j \in DOMAIN t : s[i].id # t[j].id \/ s[i].id \in R

LEMMA OnceConcat ==
  ASSUME NEW s \in Seq(Items), NEW t \in Seq(Items), NEW R, Once(s, R), Once(t, R), Foreign(s, t, R)
  PROVE  Once(s \o t, R)
<1>1. PICK u : u = s \o t
  OBVIOUS
<1>2. /\ u \in Seq(Items) /\ DOMAIN u = 1 .. Len(s) + Len(t) /\ Len(s) \in Nat /\ Len(t) \in Nat
      /\ DOMAIN s = 1 .. Len(s) /\ DOMAIN t = 1 .. Len(t)
      /\ \A i \in DOMAIN u : u[i] = IF i <= Len(s) THEN s[i] ELSE t[i - Len(s)]
  BY <1>1
<1>3. ASSUME NEW i \in DOMAIN u, NEW j \in DOMAIN u, u[i].id = u[j].id PROVE i = j \/ u[i].id \in R
  <2>1. /\ (i <= Len(s) => i \in DOMAIN s) /\ (~(i <= Len(s)) => i - Len(s) \in DOMAIN t)
        /\ (j <= Len(s) => j \in DOMAIN s) /\ (~(j <= Len(s)) => j - Len(s) \in DOMAIN t)
    BY <1>2
  <2>2. CASE i <= Len(s) /\ j <= Len(s)
    BY <1>2, <1>3, <2>1, <2>2 DEF Once
  <2>3. CASE ~(i <= Len(s)) /\ ~(j <= Len(s))
    <3>1. i - Len(s) = j - Len(s) \/ u[i].id \in R
      BY <1>2, <1>3, <2>1, <2>3 DEF Once
    <3> QED BY <1>2, <3>1
  <2>4. CASE i <= Len(s) /\ ~(j <= Len(s))
    BY <1>2, <1>3, <2>1, <2>4 DEF Foreign
  <2>5. CASE ~(i <= Len(s)) /\ j <= Len(s)
    BY <1>2, <1>3, <2>1, <2>5 DEF Foreign
  <2> QED BY <2>2, <2>3, <2>4, <2>5
<1> QED BY <1>1, <1>3 DEF Once

LEMMA ForeignConcat ==
  ASSUME NEW s \in Seq(Items), NEW t \in Seq(Items), NEW u \in Seq(Items), NEW R
  PROVE  /\ Foreign(s, u, R) /\ Foreign(t, u, R) => Foreign(s \o t, u, R)
         /\ Foreign(u, s, R) /\ Foreign(u, t, R) => Foreign(u, s \o t, R)
<1>1. PICK v : v = s \o t
  OBVIOUS
<1>2. /\ DOMAIN v = 1 .. Len(s) + Len(t) /\ Len(s) \in Nat /\ Len(t) \in Nat
      /\ DOMAIN s = 1 .. Len(s) /\ DOMAIN t = 1 .. Len(t)
      /\ \A i \in DOMAIN v : v[i] = IF i <= Len(s) THEN s[i] ELSE t[i - Len(s)]
  BY <1>1
<1>3. \A i \in DOMAIN v : (\E j \in DOMAIN s : v[i] = s[j]) \/ (\E j \in DOMAIN t : v[i] = t[j])
  <2> TAKE i \in DOMAIN v
  <2>1. (i <= Len(s) => i \in DOMAIN s) /\ (~(i <= Len(s)) => i - Len(s) \in DOMAIN t)
    BY <1>2
  <2> QED BY <1>2, <2>1
<1> QED BY <1>1, <1>3 DEF Foreign

\* What a decoder holds: at most two keys, none of them None
LEMMA HoldingIs ==
  ASSUME NEW d \in DecSet, NEW R, d.queued.id # 0 => Differ(d.queued.id, d.dead.id, R),
         d.queued.id = 0 => d.queued = None, d.dead.id = 0 => d.dead = None
  PROVE  /\ Holding(d) \in Seq(Items) /\ Once(Holding(d), R)
         /\ \A i \in DOMAIN Holding(d) : Holding(d)[i].id \in {d.queued.id, d.dead.id} /\ Holding(d)[i].id # 0
<1>1. PICK q \in Items, z \in Items : q = d.queued /\ z = d.dead
  BY DEF DecSet
<1>2. Holding(d) = One(q) \o One(z)
  BY <1>1 DEF Holding
<1>3. (q # None => q.id # 0) /\ (z # None => z.id # 0) /\ (q # None /\ z # None => Differ(q.id, z.id, R))
  BY <1>1
<1>4. CASE q = None /\ z = None
  <2>1. One(q) \o One(z) = << >>
    BY <1>4 DEF One
  <2>2. << >> \in Seq(Items) /\ DOMAIN << >> = {}
    OBVIOUS
  <2> QED BY <1>2, <2>1, <2>2 DEF Once
<1>5. CASE q # None /\ z = None
  <2>1. PICK h : h = One(q) \o One(z)
    OBVIOUS
  <2>2. h = <<q>>
    BY <1>5, <2>1 DEF One
  <2>3. h \in Seq(Items) /\ DOMAIN h = {1} /\ h[1] = q
    BY <2>2
  <2> QED BY <1>1, <1>2, <1>3, <1>5, <2>1, <2>3 DEF Once
<1>6. CASE q = None /\ z # None
  <2>1. PICK h : h = One(q) \o One(z)
    OBVIOUS
  <2>2. h = <<z>>
    BY <1>6, <2>1 DEF One
  <2>3. h \in Seq(Items) /\ DOMAIN h = {1} /\ h[1] = z
    BY <2>2
  <2> QED BY <1>1, <1>2, <1>3, <1>6, <2>1, <2>3 DEF Once
<1>7. CASE q # None /\ z # None
  <2>1. PICK h : h = One(q) \o One(z)
    OBVIOUS
  <2>2. h = <<q>> \o <<z>>
    BY <1>7, <2>1 DEF One
  <2>3. PICK f \in Seq(Items), g \in Seq(Items) : f = <<q>> /\ g = <<z>> /\ Len(f) = 1 /\ Len(g) = 1
    <3>1. <<q>> \in Seq(Items) /\ Len(<<q>>) = 1
      OBVIOUS
    <3>2. <<z>> \in Seq(Items) /\ Len(<<z>>) = 1
      OBVIOUS
    <3> QED BY <3>1, <3>2
  <2>4. h \in Seq(Items) /\ Len(h) = 2 /\ h[1] = f[1] /\ h[2] = g[1]
    BY <2>2, <2>3
  <2>5. h \in Seq(Items) /\ DOMAIN h = {1, 2} /\ h[1] = q /\ h[2] = z
    BY <2>3, <2>4
  <2>6. Differ(q.id, z.id, R) /\ q.id # 0 /\ z.id # 0
    BY <1>3, <1>7
  <2>7. Once(h, R)
    BY <2>5, <2>6 DEF Once, Differ
  <2>8. \A i \in DOMAIN h : h[i].id \in {q.id, z.id} /\ h[i].id # 0
    BY <2>5, <2>6
  <2> QED BY <1>1, <1>2, <2>1, <2>5, <2>7, <2>8
<1> QED BY <1>4, <1>5, <1>6, <1>7

\* The keys of one decoder: once each, all of them in Ids, none of them 0
Keys(o, d) == o \o Holding(d)
LEMMA KeysOnce ==
  ASSUME NEW o, NEW d, NEW R, Solo(o, d, R)
  PROVE  /\ Keys(o, d) \in Seq(Items) /\ Once(Keys(o, d), R)
         /\ \A i \in DOMAIN Keys(o, d) : Keys(o, d)[i].id \in Ids(o, d) /\ Keys(o, d)[i].id # 0
<1>1. o \in Seq(Items) /\ d \in DecSet /\ Len(o) \in Nat /\ DOMAIN o = 1 .. Len(o)
  BY DEF Solo
<1>2. PICK h : h = Holding(d)
  OBVIOUS
<1>3. /\ h \in Seq(Items) /\ Once(h, R)
      /\ \A i \in DOMAIN h : h[i].id \in {d.queued.id, d.dead.id} /\ h[i].id # 0
  BY <1>1, <1>2, HoldingIs DEF Solo
<1>4. Once(o, R)
  BY <1>1 DEF Solo, Once, Differ
<1>5. Foreign(o, h, R)
  BY <1>1, <1>3 DEF Foreign, Solo, Differ
<1>6. PICK u : u = o \o h
  OBVIOUS
<1>7. u \in Seq(Items) /\ Once(u, R)
  BY <1>1, <1>3, <1>4, <1>5, <1>6, OnceConcat
<1>8. /\ DOMAIN u = 1 .. Len(o) + Len(h) /\ Len(h) \in Nat /\ DOMAIN h = 1 .. Len(h)
      /\ \A i \in DOMAIN u : u[i] = IF i <= Len(o) THEN o[i] ELSE h[i - Len(o)]
  BY <1>1, <1>3, <1>6
<1>9. ASSUME NEW i \in DOMAIN u PROVE u[i].id \in Ids(o, d) /\ u[i].id # 0
  <2>1. CASE i <= Len(o)
    <3>1. i \in 1 .. Len(o) /\ u[i] = o[i]
      BY <1>8, <2>1
    <3> QED BY <3>1 DEF Solo, Ids
  <2>2. CASE ~(i <= Len(o))
    <3>1. i - Len(o) \in DOMAIN h /\ u[i] = h[i - Len(o)]
      BY <1>1, <1>8, <2>2
    <3> QED BY <1>3, <3>1 DEF Ids
  <2> QED BY <2>1, <2>2
<1> QED BY <1>2, <1>6, <1>7, <1>9 DEF Keys

LEMMA ConcatThrice ==
  ASSUME NEW a \in Seq(Items), NEW b \in Seq(Items), NEW c \in Seq(Items), NEW d \in Seq(Items)
  PROVE  ((a \o b) \o c) \o d = (a \o b) \o (c \o d)
OBVIOUS

\* keyboard_getc, kbd_drain_to_char and kbd_reset_8042: for any maps, batch and number of strokes, whichever of
\* the two decoders takes each byte and in whatever order they check port 0x64 and read port 0x60, a key that is
\* delivered twice, or delivered while it is still held, is one whose byte a decoder took while the other, which
\* had seen it, was about to read it
THEOREM NoKeyEverTwice == KbSpec => []NoKeyTwice
<1>1. ASSUME KbInv PROVE NoKeyTwice
  <2>1. "kernel" \in Decoders /\ "driver" \in Decoders /\ "kernel" # "driver"
    BY DEF Decoders
  <2>2. PICK o, d, p, e, R : R = raced /\ o = out["kernel"] /\ d = dec["kernel"] /\ p = out["driver"] /\ e = dec["driver"]
    OBVIOUS
  <2>3. Solo(o, d, R) /\ Solo(p, e, R) /\ Ids(o, d) \cap Ids(p, e) \subseteq {0} \cup R
    BY <1>1, <2>1, <2>2, KbFacts DEF AllApart
  <2>4. PICK s, t : s = Keys(o, d) /\ t = Keys(p, e)
    OBVIOUS
  <2>5. /\ s \in Seq(Items) /\ Once(s, R) /\ t \in Seq(Items) /\ Once(t, R)
        /\ \A i \in DOMAIN s : s[i].id \in Ids(o, d) /\ s[i].id # 0
        /\ \A i \in DOMAIN t : t[i].id \in Ids(p, e) /\ t[i].id # 0
    BY <2>3, <2>4, KeysOnce
  <2>6. Foreign(s, t, R)
    BY <2>3, <2>5 DEF Foreign
  <2>7. Once(s \o t, R)
    BY <2>5, <2>6, OnceConcat
  <2>8. o \in Seq(Items) /\ p \in Seq(Items) /\ Holding(d) \in Seq(Items) /\ Holding(e) \in Seq(Items)
    BY <2>3, HoldingIs DEF Solo
  <2>9. o \o Holding(d) \o p \o Holding(e) = s \o t
    <3>1. PICK h \in Seq(Items), g \in Seq(Items) : h = Holding(d) /\ g = Holding(e)
      BY <2>8
    <3>2. ((o \o h) \o p) \o g = (o \o h) \o (p \o g)
      BY <2>8, <3>1, ConcatThrice
    <3>3. s = o \o h /\ t = p \o g
      BY <2>4, <3>1 DEF Keys
    <3> QED BY <3>1, <3>2, <3>3
  <2> QED BY <2>2, <2>7, <2>9 DEF NoKeyTwice, Once
<1> QED BY <1>1, KbInvariant, PTL
=============================================================================
