------------------------------ MODULE Keyboard -----------------------------
(***************************************************************************)
(* From scancodes to characters: the decoder of the kernel (keyboard.c),   *)
(* used by SYS_READ without the service 'kbd' and by the ring-0 login and  *)
(* shell, and the decoder of the driver process (odigos_pliktrologiou.c).  *)
(* Both read the same controller, each with its own shift, caps lock, dead *)
(* key and queued character, and each in two steps, the check of port 0x64 *)
(* and the read of port 0x60: the driver's are two system calls, and the   *)
(* ring-0 session runs with interrupts on once it has hashed a password.   *)
(* SYS_READ and the ring-0 session are one reader, the kernel.  There is   *)
(* no USB keyboard, one shift key, and ctrl and the releases of other      *)
(* keys, which change no character, are left out.                          *)
(*                                                                         *)
(* Every key typed has a number, which the bytes it sends and the          *)
(* characters decoded from them carry; the code does not see it.  How an   *)
(* answer of the driver reaches the reader is in Rpc.                      *)
(***************************************************************************)
EXTENDS Integers, Sequences, SequencesExt

CONSTANTS
  Sc1, Sc1Shift,  \* sc1 and sc1_shift: the character of each scancode, "" for none
  Caps,           \* what caps lock makes of a letter, as a function on letters
  Dead,           \* the characters is_dead accepts
  Extended,       \* second bytes of the keys that send 0xE0 first
  Batch,          \* bytes the driver reads for one request
  MaxTyped        \* bound: keys typed

\* 0xE0 and the keys for shift and caps lock have no entry in the maps, and Enter is no dead key
ASSUME KeysAssumption ==
  /\ DOMAIN Sc1 \cap {"E0", "shift", "shift up", "caps"} = {} /\ "E0" \notin Extended
  /\ "ret" \notin Dead

VARIABLES
  wire,   \* bytes the keyboard has sent that have not arrived: [scan, id, ch]
  obf,    \* bytes in the controller
  latch,  \* the byte last read from port 0x60, which the port gives again while there is no other
  kb,     \* the keyboard under the user's hands: [shift, caps]
  dec,    \* the two decoders: [shift, caps, dead, queued]
  at,     \* where each decoder is: "check" for a byte, "read" it, "skip" the byte after 0xE0, "drop" it
  stage,  \* of the driver: "none", "reset" (kbd_reset_8042) or "served"
  drain,  \* bytes read so far for the request the driver works on, -1 for none
  out,    \* history: characters each decoder has delivered
  taken,  \* history: characters meant by the bytes each decoder has taken
  split,  \* history: 0xE0 was taken without the byte that belongs to it
  raced,  \* history: keys whose byte a decoder took while the other, which had seen it, was to read it
  typed   \* keys typed

KbVars == <<wire, obf, latch, kb, dec, at, stage, drain, out, taken, split, raced, typed>>
port == <<obf, latch, at, split, raced>>
decoded == <<dec, out, taken>>

None == [ch |-> "", id |-> 0]
NoByte == [scan |-> "", id |-> 0, ch |-> ""]
Decoders == {"kernel", "driver"}
Scans == DOMAIN Sc1

\* The maps, and caps lock on letters
CharOf(scan, shift, caps) ==
  LET c == IF shift THEN Sc1Shift[scan] ELSE Sc1[scan]
  IN  IF caps /\ c \in DOMAIN Caps THEN Caps[c] ELSE c

\* The character of a key while shift and caps lock are as m says, "" for none
CharAt(m, scan) == IF scan \in Scans THEN CharOf(scan, m.shift, m.caps) ELSE ""

\* What a byte does to shift and caps lock
Modified(m, scan) ==
  [m EXCEPT !.shift = scan = "shift" \/ (@ /\ scan # "shift up"),
            !.caps  = IF scan = "caps" THEN ~@ ELSE @]
-----------------------------------------------------------------------------
(* The decoders: each operator gives the new state and the character, None for none *)

\* Faulty variant: a letter after a dead key takes its place
DeadKeysOver(d, c) ==
  IF c.ch \in Dead /\ d.dead = None THEN [d |-> [d EXCEPT !.dead = c], c |-> None]
  ELSE IF d.dead # None THEN [d |-> [d EXCEPT !.dead = None], c |-> c]
  ELSE [d |-> d, c |-> c]

\* A dead key waits for the next key; the two come out one after the other, but for a space
DeadKeys(d, c) ==
  IF c.ch \in Dead /\ d.dead = None THEN [d |-> [d EXCEPT !.dead = c], c |-> None]
  ELSE IF d.dead # None
       THEN [d |-> [d EXCEPT !.dead = None, !.queued = IF c.ch = " " THEN @ ELSE c], c |-> d.dead]
  ELSE [d |-> d, c |-> c]

\* ps2_process, for every byte but 0xE0
Ps2Process(d, b) ==
  LET c == [ch |-> CharAt(d, b.scan), id |-> b.id]
  IN  IF c.ch = "" THEN [d |-> Modified(d, b.scan), c |-> None] ELSE DeadKeys(d, c)

\* kbd_drain_to_char, one byte of it: a character that finds another in queued is dropped
DrainByte(d, b) ==
  LET c == [ch |-> CharAt(d, b.scan), id |-> b.id]
  IN  IF c.ch = "" THEN [d |-> Modified(d, b.scan), c |-> None]
      ELSE IF c.ch \in Dead \/ d.dead # None \/ d.queued = None THEN DeadKeys(d, c)
      ELSE [d |-> [d EXCEPT !.queued = None], c |-> d.queued]
-----------------------------------------------------------------------------
Fresh == [shift |-> FALSE, caps |-> FALSE, dead |-> None, queued |-> None]

\* keyboard_init empties the controller
KbInit ==
  /\ wire = << >> /\ obf = << >> /\ latch = NoByte /\ kb = [shift |-> FALSE, caps |-> FALSE]
  /\ dec = [w \in Decoders |-> Fresh] /\ stage = "none" /\ drain = -1
  /\ at = [w \in Decoders |-> "check"]
  /\ out = [w \in Decoders |-> << >>] /\ taken = [w \in Decoders |-> << >>]
  /\ split = FALSE /\ raced = {} /\ typed = 0

\* A key goes down, or shift is let go: the character is what the user means by it
Type(scan) ==
  /\ typed < MaxTyped /\ typed' = typed + 1
  /\ scan = "shift" => ~kb.shift
  /\ scan = "shift up" => kb.shift
  /\ kb' = Modified(kb, scan)
  /\ wire' = Append(wire, [scan |-> scan, id |-> typed + 1, ch |-> CharAt(kb, scan)])
  /\ UNCHANGED <<port, decoded, stage, drain>>

\* A key that sends two bytes and means no character
TypeExtended(scan) ==
  /\ typed < MaxTyped /\ typed' = typed + 1
  /\ wire' = wire \o <<[scan |-> "E0", id |-> typed + 1, ch |-> ""], [scan |-> scan, id |-> typed + 1, ch |-> ""]>>
  /\ UNCHANGED <<port, kb, decoded, stage, drain>>

Arrive ==
  /\ wire # << >>
  /\ wire' = Tail(wire) /\ obf' = Append(obf, Head(wire))
  /\ UNCHANGED <<latch, at, split, raced, kb, decoded, stage, drain, typed>>

\* Port 0x64 says that a byte is there
See(w, from, to) ==
  /\ at[w] = from /\ obf # << >> /\ at' = [at EXCEPT ![w] = to]
  /\ UNCHANGED <<wire, obf, latch, kb, decoded, stage, split, raced, typed>>

\* Port 0x60 gives the oldest byte, or the last one again if the other decoder was faster
Data == IF obf = << >> THEN latch ELSE Head(obf)

In(w) ==
  /\ obf' = IF obf = << >> THEN obf ELSE Tail(obf)
  /\ latch' = Data
  /\ raced' = IF Len(obf) = 1 /\ \E v \in Decoders \ {w} : at[v] \in {"read", "drop"}
              THEN raced \cup {Data.id} ELSE raced

\* 0xE0 is read: the decoder waits a while for the byte that belongs to it, to throw it away
ReadE0(w) ==
  /\ at[w] = "read" /\ Data.scan = "E0"
  /\ In(w) /\ at' = [at EXCEPT ![w] = "skip"]
  /\ UNCHANGED <<wire, kb, decoded, stage, split, typed>>

SkipSee(w) == See(w, "skip", "drop") /\ UNCHANGED drain

DropByte(w) ==
  /\ at[w] = "drop"
  /\ In(w) /\ at' = [at EXCEPT ![w] = "check"]
  /\ UNCHANGED <<wire, kb, decoded, stage, drain, split, typed>>

SkipGiveUp(w) ==
  /\ at[w] = "skip" /\ obf = << >>
  /\ at' = [at EXCEPT ![w] = "check"] /\ split' = TRUE
  /\ UNCHANGED <<wire, obf, latch, raced, kb, decoded, stage, drain, typed>>

\* keyboard_get_line clears dead and queued once it has Enter
AfterEnter(d, c) == IF c.ch = "ret" THEN [d EXCEPT !.dead = None, !.queued = None] ELSE d

\* Faulty variant: leaves what it delivered in queued
TakeQueuedAgain(d) == [d |-> d, c |-> d.queued]

\* keyboard_getc and keyboard_getc_nonblock deliver what is queued before they read a byte
TakeQueued(d) == [d |-> [d EXCEPT !.queued = None], c |-> d.queued]

\* A decoder changes as r says and delivers r's character, if any
Deliver(w, r) ==
  /\ dec' = [dec EXCEPT ![w] = r.d]
  /\ out' = [out EXCEPT ![w] = IF r.c = None THEN @ ELSE Append(@, r.c)]
  /\ UNCHANGED <<wire, split>>

\* It has read the next byte for that; a byte read again is no byte more
ReadByte(w) ==
  /\ at[w] = "read" /\ Data.scan # "E0"
  /\ In(w) /\ at' = [at EXCEPT ![w] = "check"]
  /\ taken' = [taken EXCEPT ![w] = IF obf = << >> \/ Data.ch = "" THEN @
                                   ELSE Append(@, [ch |-> Data.ch, id |-> Data.id])]

\* keyboard_getc, or a call of keyboard_getc_nonblock that finds something, one step at a time; line
\* says that keyboard_get_line is the caller
KernelQueued(line) ==
  LET r == TakeQueued(dec["kernel"])
  IN  /\ at["kernel"] = "check" /\ dec["kernel"].queued # None
      /\ Deliver("kernel", [r EXCEPT !.d = IF line THEN AfterEnter(@, r.c) ELSE @])
      /\ UNCHANGED <<obf, latch, at, raced, taken, kb, stage, drain, typed>>

KernelSee == dec["kernel"].queued = None /\ See("kernel", "check", "read") /\ UNCHANGED drain

KernelRead(line) ==
  LET r == Ps2Process(dec["kernel"], Data)
  IN  /\ ReadByte("kernel")
      /\ Deliver("kernel", [r EXCEPT !.d = IF line THEN AfterEnter(@, r.c) ELSE @])
      /\ UNCHANGED <<kb, stage, drain, typed>>

Kernel ==
  \/ KernelSee \/ \E line \in BOOLEAN : KernelQueued(line) \/ KernelRead(line)
  \/ ReadE0("kernel") /\ UNCHANGED drain

\* kbd_reset_8042 throws bytes away, before the driver registers
ResetStart ==
  /\ stage = "none" /\ stage' = "reset"
  /\ UNCHANGED <<wire, port, kb, decoded, drain, typed>>
ResetSee == stage = "reset" /\ See("driver", "check", "drop") /\ UNCHANGED drain
\* The last loop of kbd_reset_8042 reads until nothing is there
Register ==
  /\ stage = "reset" /\ at["driver"] = "check" /\ obf = << >> /\ stage' = "served"
  /\ UNCHANGED <<wire, port, kb, decoded, drain, typed>>

\* A request KBD_GET comes
Ask ==
  /\ stage = "served" /\ drain = -1 /\ drain' = 0
  /\ UNCHANGED <<wire, port, kb, decoded, stage, typed>>

\* kbd_drain_to_char reads up to Batch bytes until one gives a character, and kbd_handler answers
DrainSee == drain \in 0 .. Batch - 1 /\ See("driver", "check", "read") /\ UNCHANGED drain

DrainRead ==
  LET r == DrainByte(dec["driver"], Data)
  IN  /\ ReadByte("driver") /\ Deliver("driver", r)
      /\ drain' = IF r.c = None THEN drain + 1 ELSE -1
      /\ UNCHANGED <<kb, stage, typed>>

DrainEnd ==
  /\ drain >= 0 /\ at["driver"] = "check" /\ (obf = << >> \/ drain = Batch)
  /\ drain' = -1
  /\ UNCHANGED <<wire, port, kb, decoded, stage, typed>>

Driver ==
  \/ ResetStart \/ ResetSee \/ Register
  \/ Ask \/ DrainSee \/ DrainRead \/ DrainEnd
  \/ ReadE0("driver") /\ drain' = drain + 1

KbNext ==
  \/ \E scan \in Scans \cup {"shift", "shift up", "caps"} : Type(scan)
  \/ \E scan \in Extended : TypeExtended(scan)
  \/ Arrive
  \/ Kernel \/ Driver
  \/ \E w \in Decoders : SkipSee(w) \/ DropByte(w) \/ SkipGiveUp(w)

KbSpec == KbInit /\ [][KbNext]_KbVars
-----------------------------------------------------------------------------
(* Properties *)

One(c) == IF c = None THEN << >> ELSE <<c>>
Holding(d) == One(d.queued) \o One(d.dead)
NoSpaces(s) ==
  LET upTo[n \in 0 .. Len(s)] ==
        IF n = 0 THEN << >> ELSE IF s[n].ch = " " THEN upTo[n - 1] ELSE Append(upTo[n - 1], s[n])
  IN  upTo[Len(s)]

\* keyboard.c: until the driver starts, what the kernel has delivered and what it still holds are, but
\* for the spaces that dead keys use up, the characters the user meant, each once and in order, however
\* far the decoder is behind the keyboard; unless a byte after 0xE0 came too late to be skipped
KeysKept ==
  stage = "none" /\ ~split =>
    NoSpaces(out["kernel"] \o Holding(dec["kernel"])) = NoSpaces(taken["kernel"])

\* A key delivered twice, by one decoder or by both, or delivered and still held, is one whose byte
\* a decoder took between the other's check of port 0x64 and its read of port 0x60: without that
\* race the two share the controller and no key comes twice
NoKeyTwice ==
  LET all == out["kernel"] \o Holding(dec["kernel"]) \o out["driver"] \o Holding(dec["driver"])
  IN  \A i, j \in DOMAIN all : all[i].id = all[j].id => i = j \/ all[i].id \in raced
=============================================================================
