------------------------------ MODULE MCLocal ------------------------------
(***************************************************************************)
(* The parts that work on a state of their own, on small instances: pages  *)
(* and address spaces, the kernel's heap, a program's heap, and the two    *)
(* decoders of the keyboard.  They share no variable and run one at a      *)
(* time: which says whose behaviour it is.                                 *)
(*                                                                         *)
(* The machine has two byte pages, a map with a firmware page, one         *)
(* available region that starts and ends off a page boundary, two process  *)
(* slots, and page tables of three levels with three entries.              *)
(***************************************************************************)
EXTENDS Oikos, KernelHeap, UserHeap, Keyboard, TLC

VARIABLE which

Region(b, n) == [base |-> b, pages |-> n]
MCMemMap == <<[base |-> 0, size |-> 3, avail |-> FALSE], [base |-> 3, size |-> 29, avail |-> TRUE]>>
MCHeld == {[base |-> 5, size |-> 2]}

\* A program of text alone, text and data, three segments, one outside user space, one in the
\* kernel's half, and a file that is no program
MCImages == {[valid |-> TRUE, segs |-> <<Region(9, 1)>>],
             [valid |-> TRUE, segs |-> <<Region(9, 1), Region(10, 2), Region(14, 1)>>],
             [valid |-> TRUE, segs |-> <<Region(9, 1), Region(4, 1)>>],
             [valid |-> TRUE, segs |-> <<Region(21, 1)>>],
             [valid |-> FALSE, segs |-> << >>]}

\* The first pages the PMM gives the heap lie right behind it, the next ones below it
MCMoreAt == <<22, 0>>

\* A letter, a key that is dead with shift, one that is dead with and without, space and Enter
MCSc1 == "a" :> "a" @@ "6" :> "6" @@ "quote" :> "'" @@ "space" :> " " @@ "enter" :> "ret"
MCSc1Shift == "a" :> "A" @@ "6" :> "^" @@ "quote" :> "\"" @@ "space" :> " " @@ "enter" :> "ret"
MCCaps == "a" :> "A" @@ "A" :> "a"
MCDead == {"'", "\"", "^"}

LocalInit == Init /\ KInit /\ UInit /\ KbInit /\ which \in {"pages", "kernel", "user", "keys"}
LocalNext ==
  /\ UNCHANGED which
  /\ \/ which = "pages" /\ Next /\ UNCHANGED <<KVars, UVars, KbVars>>
     \/ which = "kernel" /\ KNext /\ UNCHANGED <<vars, UVars, KbVars>>
     \/ which = "user" /\ UNext /\ UNCHANGED <<vars, KVars, KbVars>>
     \/ which = "keys" /\ KbNext /\ UNCHANGED <<vars, KVars, UVars>>
LocalSpec == LocalInit /\ [][LocalNext]_<<vars, KVars, UVars, KbVars, which>>
=============================================================================
