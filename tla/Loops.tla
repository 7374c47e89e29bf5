------------------------------- MODULE Loops -------------------------------
(***************************************************************************)
(* A loop of the code as a function of its rounds: Step(x, i) is what      *)
(* round i makes of x.                                                     *)
(***************************************************************************)
EXTENDS Naturals

Iterate(Step(_, _), x, n) ==
  LET run[i \in 0 .. n] == IF i = 0 THEN x ELSE Step(run[i - 1], i)
  IN  run[n]
=============================================================================
