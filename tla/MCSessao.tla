------------------------------ MODULE MCSessao -----------------------------
(***************************************************************************)
(* A small instance of Sessao.  Long names are interchangeable, and so are *)
(* long passwords: no definition names one of them.                        *)
(***************************************************************************)
EXTENDS Sessao, TLC

Swaps == Permutations(LongNames) \cup Permutations(LongPws)
=============================================================================
