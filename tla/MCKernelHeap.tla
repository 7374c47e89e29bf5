---------------------------- MODULE MCKernelHeap ----------------------------
(***************************************************************************)
(* The kernel's heap when pages behind it were taken by others meanwhile.  *)
(***************************************************************************)
EXTENDS KernelHeap

GapMoreAt == <<20>>
=============================================================================
