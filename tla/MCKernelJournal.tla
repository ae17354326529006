--------------------------- MODULE MCKernelJournal ---------------------------
(***************************************************************************)
(* KernelJournal on small instances; the constants are given in the cfgs.  *)
(* The threads are interchangeable: nothing orders or names them.          *)
(***************************************************************************)
EXTENDS KernelJournal, TLC

ThreadSymmetry == Permutations(Thread)
=============================================================================
