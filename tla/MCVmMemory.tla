----------------------------- MODULE MCVmMemory -----------------------------
(* A small instance of VmMemory for TLC.                                    *)
EXTENDS VmMemory, TLC

ThreadSymmetry == Permutations(Threads)
=============================================================================
