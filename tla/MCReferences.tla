---------------------------- MODULE MCReferences ----------------------------
(* Small instances of References for TLC.                                   *)
EXTENDS References, TLC

RegisterSymmetry == Permutations(Registers)
=============================================================================
