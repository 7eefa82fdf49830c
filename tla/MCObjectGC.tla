----------------------------- MODULE MCObjectGC -----------------------------
(* Small instances of ObjectGC for TLC.                                     *)
EXTENDS ObjectGC, TLC

CONSTANTS o1, o2, o3, r1, r2, proto, f1

\* Programs whose objects form no cycle: o1 may hold o2 and o3, o2 may hold o3.
ChainLinks == {<<o1, o2>>, <<o1, o3>>, <<o2, o3>>}
PairLinks == {<<o1, o2>>}
\* Programs in which two objects may hold each other, or an object itself.
CycleLinks == {<<o1, o2>>, <<o2, o1>>, <<o1, o1>>}

RegisterSymmetry == Permutations(Registers)
=============================================================================
