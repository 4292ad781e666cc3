----------------------------- MODULE MCSyncFiles ----------------------------
(* A small instance of the files of sync: see the .cfg file. *)
EXTENDS SyncFiles, TLC

CONSTANTS r1, r2, ann

RealmsOfAnn == {r1, r2}

AllAnns == [r \in RealmsOfAnn |-> ann]

Symmetry == Permutations(RealmsOfAnn) \cup Permutations(Names)
=============================================================================
