------------------------------ MODULE MCW3Stats -----------------------------
(* Small instances of the app: see the .cfg files. Players have nothing    *)
(* but their names to tell them apart, so exchanging names changes nothing *)
(* the safety properties can see.                                          *)
EXTENDS W3Stats, TLC

NameSymmetry == Permutations(Names)
=============================================================================
