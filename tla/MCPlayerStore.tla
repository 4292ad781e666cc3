--------------------------- MODULE MCPlayerStore ----------------------------
(* A small data layer for TLC: see MCPlayerStore.cfg for the sizes. *)
EXTENDS PlayerStore
=============================================================================
