---------------------------- MODULE MCMatchTally ----------------------------
(* Every pair of up to MaxMatches matches: see the .cfg. *)
EXTENDS MatchTally
=============================================================================
