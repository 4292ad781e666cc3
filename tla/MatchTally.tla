----------------------------- MODULE MatchTally -----------------------------
(***************************************************************************)
(* One of the four win/loss pairs of the shown player, and what its view   *)
(* (VersusView) displays after each change: the percentage is computed by  *)
(* StatsUtil in floating point and truncated.                              *)
(***************************************************************************)
EXTENDS StatsUtil

CONSTANTS
  MaxMatches,  \* bound: wins and losses together
  Corrections  \* the values typed into the edit alert

ASSUME TallyAssumption ==
  /\ MaxMatches \in Nat /\ MaxMatches \div 4194304 < 4194304   \* less than 2 to the 44th
  /\ Corrections \subseteq Nat

VARIABLES
  desc,   \* Desc: the pair
  shown   \* Stat: what the view displays

tally == <<desc, shown>>

(* The change of the pair, and showStats after it. *)
Becomes(d) ==
  /\ d.wins + d.losses <= MaxMatches
  /\ desc' = d
  /\ shown' = calculateStat(d.wins, d.losses)

TallyInit ==
  /\ desc = [wins |-> 0, losses |-> 0]
  /\ shown = calculateStat(0, 0)

(* Mutant of AddWin: the results are swapped.                              *)
AddWinSwapped == Becomes([desc EXCEPT !.losses = @ + 1])

AddWin == Becomes([desc EXCEPT !.wins = @ + 1])

AddLoss == Becomes([desc EXCEPT !.losses = @ + 1])

EditWins(v) == Becomes([desc EXCEPT !.wins = v])

EditLosses(v) == Becomes([desc EXCEPT !.losses = v])

TallyNext ==
  \/ AddWin \/ AddLoss
  \/ \E v \in Corrections : EditWins(v) \/ EditLosses(v)

TallySpec == TallyInit /\ [][TallyNext]_tally

-----------------------------------------------------------------------------
(* Properties. *)

(* What is displayed is the percentage of matches won, rounded down, but   *)
(* for a rounding error: when the exact percentage is a whole number the   *)
(* two roundings may leave the Double just below it and Int() then shows   *)
(* one less (29 of 50 shows 57%). Nothing else is ever displayed.          *)
PercentageWithinOne ==
  desc.wins + desc.losses > 0 =>
    LET total == desc.wins + desc.losses
        exact == (100 * desc.wins) \div total
    IN  \/ shown.percentage = exact
        \/ /\ (100 * desc.wins) % total = 0
           /\ shown.percentage = exact - 1

(* A win never lowers the displayed percentage and a defeat never raises   *)
(* it, in spite of the rounding.                                           *)
ResultsPushTheRightWay ==
  [][/\ AddWin => shown'.percentage >= shown.percentage
     /\ AddLoss => shown'.percentage <= shown.percentage]_tally
=============================================================================
