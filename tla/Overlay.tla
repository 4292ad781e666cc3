------------------------------- MODULE Overlay ------------------------------
(***************************************************************************)
(* A panel that slides up over a dimmed background. StatsViewController    *)
(* has one (adding a match result) and so has PlayersViewController        *)
(* (adding a player), with the same code. Assignments made inside          *)
(* UIView.animate take effect at once; its completion handler runs later,  *)
(* and nothing cancels it when another animation starts in between.        *)
(***************************************************************************)
EXTENDS Naturals

CONSTANT MaxFades    \* bound: completion handlers waiting to run

VARIABLE overlay

(* panel:  is the panel up                                                 *)
(* dimmed: backgroundBlurView.alpha, 0.7 or 0                              *)
(* hidden: backgroundBlurView.isHidden                                     *)
(* rising: the blur is being faded in, during which UIKit does not give it *)
(*         any touches                                                     *)
(* fades:  unblur completion handlers waiting to run                       *)
TypeOK ==
  overlay \in [ panel : BOOLEAN, dimmed : BOOLEAN, hidden : BOOLEAN,
                rising : BOOLEAN, fades : 0 .. MaxFades ]

(* The storyboard: height 0, blur hidden and transparent. *)
Closed == [ panel |-> FALSE, dimmed |-> FALSE, hidden |-> TRUE,
            rising |-> FALSE, fades |-> 0 ]

Init == overlay = Closed

(* Touches go to what lies under the blur when it is hidden, transparent   *)
(* or in the middle of an animation; otherwise the blur takes them all.    *)
Reachable == overlay.hidden \/ ~overlay.dimmed \/ overlay.rising

(* blurBackground and the animation of the height. *)
Shown == [overlay EXCEPT !.panel = TRUE, !.dimmed = TRUE,
                         !.hidden = FALSE, !.rising = TRUE]

Show == overlay' = Shown

(* Mutants of Hide: the alpha is not set; there is no completion handler.  *)
HideStaysDimmed ==
  /\ overlay.fades < MaxFades
  /\ overlay' = [overlay EXCEPT !.panel = FALSE, !.rising = FALSE, !.fades = @ + 1]

HideWithoutCompletion ==
  /\ overlay.fades < MaxFades
  /\ overlay' = [overlay EXCEPT !.panel = FALSE, !.dimmed = FALSE, !.rising = FALSE]

(* unblurBackground and the animation of the height; the handlers that     *)
(* close a panel are not called again before an earlier fade has ended.    *)
Hide ==
  /\ overlay.fades < MaxFades
  /\ overlay' = [overlay EXCEPT !.panel = FALSE, !.dimmed = FALSE,
                                !.rising = FALSE, !.fades = @ + 1]

FadeInEnds ==
  /\ overlay.rising
  /\ overlay' = [overlay EXCEPT !.rising = FALSE]

(* The completion handler of unblurBackground. *)
FadeOutEnds ==
  /\ overlay.fades > 0
  /\ overlay' = [overlay EXCEPT !.hidden = TRUE, !.fades = @ - 1]

(* The user's part: the add button lies under the blur, the tap recogniser *)
(* is on the blur itself, the save button is on the panel.                 *)
AddTapped == Reachable /\ Show

BackgroundTapped == ~Reachable /\ Hide

SaveTapped == overlay.panel /\ Hide
=============================================================================
