------------------------------ MODULE Checkmark -----------------------------
(***************************************************************************)
(* The checkmark that acknowledges a saved match result: shown at once,    *)
(* faded out after a second, and hidden with its alpha restored when the   *)
(* fade has ended. Each call starts its own timer; they are not cancelled. *)
(***************************************************************************)
EXTENDS Naturals

CONSTANT MaxTimers   \* bound: calls whose timer or fade has not ended

VARIABLE mark

(* hidden: checkmarkView.isHidden                                          *)
(* opaque: checkmarkView.alpha, 0.9 or 0                                   *)
(* timers: asyncAfter blocks waiting to run                                *)
(* fades:  completion handlers waiting to run                              *)
TypeOK ==
  mark \in [ hidden : BOOLEAN, opaque : BOOLEAN,
             timers : 0 .. MaxTimers, fades : 0 .. MaxTimers ]

(* The storyboard: hidden, alpha 0.9. *)
Idle == [hidden |-> TRUE, opaque |-> TRUE, timers |-> 0, fades |-> 0]

Init == mark = Idle

(* showCheckmark: isHidden is reset, alpha is not. *)
Show ==
  /\ mark.timers + mark.fades < MaxTimers
  /\ mark' = [mark EXCEPT !.hidden = FALSE, !.timers = @ + 1]

TimerFires ==
  /\ mark.timers > 0
  /\ mark' = [mark EXCEPT !.opaque = FALSE, !.timers = @ - 1, !.fades = @ + 1]

(* Mutant of FadeEnds: the alpha is not restored. *)
FadeEndsTransparent ==
  /\ mark.fades > 0
  /\ mark' = [mark EXCEPT !.hidden = TRUE, !.fades = @ - 1]

FadeEnds ==
  /\ mark.fades > 0
  /\ mark' = [mark EXCEPT !.hidden = TRUE, !.opaque = TRUE, !.fades = @ - 1]

Settled == mark.timers = 0 /\ mark.fades = 0
=============================================================================
