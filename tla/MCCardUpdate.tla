----------------------------- MODULE MCCardUpdate -----------------------------
(***************************************************************************)
(* A small instance of CardUpdate for TLC: one update of the card, one     *)
(* purchase that writes the same row, and two handlers, which is enough    *)
(* for a webhook and a poll, or an update and an activation, to race.  No  *)
(* symmetry: the run checks liveness.                                      *)
(***************************************************************************)
EXTENDS CardUpdate

CONSTANTS u1, p1, w1, w2

OneUpdate == {u1}
OnePurchase == {p1}
TwoHandlers == {w1, w2}
=============================================================================
