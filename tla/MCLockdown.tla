----------------------------- MODULE MCLockdown -----------------------------
(* Lockdown with one operator, or two that race, and one turn. *)
EXTENDS Lockdown, TLC

CONSTANTS hud1, hud2, turn1

OneOperator  == {hud1}
TwoOperators == {hud1, hud2}
MCTurns      == {turn1}
=============================================================================
