----------------------------- MODULE MCStanding -----------------------------
(* A mission on a signal and a tripwire; a signal that stays is an interval.
   One tick is the period of both, so an age is 0 or Old. *)
EXTENDS Standing, TLC

CONSTANTS mail, disk

MCKind == (mail :> "signal") @@ (disk :> "condition")
MCGap  == [m \in Missions |-> 1]
=============================================================================
