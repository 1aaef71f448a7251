SPECIFICATION Spec
CONSTANTS
  hud1 = hud1
  hud2 = hud2
  turn1 = turn1
  Operators <- OneOperator
  Turns <- MCTurns
  MaxFaults = 1
  MaxCrashes = 2
INVARIANT EngagedHolds
 
 
 
