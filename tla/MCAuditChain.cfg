SPECIFICATION Spec
CONSTANTS
  capture1 = capture1
  capture2 = capture2
  None = None
  Captures <- TheCaptures
  Cap = 2
  MaxRows = 5
  MaxCrashes = 1
  MaxDamage = 2
INVARIANT HousekeepingVerifies
INVARIANT NoFalseAlarm
INVARIANT BenignMeansUnchanged
SYMMETRY TwoAlike
