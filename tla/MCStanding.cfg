CONSTANTS
  mail = mail
  disk = disk
  None = None
  Missions = {mail, disk}
  Kind <- MCKind
  Gap <- MCGap
  MaxTurns = 1
  MaxActive = 1
  EvalEvery = 1
  MaxMishaps = 1
SPECIFICATION FairMissionSpec
INVARIANTS MissionTypeOK 
PROPERTIES OncePerPeriod  DueRuns TripwireFires
