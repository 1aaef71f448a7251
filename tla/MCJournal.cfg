SPECIFICATION Spec
CONSTANTS
  Voice = Voice
  hud = hud
  Pause = Pause
  Resume = Resume
  Create = Create
  Cancel = Cancel
  Mail = Mail
  None = None
  Channel <- TheChannel
  Actions <- TheActions
  Ungated <- TheUngated
  Inverse <- TheInverse
  Cap = 2
  MaxRuns = 3
  MaxFlips = 1
CHECK_DEADLOCK FALSE
INVARIANT RetainedAreTheNewest
INVARIANT UndoneHasInverse
 
