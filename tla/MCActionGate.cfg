SPECIFICATION Spec
CONSTANTS
  hud = hud
  standing = standing
  connector_add = connector_add
  mcp_delete = mcp_delete
  Voice = voice
  None = none
  Channel <- MCChannel
  Background <- MCBackground
  Actions <- MCActions
  Planned <- MCPlanned
  Mcp <- MCMcp
  Profiles <- MCProfiles
  MaxFlips = 1
  MaxRules = 1
  MaxDrift = 1
INVARIANT AskedWhenOwed
INVARIANT RefusalIsFinal
 
INVARIANT RunsAccountedFor
INVARIANT JournalHonest
