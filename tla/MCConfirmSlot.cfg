SPECIFICATION Spec
CONSTANTS
  alpha = alpha
  beta = beta
  worker = worker
  conn = conn
  mic = mic
  Voice = voice
  NoAction = NoAction
  Actions <- MCActions
  Background <- MCBackground
  Channel <- MCChannel
  Audio <- MCAudio
  TTL = 1
  MaxParks = 3
  MaxTime = 2
INVARIANT NoOrphanPrompt
INVARIANT OnePromptOneFire
PROPERTY ImplementsLifecycle
CHECK_DEADLOCK FALSE
