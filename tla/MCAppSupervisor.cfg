SPECIFICATION FairSpec
CONSTANTS
  share_guard = share_guard
  router = router
  l1 = l1
  l2 = l2
  generate = generate
  Nobody = Nobody
  Starters <- MCStarters
  Stoppers <- MCStoppers
  Lives <- MCLives
  Requests <- MCRequests
  MaxRestarts = 1
  MaxPending = 1
  MaxNonce = 2
INVARIANTS StopDrains WaitersKnown RunningIsSupervised
PROPERTIES StopSilences StoppedComesToRest
CHECK_DEADLOCK FALSE
