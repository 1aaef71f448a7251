SPECIFICATION FairSpec
CONSTANTS
  guard = guard
  host = host
  hud = hud
  Lock = Lock
  Apps = Apps
  Bad = Bad
  Tick = Tick
  None = None
  Emitters <- TheEmitters
  Clients <- TheClients
  Keys <- TheKeys
  Sticky <- TheSticky
  Emits <- TheEmits
  Ring = 2
  StickyCap = 2
  MaxFrames = 4
INVARIANT CaughtUpShowsRetained
INVARIANT RecentAlwaysShown
PROPERTY SettlesOnLatest
