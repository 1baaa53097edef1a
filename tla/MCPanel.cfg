SPECIFICATION PartSpec
CONSTANTS
  None = None
  Live = Live
  MaxContent = 1
  MaxGeneration = 2
  MaxSubscription = 0
  MaxFailures = 1
  MaxWaiting = 1
  Reloads = TRUE
  Follow <- FewFollow
  Assets = {x}
  Areas = {r1}
  Floors = {f}
  Queries = {q}
  NoArea = NoArea
  StaleArea = StaleArea
  Gone = Gone
  Junk = Junk
  MaxBack = 1
  MaxSessions = 1
CHECK_DEADLOCK FALSE
INVARIANT NoSelfConflict
PROPERTIES DataNeverGoesBack SteadyFeed ScreensSettle
