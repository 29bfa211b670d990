\* One job, started by cron, by two requests and by the forwarder; one trouble.
SPECIFICATION Spec
CONSTANTS
  history = history
  Jobs <- History
  Starters <- History
  DryRuns <- None
  HistoryCap = 2
  MaxSpawns = 1
  MaxCron = 1
  MaxRequests = 2
  MaxStarts = 1
  MaxTroubles = 1
INVARIANTS TypeOK MutualExclusion HistoryComplete RunningHonest OncePerRequest
CHECK_DEADLOCK FALSE
