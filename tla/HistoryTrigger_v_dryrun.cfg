\* README.md:254: a snapshot after each configuration change. With the dry run
\* of the Jobs page, and no process dying at all.
SPECIFICATION HSpec
CONSTANTS
  history = history
  Jobs <- History
  Starters <- History
  DryRuns <- History
  HistoryCap = 1
  MaxSpawns = 1
  MaxCron = 0
  MaxRequests = 1
  MaxStarts = 1
  MaxTroubles = 0
  Endpoints = 2
  MaxChanges = 1
PROPERTIES ChangeFollowed
CHECK_DEADLOCK FALSE
