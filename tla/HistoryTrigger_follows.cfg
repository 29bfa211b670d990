\* Snapshots after changes: a request, for a run or a dry run, and the
\* forwarder, one trouble; what must happen in the end.
SPECIFICATION HSpec
CONSTANTS
  history = history
  Jobs <- History
  Starters <- History
  DryRuns <- History
  HistoryCap = 1
  MaxSpawns = 1
  MaxCron = 0
  MaxRequests = 1
  MaxStarts = 1
  MaxTroubles = 1
  Endpoints = 2
  MaxChanges = 1
INVARIANTS StatusHonest NoTwins ChangePending
PROPERTIES SnapshotFollows RequestsLeave LocksComeFree
CHECK_DEADLOCK FALSE
