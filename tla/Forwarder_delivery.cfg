\* Delivery to stdout, Mattermost and immediate mail under a crash, failed
\* sends and a cap of one event.
SPECIFICATION Spec
CONSTANTS
  StdoutAllow <- Late
  MattermostAllow <- All
  EmailAllow <- Odd
  HistoryCounts <- Nothing
  MattermostOn = TRUE
  EmailMode = "immediate"
  HistoryOn = FALSE
  MaxCatchup = 1
  PollInterval = 1
  BackoffCap = 2
  OutageAlert = 1
  DigestEvery = 0
  Settle = 1
  BusyRetry = 1
  StartRetries = 1
  MaxEvents = 3
  MaxCrashes = 1
INVARIANTS TypeOK NothingVanishes Replays SkipWarned CatchupBounded
PROPERTIES ImplementsStream
