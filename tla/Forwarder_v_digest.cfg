\* README.md:125: no event loss across restarts, for the digest.
SPECIFICATION Spec
CONSTANTS
  StdoutAllow <- All
  MattermostAllow <- All
  EmailAllow <- All
  HistoryCounts <- Nothing
  MattermostOn = FALSE
  EmailMode = "digest"
  HistoryOn = FALSE
  MaxCatchup = 1
  PollInterval = 1
  BackoffCap = 2
  OutageAlert = 3
  DigestEvery = 2
  Settle = 1
  BusyRetry = 1
  StartRetries = 1
  MaxEvents = 2
  MaxCrashes = 0
INVARIANTS DigestSurvives
