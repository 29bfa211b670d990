\* What must happen in the end (delivery, the alert), with outages, backoff,
\* the mail digest and the snapshot trigger.
SPECIFICATION FairSpec
CONSTANTS
  StdoutAllow <- All
  MattermostAllow <- Nothing
  EmailAllow <- All
  HistoryCounts <- All
  MattermostOn = TRUE
  EmailMode = "digest"
  HistoryOn = TRUE
  MaxCatchup = 2
  PollInterval = 2
  BackoffCap = 4
  OutageAlert = 3
  DigestEvery = 1
  Settle = 1
  BusyRetry = 1
  StartRetries = 1
  MaxEvents = 2
  MaxCrashes = 1
INVARIANTS AlertsPerOutage CalmBackoff HeartbeatHonest
PROPERTIES DigestKeepsMail EventuallyPrinted EventuallyAlerted
