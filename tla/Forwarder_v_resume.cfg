\* README.md:125: the forwarder resumes where it left off. startretries as in
\* supervisord.conf, and no crash at all.
SPECIFICATION FairSpec
CONSTANTS
  StdoutAllow <- All
  MattermostAllow <- All
  EmailAllow <- All
  HistoryCounts <- Nothing
  MattermostOn = FALSE
  EmailMode = "off"
  HistoryOn = FALSE
  MaxCatchup = 1
  PollInterval = 1
  BackoffCap = 2
  OutageAlert = 3
  DigestEvery = 2
  Settle = 1
  BusyRetry = 1
  StartRetries = 5
  MaxEvents = 2
  MaxCrashes = 0
PROPERTIES ResumesAfterOutage
