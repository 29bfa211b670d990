\* A cycle of the clone, scheduled or by hand, and one other command of an
\* operator, of all kinds and at any time; four off-site backups, of which two
\* can overlap.
SPECIFICATION Spec
CONSTANTS
  cron = cron
  ops = ops
  real = real
  test = test
  Cron = cron
  Operators <- Ops
  Order <- TwoTargets
  FailoverTarget = real
  Autostart <- Test
  CertCopy <- Real
  Commands <- All
  Named <- Real
  KeepSnapshots = 1
  Rows <- RowsOf
  LastGeneration = 2
  MinRows = 1
  MaxRuns = 1
  MaxCommands = 1
  MaxFailures = 1
  Packers <- Both
  Keeps <- OneTwo
  MaxBackups = 4
  MaxDamaged = 1
  MaxBreaks = 1
INVARIANTS TypeOK TargetAsTold RunHonest NoSecondPrimary ArchiveStays
PROPERTIES GateHolds
CHECK_DEADLOCK FALSE
