----------------------------- MODULE MCRecovery -----------------------------
(* Instances of StandbyClone and OffsiteBackup for TLC: two jobs that have *)
(* nothing in common, checked in one run. A behaviour is one of either.    *)
EXTENDS StandbyClone, OffsiteBackup

CONSTANTS
  cron, ops,   \* the scheduled process and an operator
  real, test   \* the clone and the smoke test

TwoTargets == <<real, test>>
Real == {real}
Test == {test}
Ops == {ops}
All == {"run", "stage", "install", "drill", "failover", "rollback"}
Both == {cron, ops}
One == {1}
OneTwo == {1, 2}

(* The primary changes without a difference in its counts, and is lost.    *)
RowsOf == [g \in Generations |-> IF g = 2 THEN 0 ELSE 2]

VARIABLE job

Init == CloneInit /\ BackupInit /\ job \in {"clone", "backup"}

Next ==
  \/ job = "clone" /\ CloneNext /\ UNCHANGED <<backupVars, job>>
  \/ job = "backup" /\ BackupNext /\ UNCHANGED <<cloneVars, job>>

Spec == Init /\ [][Next]_<<cloneVars, backupVars, job>>

TypeOK == CloneTypes /\ BackupTypes
=============================================================================
