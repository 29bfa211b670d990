---------------------------- MODULE RecoveryProofs ----------------------------
(***************************************************************************)
(* The off-site backup and the standby clone, for any number of processes, *)
(* runs, failures and targets.                                             *)
(***************************************************************************)
EXTENDS MCRecovery, SequenceTheorems, FiniteSetTheorems, WellFoundedInduction, TLAPS

(* Of the numbers of a set that has a bound there is a greatest.           *)
Earlier == {ss \in Nat \X Nat : ss[1] < ss[2]}

LEMMA EarlierWellFounded == IsWellFoundedOn(Earlier, Nat)
  BY NatLessThanWellFounded, Zenon DEF OpToRel, Earlier

LEMMA Least ==
  ASSUME NEW T, T \subseteq Nat, T # {}
  PROVE  \E x \in T : \A y \in T : x <= y
<1>1. PICK x \in T : \A y \in T : ~ (<<y, x>> \in Earlier)
  BY EarlierWellFounded, WFMin, Zenon
<1>2. \A y \in T : y < x => <<y, x>> \in Earlier
  BY DEF Earlier
<1>3. \A y \in T : ~ (y < x)
  BY <1>1, <1>2, Zenon
<1>4. x \in Nat /\ \A y \in T : y \in Nat
  OBVIOUS
<1>. QED
  BY <1>3, <1>4

LEMMA Greatest ==
  ASSUME NEW n \in Nat, NEW T, T \subseteq 0..n, T # {}
  PROVE  \E x \in T : \A y \in T : y <= x
<1>. DEFINE U == {n - y : y \in T}
<1>1. \A y \in T : n - y \in Nat
  <2>1. \A y \in T : y \in 0..n
    OBVIOUS
  <2>. QED
    BY <2>1
<1>2. U \subseteq Nat /\ U # {}
  BY <1>1
<1>3. PICK u \in U : \A v \in U : u <= v
  <2>. HIDE DEF U
  <2>. QED
    BY <1>2, Least
<1>4. PICK x \in T : u = n - x
  OBVIOUS
<1>5. \A y \in T : n - x <= n - y
  BY <1>3, <1>4
<1>. QED
  BY <1>5

-----------------------------------------------------------------------------
(* The off-site backup                                                     *)

PackerRecords ==
  [pc : {"idle", "pack", "push", "prune", "compare"}, stamp : 0..MaxBackups,
   keep : Keeps \cup {0}, dry : BOOLEAN, intact : BOOLEAN]

Active(p) == packer[p].pc # "idle"
Packed(p) == packer[p].pc \in {"push", "prune", "compare"}

ArchivesOK ==
  /\ work = NoDirectory \/ work \subseteq 1..stamps
  /\ archives \subseteq 1..stamps /\ damaged \subseteq 1..stamps /\ proven \subseteq 1..stamps

CountersOK ==
  /\ stamps \in 0..MaxBackups /\ breaks \in 0..MaxBreaks
  /\ check \in {"none", "ok", "crit"} /\ risked \in BOOLEAN

(* Every process that has packed has an archive of its own.                *)
StampsOwn ==
  /\ \A p \in Packers : packer[p].stamp \in 0..stamps /\ (Active(p) => packer[p].keep \in Keeps)
  /\ \A p \in Packers : Packed(p) => packer[p].stamp \in 1..stamps
  /\ \A p, q \in Packers : Packed(p) /\ Packed(q) /\ p # q => packer[p].stamp # packer[q].stamp

(* An archive that was not pushed yet is not on the other side.            *)
Unshipped ==
  \A p \in Packers : packer[p].pc = "push" => packer[p].stamp \notin archives \cup damaged

(* The far side has told a process that its archive is intact, and pruned. *)
Answered == \E p \in Packers : packer[p].pc = "compare" /\ packer[p].intact

OneStays == (proven # {} \/ Answered) /\ ~risked => archives \ damaged # {}

BackupInv ==
  /\ packer \in [Packers -> PackerRecords]
  /\ ArchivesOK /\ CountersOK /\ StampsOwn /\ Unshipped /\ OneStays

LEMMA NoPackerIs == NoPacker \in PackerRecords /\ NoPacker.pc = "idle" /\ NoPacker.stamp = 0
  BY BackupConstants DEF NoPacker, PackerRecords

LEMMA DamagedFinite ==
  ASSUME BackupInv
  PROVE  IsFiniteSet(archives \cap damaged) /\ Cardinality(archives \cap damaged) \in Nat
<1>1. IsFiniteSet(1..stamps)
  BY FS_Interval DEF BackupInv, CountersOK
<1>2. archives \cap damaged \subseteq 1..stamps
  BY DEF BackupInv, ArchivesOK
<1>. QED
  BY <1>1, <1>2, FS_Subset, FS_CardinalityType

(* Pruning removes an archive only when as many newer ones are kept; among *)
(* those above the newest intact one, all are damaged.                     *)
LEMMA PruningSpares ==
  ASSUME BackupInv, NEW keep \in Keeps, ~ (keep <= Cardinality(archives \cap damaged)),
         archives \ damaged # {}
  PROVE  (archives \ Outdated(keep)) \ damaged # {}
<1>1. stamps \in Nat /\ archives \ damaged \subseteq 0..stamps
  BY DEF BackupInv, CountersOK, ArchivesOK
<1>2. PICK y \in archives \ damaged : \A x \in archives \ damaged : x <= y
  BY <1>1, Greatest
<1>. DEFINE above == {b \in archives : b > y}
<1>3. above \subseteq archives \cap damaged
  <2>1. \A b \in archives : b \in Nat
    BY <1>1 DEF BackupInv, ArchivesOK
  <2>. QED
    BY <1>2, <2>1
<1>4. Cardinality(above) \in Nat /\ Cardinality(above) <= Cardinality(archives \cap damaged)
  <2>. HIDE DEF above
  <2>. QED
    BY <1>3, DamagedFinite, FS_Subset, FS_CardinalityType
<1>5. ~ (Cardinality(above) >= keep)
  <2>. HIDE DEF above
  <2>. QED
    BY <1>4, DamagedFinite, BackupConstants
<1>6. y \notin Outdated(keep)
  BY <1>5 DEF Outdated
<1>. QED
  BY <1>2, <1>6

(* A process ends, for whatever reason.                                    *)
LEMMA Leaving ==
  ASSUME BackupInv, NEW p \in Packers, Becomes(p, NoPacker),
         UNCHANGED <<archives, damaged, stamps>>
  PROVE  packer' \in [Packers -> PackerRecords] /\ StampsOwn' /\ Unshipped'
         /\ (Answered' => Answered)
<1>1. /\ packer' \in [Packers -> PackerRecords]
      /\ \A q \in Packers : packer'[q] = IF q = p THEN NoPacker ELSE packer[q]
  BY NoPackerIs DEF Becomes, BackupInv
<1>2. StampsOwn'
  BY <1>1, NoPackerIs DEF StampsOwn, Active, Packed, BackupInv, CountersOK
<1>3. Unshipped' /\ (Answered' => Answered)
  BY <1>1, NoPackerIs DEF Unshipped, Answered, BackupInv
<1>. QED
  BY <1>1, <1>2, <1>3

(* A process goes on with the same archive.                                *)
LEMMA GoingOn ==
  ASSUME BackupInv, NEW p \in Packers, Packed(p),
         NEW new \in PackerRecords, Becomes(p, new), new.pc \in {"push", "prune", "compare"},
         new.stamp = packer[p].stamp, new.keep = packer[p].keep, UNCHANGED stamps
  PROVE  /\ packer' \in [Packers -> PackerRecords] /\ StampsOwn'
         /\ \A q \in Packers : packer'[q] = IF q = p THEN new ELSE packer[q]
<1>1. /\ packer' \in [Packers -> PackerRecords]
      /\ \A q \in Packers : packer'[q] = IF q = p THEN new ELSE packer[q]
  BY DEF Becomes, BackupInv
<1>2. StampsOwn'
  BY <1>1 DEF StampsOwn, Active, Packed, BackupInv
<1>. QED
  BY <1>1, <1>2

LEMMA SweepingIs ==
  ASSUME BackupInv, NEW p \in Packers, work' = Swept(p), UNCHANGED stamps
  PROVE  work' = NoDirectory \/ work' \subseteq 1..stamps'
  BY DEF Swept, BackupInv, ArchivesOK

LEMMA StartKeeps ==
  ASSUME BackupInv, NEW p \in Packers, NEW keep \in Keeps, NEW dry \in BOOLEAN,
         StartBackup(p, keep, dry)
  PROVE  BackupInv'
<1>. DEFINE new == [NoPacker EXCEPT !.pc = "pack", !.keep = keep, !.dry = dry]
<1>1. new \in PackerRecords /\ new.pc = "pack" /\ new.stamp = 0 /\ new.keep = keep
  BY NoPackerIs DEF PackerRecords
<1>. HIDE DEF new
<1>2. /\ packer' \in [Packers -> PackerRecords]
      /\ \A q \in Packers : packer'[q] = IF q = p THEN new ELSE packer[q]
  BY <1>1 DEF StartBackup, Becomes, BackupInv, new
<1>3. UNCHANGED <<archives, damaged, proven, check, stamps, breaks, risked>> /\ work' = {}
  BY DEF StartBackup
<1>4. ArchivesOK' /\ CountersOK'
  BY <1>3 DEF BackupInv, ArchivesOK, CountersOK
<1>5. StampsOwn'
  <2>1. 0 \in 0..stamps
    BY DEF BackupInv, CountersOK
  <2>. QED
    BY <1>1, <1>2, <1>3, <2>1 DEF StampsOwn, Active, Packed, BackupInv
<1>6. Unshipped' /\ OneStays'
  BY <1>1, <1>2, <1>3 DEF Unshipped, OneStays, Answered, BackupInv
<1>. QED
  BY <1>2, <1>4, <1>5, <1>6 DEF BackupInv

(* A process ends with an outcome, and what it knew is lost.               *)
LEMMA EndKeeps ==
  ASSUME BackupInv, NEW p \in Packers, NEW outcome \in {"ok", "crit"}, Ends(p, outcome),
         UNCHANGED <<archives, damaged, proven, stamps, risked>>,
         breaks' \in 0..MaxBreaks
  PROVE  BackupInv'
<1>1. /\ packer' \in [Packers -> PackerRecords] /\ StampsOwn' /\ Unshipped'
      /\ (Answered' => Answered)
  BY Leaving DEF Ends
<1>2. ArchivesOK' /\ CountersOK'
  BY SweepingIs DEF Ends, BackupInv, ArchivesOK, CountersOK
<1>3. OneStays'
  BY <1>1 DEF OneStays, BackupInv
<1>. QED
  BY <1>1, <1>2, <1>3 DEF BackupInv

LEMMA PackKeeps ==
  ASSUME BackupInv, NEW p \in Packers, Pack(p)
  PROVE  BackupInv'
<1>1. Active(p) /\ packer[p].pc = "pack" /\ packer[p] \in PackerRecords
      /\ UNCHANGED <<archives, damaged, proven, breaks, risked>>
  BY DEF Pack, Packing, Active, BackupInv
<1>2. CASE Ends(p, "crit") /\ UNCHANGED stamps
  BY <1>1, <1>2, EndKeeps DEF BackupInv, CountersOK
<1>. DEFINE new == IF packer[p].dry THEN NoPacker ELSE [GoesTo(p, "push") EXCEPT !.stamp = stamps']
<1>3. CASE /\ stamps' = stamps + 1 /\ work # NoDirectory /\ work' = work \cup {stamps'}
           /\ Becomes(p, new) /\ UNCHANGED check
  <2>1. stamps \in Nat /\ stamps' \in 0..MaxBackups /\ stamps' \in 1..stamps'
        /\ stamps' \notin 1..stamps /\ 1..stamps \subseteq 1..stamps' /\ 0..stamps \subseteq 0..stamps'
    BY <1>3, BackupConstants DEF Pack, BackupInv, CountersOK
  <2>2. /\ new \in PackerRecords
        /\ \/ new.pc = "idle" /\ new.stamp = 0
           \/ new.pc = "push" /\ new.stamp = stamps' /\ new.keep = packer[p].keep
    BY <1>1, <2>1, NoPackerIs DEF GoesTo, PackerRecords
  <2>. HIDE DEF new
  <2>3. /\ packer' \in [Packers -> PackerRecords]
        /\ \A q \in Packers : packer'[q] = IF q = p THEN new ELSE packer[q]
    BY <1>3, <2>2 DEF Becomes, BackupInv
  <2>4. ArchivesOK' /\ CountersOK'
    BY <1>1, <1>3, <2>1 DEF BackupInv, ArchivesOK, CountersOK
  <2>5. StampsOwn'
    <3>1. \A q \in Packers : Packed(q) => packer[q].stamp # stamps'
      BY <2>1 DEF BackupInv, StampsOwn
    <3>2. 0 \in 0..stamps' /\ stamps' \in 0..stamps'
      BY <2>1
    <3>3. \A q \in Packers : packer'[q].stamp \in 0..stamps'
      BY <2>1, <2>2, <2>3, <3>2 DEF BackupInv, StampsOwn
    <3>4. \A q \in Packers : Active(q)' => packer'[q].keep \in Keeps
      BY <1>1, <2>2, <2>3 DEF BackupInv, StampsOwn, Active
    <3>5. \A q \in Packers : Packed(q)' => packer'[q].stamp \in 1..stamps'
      BY <2>1, <2>2, <2>3 DEF BackupInv, StampsOwn, Packed
    <3>6. \A q, r \in Packers : Packed(q)' /\ Packed(r)' /\ q # r => packer'[q].stamp # packer'[r].stamp
      BY <2>2, <2>3, <3>1 DEF BackupInv, StampsOwn, Packed
    <3>. QED
      BY <3>3, <3>4, <3>5, <3>6 DEF StampsOwn
  <2>6. Unshipped'
    BY <1>1, <2>1, <2>2, <2>3 DEF Unshipped, BackupInv, ArchivesOK
  <2>7. OneStays'
    BY <1>1, <2>2, <2>3 DEF OneStays, Answered, BackupInv
  <2>. QED
    BY <2>3, <2>4, <2>5, <2>6, <2>7 DEF BackupInv
<1>. QED
  BY <1>2, <1>3 DEF Pack

LEMMA PushKeeps ==
  ASSUME BackupInv, NEW p \in Packers, Push(p)
  PROVE  BackupInv'
<1>1. Packed(p) /\ packer[p].pc = "push" /\ packer[p] \in PackerRecords
      /\ UNCHANGED <<proven, stamps, breaks, risked>>
  BY DEF Push, Packing, Packed, BackupInv
<1>2. CASE Ends(p, "crit") /\ UNCHANGED <<archives, damaged>>
  BY <1>1, <1>2, EndKeeps DEF BackupInv, CountersOK
<1>. DEFINE mine == packer[p].stamp
            new == GoesTo(p, "prune")
<1>3. CASE /\ archives' = archives \cup {mine}
           /\ \/ UNCHANGED damaged
              \/ Cardinality(damaged) < MaxDamaged /\ damaged' = damaged \cup {mine}
           /\ Becomes(p, new)
           /\ UNCHANGED <<work, check>>
  <2>1. new \in PackerRecords /\ new.pc = "prune" /\ new.stamp = mine /\ new.keep = packer[p].keep
    BY <1>1 DEF GoesTo, PackerRecords
  <2>. HIDE DEF new
  <2>2. /\ packer' \in [Packers -> PackerRecords] /\ StampsOwn'
        /\ \A q \in Packers : packer'[q] = IF q = p THEN new ELSE packer[q]
    BY <1>1, <1>3, <2>1, GoingOn
  <2>3. mine \in 1..stamps /\ mine \notin archives \cup damaged
    BY <1>1 DEF BackupInv, StampsOwn, Unshipped
  <2>4. ArchivesOK' /\ CountersOK'
    BY <1>1, <1>3, <2>3 DEF BackupInv, ArchivesOK, CountersOK
  <2>5. Unshipped'
    BY <1>1, <1>3, <2>1, <2>2 DEF Unshipped, BackupInv, StampsOwn, Packed
  <2>6. OneStays'
    <3>1. Answered' => Answered
      BY <2>1, <2>2 DEF Answered
    <3>2. archives \ damaged \subseteq archives' \ damaged'
      BY <1>3, <2>3
    <3>. QED
      BY <1>1, <3>1, <3>2 DEF OneStays, BackupInv
  <2>. QED
    BY <2>2, <2>4, <2>5, <2>6 DEF BackupInv
<1>. QED
  BY <1>2, <1>3 DEF Push

LEMMA PruneKeeps ==
  ASSUME BackupInv, NEW p \in Packers, PruneRemote(p)
  PROVE  BackupInv'
<1>1. Packed(p) /\ packer[p].pc = "prune" /\ packer[p] \in PackerRecords
      /\ UNCHANGED <<damaged, proven, stamps, breaks>>
  BY DEF PruneRemote, Packing, Packed, BackupInv
<1>2. CASE Ends(p, "crit") /\ UNCHANGED <<archives, risked>>
  BY <1>1, <1>2, EndKeeps DEF BackupInv, CountersOK
<1>. DEFINE mine == packer[p].stamp
            keep == packer[p].keep
            new == [GoesTo(p, "compare") EXCEPT !.intact = mine \notin damaged]
<1>3. CASE /\ mine \in archives /\ archives' = archives \ Outdated(keep)
           /\ risked' = (risked \/ keep <= Cardinality(archives \cap damaged))
           /\ Becomes(p, new) /\ UNCHANGED <<work, check>>
  <2>1. /\ new \in PackerRecords /\ new.pc = "compare" /\ new.stamp = mine /\ new.keep = keep
        /\ new.intact <=> mine \notin damaged
    BY <1>1 DEF GoesTo, PackerRecords
  <2>. HIDE DEF new
  <2>2. /\ packer' \in [Packers -> PackerRecords] /\ StampsOwn'
        /\ \A q \in Packers : packer'[q] = IF q = p THEN new ELSE packer[q]
    BY <1>1, <1>3, <2>1, GoingOn
  <2>3. ArchivesOK' /\ CountersOK'
    <3>1. risked' \in BOOLEAN
      BY <1>3, Zenon DEF BackupInv, CountersOK
    <3>. QED
      BY <1>1, <1>3, <3>1 DEF BackupInv, ArchivesOK, CountersOK
  <2>4. Unshipped'
    BY <1>1, <1>3, <2>1, <2>2 DEF Unshipped, BackupInv
  <2>5. OneStays'
    <3> SUFFICES ASSUME proven' # {} \/ Answered', ~risked'
                 PROVE  archives' \ damaged' # {}
      BY DEF OneStays
    <3>1. ~risked /\ ~ (keep <= Cardinality(archives \cap damaged))
      BY <1>3, Zenon
    <3>2. archives \ damaged # {}
      <4>1. CASE proven # {} \/ Answered
        BY <3>1, <4>1 DEF BackupInv, OneStays
      <4>2. CASE new.intact
        BY <4>2, <1>3, <2>1
      <4>. QED
        BY <1>1, <2>1, <2>2, <4>1, <4>2 DEF Answered
    <3>3. keep \in Keeps
      BY <1>1 DEF BackupInv, StampsOwn, Active
    <3>. QED
      BY <1>1, <1>3, <3>1, <3>2, <3>3, PruningSpares
  <2>. QED
    BY <2>2, <2>3, <2>4, <2>5 DEF BackupInv
<1>. QED
  BY <1>2, <1>3 DEF PruneRemote

LEMMA CompareKeeps ==
  ASSUME BackupInv, NEW p \in Packers, CompareSums(p)
  PROVE  BackupInv'
<1>1. packer[p].pc = "compare" /\ UNCHANGED <<archives, damaged, stamps, breaks, risked>>
      /\ Ends(p, IF packer[p].intact THEN "ok" ELSE "crit")
  BY DEF CompareSums, Packing
<1>2. proven' = IF packer[p].intact THEN proven \cup {packer[p].stamp} ELSE proven
  BY DEF CompareSums
<1>3. /\ packer' \in [Packers -> PackerRecords] /\ StampsOwn' /\ Unshipped'
      /\ (Answered' => Answered)
  BY <1>1, Leaving DEF Ends
<1>4. packer[p].stamp \in 1..stamps
  BY <1>1 DEF BackupInv, StampsOwn, Packed
<1>5. ArchivesOK' /\ CountersOK'
  BY <1>1, <1>2, <1>4, SweepingIs DEF Ends, BackupInv, ArchivesOK, CountersOK
<1>6. OneStays'
  BY <1>1, <1>2, <1>3 DEF OneStays, Answered, BackupInv
<1>. QED
  BY <1>3, <1>5, <1>6 DEF BackupInv

LEMMA StepBackup == BackupInv /\ [BackupNext]_backupVars => BackupInv'
<1>. SUFFICES ASSUME BackupInv, [BackupNext]_backupVars
              PROVE  BackupInv'
  OBVIOUS
<1>1. CASE UNCHANGED backupVars
  BY <1>1 DEF backupVars, BackupInv, ArchivesOK, CountersOK, StampsOwn, Active, Packed, Unshipped,
              OneStays, Answered
<1>2. ASSUME NEW p \in Packers, Breaks(p)
      PROVE  BackupInv'
  <2>1. breaks' \in 0..MaxBreaks
    BY <1>2, BackupConstants DEF Breaks, BackupInv, CountersOK
  <2>. QED
    BY <1>2, <2>1, EndKeeps DEF Breaks
<1>3. ASSUME NEW p \in Packers, Dies(p)
      PROVE  BackupInv'
  <2>1. breaks' \in 0..MaxBreaks
    BY <1>3, BackupConstants DEF Dies, BackupInv, CountersOK
  <2>2. /\ packer' \in [Packers -> PackerRecords] /\ StampsOwn' /\ Unshipped'
        /\ (Answered' => Answered)
    BY <1>3, Leaving DEF Dies
  <2>. QED
    BY <1>3, <2>1, <2>2 DEF Dies, BackupInv, ArchivesOK, CountersOK, OneStays
<1>. QED
  BY <1>1, <1>2, <1>3, StartKeeps, PackKeeps, PushKeeps, PruneKeeps, CompareKeeps
     DEF BackupNext

LEMMA InitBackup == BackupInit => BackupInv
<1>. SUFFICES ASSUME BackupInit
              PROVE  BackupInv
  OBVIOUS
<1>1. packer \in [Packers -> PackerRecords] /\ \A p \in Packers : packer[p] = NoPacker
  BY NoPackerIs DEF BackupInit
<1>2. CountersOK /\ ArchivesOK
  <2>1. risked \in BOOLEAN
    BY Zenon DEF BackupInit
  <2>. QED
    BY <2>1, BackupConstants DEF BackupInit, CountersOK, ArchivesOK
<1>3. StampsOwn /\ Unshipped /\ OneStays
  BY <1>1, <1>2, NoPackerIs DEF BackupInit, StampsOwn, Active, Packed, Unshipped, OneStays, Answered,
     CountersOK
<1>. QED
  BY <1>1, <1>2, <1>3 DEF BackupInv

LEMMA InductiveBackup == BackupSpec => []BackupInv
  BY InitBackup, StepBackup, PTL DEF BackupSpec

(* The variables of the off-site backup keep their types.                  *)
THEOREM BackupTypesHold == BackupSpec => []BackupTypes
<1>1. BackupInv => BackupTypes
  BY DEF BackupInv, BackupTypes, ArchivesOK, CountersOK, StampsOwn, PackerRecords
<1>. QED
  BY <1>1, InductiveBackup, PTL

(* Once a run has proven an archive intact (backup_offsite.py: ship), the  *)
(* far side always has an intact one, whatever runs overlap, break or die, *)
(* on the condition that no run has pruned to so few archives that damaged *)
(* ones could be all of them: the script prunes before sums are compared.  *)
THEOREM IntactArchiveStays == BackupSpec => []ArchiveStays
<1>1. BackupInv => ArchiveStays
  BY DEF BackupInv, OneStays, ArchiveStays
<1>. QED
  BY <1>1, InductiveBackup, PTL


-----------------------------------------------------------------------------
(* The standby clone: what a process that is under way can rely on, in     *)
(* formulas of its record and of the state, and the invariant of them all  *)

Directories == [part : [Parts -> Contents], manifest : [Parts -> Contents]]
Snapshots == [stamp : Nat, part : [Parts -> Contents]]
Doable == {"stage", "install", "drill", "failover", "rollback"}
Steps == [do : Doable \cup {"verify"}, t : Targets]
Series == {"run", "installs"}

(* Where a process can be.                                                 *)
Staging == {"stage", "snap", "ship"}
Checking == {"check", "down", "keep", "keepfiles"}
Placing == {"put", "acme", "merge", "start"}
Drilling == {"drillup", "drilled", "drilldown"}
Rolling == {"choose", "rolldown", "restore", "rollup"}
Points == {"idle", "report", "verify", "failover"}
          \cup Staging \cup Checking \cup Placing \cup Drilling \cup Rolling

CloneRecords ==
  [pc : Points, job : Doable \cup Series \cup {"none"}, todo : Seq(Steps),
   left : SUBSET (Parts \cup {"manifest"}),
   stamp : Nat, since : Generations, before : [Parts -> Contents], want : [Parts -> Contents],
   others : SUBSET Resources]

Promises ==
  [by : {"none", "install", "rollback"}, holds : [Parts -> Contents], before : [Parts -> Contents]]

Budgets ==
  [runs : Nat, commands : Nat, failures : Nat, leftUp : SUBSET Targets, stale : SUBSET Targets]

WorldOK ==
  /\ primary \in Generations
  /\ staged \in Directories /\ payload \in Directories
  /\ disk \in [Targets -> [Parts -> Contents]]
  /\ up \subseteq Targets /\ ingress \in BOOLEAN
  /\ snaps \in [Targets -> Seq(Snapshots)]
  /\ after \in [Targets -> Promises]
  /\ spool \in {"none", "ok", "crit"}
  /\ budget \in Budgets

(* The numbers of the processes so far, which their snapshots carry.       *)
Numbered ==
  /\ \A p \in Clones : clone[p].stamp <= budget.runs + budget.commands
  /\ \A t \in Targets : \A i \in DOMAIN snaps[t] : snaps[t][i].stamp <= budget.runs + budget.commands

-----------------------------------------------------------------------------
(* A process c and the step it is at.                                      *)

Phases(c) ==
  /\ c.pc = "idle" => c.todo = <<>> /\ c.job # "run"
  /\ c.pc = "report" => c.todo = <<>> /\ c.job = "run"
  /\ c.pc \notin {"idle", "report"} => c.todo # <<>>
  /\ c.job = "run" => \A i \in DOMAIN c.todo : c.todo[i].do \in {"stage", "install", "drill"}
  /\ c.job = "installs" => \A i \in DOMAIN c.todo : c.todo[i].do \in {"install", "verify"}
  /\ c.job \notin Series => DOMAIN c.todo \subseteq {1}
  /\ c.pc \in Rolling => c.todo[1].do = "rollback"
  /\ c.pc \in Checking \cup Placing => c.todo[1].do = "install"
  /\ c.pc \in Staging => c.todo[1].do = "stage"

(* What it may rely on as long as no other process has written there: of   *)
(* the stage directory dir at a time when the primary is at generation now,*)
Alone(c, r) == r \notin c.others

StageLocal(c, dir, now) ==
  /\ c.since <= now
  /\ Alone(c, "staged") /\ (c.pc = "ship" \/ (c.pc = "snap" /\ "db" \notin c.left)) =>
       dir.part["db"] \in Generations /\ Enough(dir.part["db"]) /\ dir.part["db"] >= c.since

(* of the payload that a cycle works with,                                 *)
RunsAlone(c) == c.job = "run" /\ Alone(c, "staged") /\ Alone(c, "payload")

PayloadLocal(c, pay) ==
  RunsAlone(c) /\ c.pc \notin {"idle", "stage", "snap"} /\ ~(c.pc = "ship" /\ "db" \in c.left)
  => pay.part["db"] >= c.since

(* of the targets that a cycle is done with,                               *)
Awaits(c, i) ==
  /\ i \in DOMAIN c.todo /\ c.todo[i].do = "install"
  /\ i = 1 => c.pc \in Checking \/ (c.pc = "put" /\ "db" \in c.left)

DiskLocal(c, dsk) ==
  RunsAlone(c) => \A t \in Targets : Alone(c, t) =>
    (\E i \in DOMAIN c.todo : Awaits(c, i) /\ c.todo[i].t = t) \/ dsk[t]["db"] >= c.since

(* of the snapshots of a target that it still has to install,              *)
Installs(c, i) == i \in DOMAIN c.todo /\ c.todo[i].do = "install"

FreshLocal(c, old) ==
  /\ \A i, j \in DOMAIN c.todo : Installs(c, i) /\ Installs(c, j)
         /\ c.todo[i].t = c.todo[j].t => i = j
  /\ \A i \in DOMAIN c.todo :
       Installs(c, i) /\ (i = 1 => c.pc \in Checking \ {"keepfiles"}) /\ Alone(c, c.todo[i].t)
       => \A n \in DOMAIN old[c.todo[i].t] : old[c.todo[i].t][n].stamp # c.stamp

(* of the target that it installs,                                         *)
Backed(snap, stamp, parts) ==
  snap # <<>> =>
    /\ snap[1].stamp = stamp
    /\ \A i \in DOMAIN snap : snap[i].stamp = stamp => \A k \in Kept : snap[i].part[k] = parts[k]

InstallLocal(c, pay, dsk, old) ==
  LET t == c.todo[1].t
  IN  /\ c.pc \in Placing \cup (Checking \ {"check"}) /\ Alone(c, "payload") => pay.part = c.want
      /\ c.pc = "put" => c.left # {}
      /\ c.pc \in Placing =>
           /\ c.left \subseteq Parts /\ (c.pc # "put" => c.left = {})
           /\ Alone(c, t) /\ Alone(c, "payload") => \A k \in Parts \ c.left : dsk[t][k] = c.want[k]
           /\ Alone(c, t) => Backed(old[t], c.stamp, c.before)
      /\ c.pc = "keepfiles" /\ Alone(c, t) =>
           /\ dsk[t] = c.before
           /\ \A i, j \in DOMAIN old[t] :
                old[t][i].stamp = c.stamp =>
                  old[t][i].part["db"] = c.before["db"] /\ (old[t][j].stamp = c.stamp => i = j)

(* and of the target that it rolls back.                                   *)
RollLocal(c, dsk, old) ==
  LET t == c.todo[1].t
  IN  /\ c.pc \in Rolling \ {"choose"} /\ Alone(c, t) =>
           c.want = NoParts \/ (old[t] # <<>> /\ Backed(old[t], c.stamp, c.want))
      /\ c.pc = "restore" => c.left # {} /\ c.left \subseteq Kept
      /\ c.pc = "rollup" => c.left = {}
      /\ c.pc \in {"restore", "rollup"} /\ Alone(c, t) =>
           \A k \in Kept \ c.left : c.want[k] # Absent => dsk[t][k] = c.want[k]

LocalIn(c, dir, now, pay, dsk, old) ==
  /\ Phases(c) /\ StageLocal(c, dir, now) /\ PayloadLocal(c, pay)
  /\ DiskLocal(c, dsk) /\ FreshLocal(c, old)
  /\ InstallLocal(c, pay, dsk, old) /\ RollLocal(c, dsk, old)

Local(p) == LocalIn(clone[p], staged, primary, payload, disk, snaps)

(* The snapshot that an install left is the latest, or its own is gone.    *)
AfterOK ==
  /\ TargetAsTold
  /\ \A t \in Targets : after[t].by = "install" =>
       after[t].before = NoParts \/ snaps[t] = <<>> \/ Backed(snaps[t], snaps[t][1].stamp, after[t].before)

UpOK ==
  \A t \in up \ Autostart :
    \/ t \in budget.leftUp
    \/ \E p \in Clones : clone[p].pc \in {"drilled", "drilldown"} /\ clone[p].todo[1].t = t

IngressOK == ingress \/ budget.failures > 0 \/ \E p \in Clones : At(p, "merge")

CloneInv ==
  /\ WorldOK /\ clone \in [Clones -> CloneRecords] /\ Numbered
  /\ \A p \in Clones : Local(p)
  /\ AfterOK /\ UpOK /\ IngressOK

-----------------------------------------------------------------------------
(* The other processes are not disturbed                                   *)

(* c is told that another process has written, and is d afterwards.        *)
Told(c, d, wrote) ==
  /\ d.pc = c.pc /\ d.job = c.job /\ d.todo = c.todo /\ d.left = c.left /\ d.stamp = c.stamp
  /\ d.since = c.since /\ d.before = c.before /\ d.want = c.want
  /\ c.others \subseteq d.others /\ (c.pc # "idle" => wrote \subseteq d.others)

Wrote(wrote) ==
  /\ "staged" \notin wrote => staged' = staged
  /\ "payload" \notin wrote => payload' = payload
  /\ \A t \in Targets \ wrote : disk'[t] = disk[t] /\ snaps'[t] = snaps[t]
  /\ primary' \in Generations /\ primary' >= primary

LEMMA GenerationsAre == Generations \subseteq Nat /\ Contents \subseteq Int
  /\ Parts = {"db", "files", "paths"}
  BY CloneConstants DEF Generations, Contents, Absent, Parts

LEMMA TodoIs ==
  ASSUME NEW c \in CloneRecords
  PROVE  /\ Len(c.todo) \in Nat /\ DOMAIN c.todo = 1..Len(c.todo)
         /\ \A i \in DOMAIN c.todo : c.todo[i] \in Steps /\ c.todo[i].t \in Targets
         /\ c.todo # <<>> => 1 \in DOMAIN c.todo /\ Head(c.todo) = c.todo[1]
<1>1. c.todo \in Seq(Steps)
  BY DEF CloneRecords
<1>2. Len(c.todo) \in Nat /\ DOMAIN c.todo = 1..Len(c.todo)
      /\ \A i \in DOMAIN c.todo : c.todo[i] \in Steps
  BY <1>1, LenProperties, ElementOfSeq
<1>3. c.todo # <<>> => 1 \in DOMAIN c.todo /\ Head(c.todo) = c.todo[1]
  BY <1>1, <1>2, HeadTailProperties
<1>. QED
  BY <1>2, <1>3 DEF Steps

LEMMA Undisturbed ==
  ASSUME NEW c \in CloneRecords, NEW d \in CloneRecords, NEW wrote, WorldOK, Wrote(wrote),
         Told(c, d, wrote),
         LocalIn(c, staged, primary, payload, disk, snaps)
  PROVE  LocalIn(d, staged', primary', payload', disk', snaps')
<1>. USE DEF Told
<1>1. Phases(d)
  BY DEF LocalIn, Phases
<1>2. StageLocal(d, staged', primary')
  <2>1. d.since <= primary'
    <3>1. c.since \in Nat /\ primary \in Nat /\ primary' \in Nat
      BY GenerationsAre DEF Wrote, WorldOK, CloneRecords
    <3>2. c.since <= primary /\ primary <= primary' /\ d.since = c.since
      BY <3>1 DEF Wrote, LocalIn, StageLocal
    <3>. QED
      BY <3>1, <3>2
  <2>. QED
    BY <2>1 DEF Wrote, LocalIn, StageLocal, Alone
<1>3. PayloadLocal(d, payload')
  BY DEF Wrote, LocalIn, PayloadLocal, RunsAlone, Alone
<1>4. DiskLocal(d, disk')
  <2> SUFFICES ASSUME RunsAlone(d), NEW t \in Targets, Alone(d, t)
               PROVE  (\E i \in DOMAIN d.todo : Awaits(d, i) /\ d.todo[i].t = t) \/ disk'[t]["db"] >= d.since
    BY DEF DiskLocal
  <2>1. RunsAlone(c) /\ Alone(c, t) /\ c.pc # "idle" /\ disk'[t] = disk[t]
    BY DEF Wrote, RunsAlone, Alone, LocalIn, Phases
  <2>2. \A i : Awaits(c, i) => Awaits(d, i)
    BY DEF Awaits
  <2>. QED
    BY <2>1, <2>2 DEF LocalIn, DiskLocal
<1>5. FreshLocal(d, snaps')
  <2>1. ASSUME NEW i \in DOMAIN d.todo, Installs(d, i), i = 1 => d.pc \in Checking \ {"keepfiles"},
               Alone(d, d.todo[i].t), NEW n \in DOMAIN snaps'[d.todo[i].t]
        PROVE  snaps'[d.todo[i].t][n].stamp # d.stamp
    <3>1. c.pc # "idle"
      BY <2>1 DEF LocalIn, Phases
    <3>2. d.todo[i].t \in Targets
      BY <2>1, TodoIs
    <3>3. snaps'[d.todo[i].t] = snaps[d.todo[i].t]
      BY <2>1, <3>1, <3>2 DEF Wrote, Alone
    <3>4. Installs(c, i) /\ Alone(c, c.todo[i].t)
      BY <2>1 DEF Installs, Alone
    <3>. QED
      BY <2>1, <3>3, <3>4 DEF LocalIn, FreshLocal
  <2>2. \A i : Installs(d, i) <=> Installs(c, i)
    BY DEF Installs
  <2>. QED
    BY <2>1, <2>2 DEF LocalIn, FreshLocal
<1>6. ASSUME c.todo # <<>>, Alone(d, d.todo[1].t), c.pc # "idle"
      PROVE  /\ Alone(c, c.todo[1].t)
             /\ disk'[d.todo[1].t] = disk[c.todo[1].t] /\ snaps'[d.todo[1].t] = snaps[c.todo[1].t]
  BY <1>6, TodoIs DEF Wrote, Alone
<1>7. c.pc \in Checking \cup Placing \cup Rolling => c.todo # <<>> /\ c.pc # "idle"
  BY DEF LocalIn, Phases, Checking, Placing, Rolling
<1>8. Alone(d, "payload") /\ c.pc # "idle" => Alone(c, "payload") /\ payload' = payload
  BY DEF Wrote, Alone
<1>9. InstallLocal(d, payload', disk', snaps')
  <2>1. CASE d.pc \in Checking
    BY <1>6, <1>7, <1>8, <2>1 DEF LocalIn, InstallLocal, Checking, Placing
  <2>2. CASE d.pc \in Placing
    BY <1>6, <1>7, <1>8, <2>2 DEF LocalIn, InstallLocal, Checking, Placing
  <2>. QED
    BY <2>1, <2>2 DEF InstallLocal, Checking, Placing
<1>10. RollLocal(d, disk', snaps')
  BY <1>6, <1>7 DEF LocalIn, RollLocal, Rolling
<1>. QED
  BY <1>1, <1>2, <1>3, <1>4, <1>5, <1>9, <1>10 DEF LocalIn

(* The steps of a process, in these terms.                                 *)
LEMMA NoCloneIs ==
  NoClone \in CloneRecords /\ NoClone.stamp = 0
  /\ (primary' \in Generations => LocalIn(NoClone, staged', primary', payload', disk', snaps'))
<1>1. NoClone.pc = "idle" /\ NoClone.todo = <<>> /\ NoClone.job = "none" /\ NoClone.since = 0
      /\ NoClone.stamp = 0
  BY DEF NoClone
<1>2. NoClone \in CloneRecords
  <2>1. NoParts \in [Parts -> Contents] /\ 0 \in Generations /\ <<>> \in Seq(Steps)
    BY CloneConstants, EmptySeq DEF NoParts, Contents, Generations
  <2>2. \A none \in Seq(Steps), g \in Generations, parts \in [Parts -> Contents] :
          [pc |-> "idle", job |-> "none", todo |-> none, left |-> {}, stamp |-> 0, since |-> g,
           before |-> parts, want |-> parts, others |-> {}] \in CloneRecords
    BY DEF CloneRecords, Points
  <2>. QED
    BY <2>1, <2>2, Zenon DEF NoClone
<1>3. ASSUME primary' \in Generations
      PROVE  StageLocal(NoClone, staged', primary')
  <2>1. primary' >= 0
    BY <1>3, GenerationsAre
  <2>. QED
    BY <1>1, <2>1 DEF StageLocal
<1>4. Phases(NoClone) /\ PayloadLocal(NoClone, payload') /\ DiskLocal(NoClone, disk')
  BY <1>1 DEF Phases, PayloadLocal, RunsAlone, DiskLocal, Rolling, Checking, Placing, Staging
<1>5. FreshLocal(NoClone, snaps') /\ InstallLocal(NoClone, payload', disk', snaps')
      /\ RollLocal(NoClone, disk', snaps')
  BY <1>1 DEF FreshLocal, InstallLocal, RollLocal, Rolling, Checking, Placing
<1>. QED
  BY <1>1, <1>2, <1>3, <1>4, <1>5 DEF LocalIn

OthersTold(p, wrote) == \A q \in Clones \ {p} : Told(clone[q], clone'[q], wrote)

LEMMA MovesIs ==
  ASSUME NEW p \in Clones, NEW new \in CloneRecords, NEW wrote \in SUBSET Resources,
         clone \in [Clones -> CloneRecords], Moves(p, new, wrote)
  PROVE  clone' \in [Clones -> CloneRecords] /\ clone'[p] = new /\ OthersTold(p, wrote)
<1>1. \A q \in Clones : clone'[q] = IF q = p THEN new ELSE IF clone[q].pc = "idle" THEN clone[q]
                                    ELSE [clone[q] EXCEPT !.others = @ \cup wrote]
  BY DEF Moves
<1>2. ASSUME NEW q \in Clones
      PROVE  clone'[q] \in CloneRecords /\ (q # p => Told(clone[q], clone'[q], wrote))
  <2>1. ASSUME NEW c \in CloneRecords
        PROVE  [c EXCEPT !.others = @ \cup wrote] \in CloneRecords
               /\ Told(c, [c EXCEPT !.others = @ \cup wrote], wrote)
    BY DEF CloneRecords, Told
  <2>2. ASSUME NEW c, c.pc = "idle"
        PROVE  Told(c, c, wrote)
    BY <2>2 DEF Told
  <2>3. clone[q] \in CloneRecords
        /\ clone'[q] = IF q = p THEN new ELSE IF clone[q].pc = "idle" THEN clone[q]
                                    ELSE [clone[q] EXCEPT !.others = @ \cup wrote]
    BY <1>1
  <2>. QED
    BY <2>1, <2>2, <2>3
<1>. QED
  BY <1>1, <1>2 DEF Moves, OthersTold

(* The invariant, when a process p has made its own part of it true.       *)
LEMMA Assembled ==
  ASSUME NEW p \in Clones, NEW wrote, CloneInv, Wrote(wrote), clone' \in [Clones -> CloneRecords],
         OthersTold(p, wrote),
         LocalIn(clone'[p], staged', primary', payload', disk', snaps')
  PROVE  \A q \in Clones : Local(q)'
<1>1. ASSUME NEW q \in Clones \ {p}
      PROVE  LocalIn(clone'[q], staged', primary', payload', disk', snaps')
  <2>1. LocalIn(clone[q], staged, primary, payload, disk, snaps) /\ WorldOK
    BY DEF CloneInv, Local
  <2>2. clone[q] \in CloneRecords /\ clone'[q] \in CloneRecords
    BY DEF CloneInv
  <2>. QED
    BY <2>1, <2>2, Undisturbed DEF OthersTold
<1>. QED
  BY <1>1 DEF Local

(* What runs, and that a drill of it is under way.                         *)
LEMMA UpStays ==
  ASSUME NEW p \in Clones, NEW wrote, CloneInv, OthersTold(p, wrote),
         \A t \in up' : t \in budget.leftUp => t \in budget'.leftUp,
         \A t \in up' \ Autostart :
            \/ t \in up /\ ~ (clone[p].pc \in {"drilled", "drilldown"} /\ clone[p].todo[1].t = t)
            \/ t \in budget'.leftUp
            \/ clone'[p].pc \in {"drilled", "drilldown"} /\ clone'[p].todo[1].t = t
  PROVE  UpOK'
<1> SUFFICES ASSUME NEW t \in up' \ Autostart, t \notin budget'.leftUp
             PROVE  \E q \in Clones : clone'[q].pc \in {"drilled", "drilldown"}
                        /\ clone'[q].todo[1].t = t
  BY DEF UpOK
<1>1. CASE clone'[p].pc \in {"drilled", "drilldown"} /\ clone'[p].todo[1].t = t
  BY <1>1
<1>2. CASE t \in up /\ ~ (clone[p].pc \in {"drilled", "drilldown"} /\ clone[p].todo[1].t = t)
  <2>1. PICK q \in Clones : clone[q].pc \in {"drilled", "drilldown"} /\ clone[q].todo[1].t = t
    BY <1>2 DEF CloneInv, UpOK
  <2>2. clone'[q].pc = clone[q].pc /\ clone'[q].todo = clone[q].todo
    BY <1>2, <2>1 DEF Told, OthersTold
  <2>. QED
    BY <2>1, <2>2
<1>. QED
  BY <1>1, <1>2

LEMMA IngressStays ==
  ASSUME NEW p \in Clones, NEW wrote, CloneInv, OthersTold(p, wrote),
         ~At(p, "merge") \/ ingress' \/ budget'.failures > 0,
         budget.failures > 0 => budget'.failures > 0,
         ingress' = ingress \/ ingress' \/ clone'[p].pc = "merge"
  PROVE  IngressOK'
  BY DEF CloneInv, IngressOK, At, Told, OthersTold

(* A step that ends well leaves the others, as they were, to be done.      *)
NextStep(c, d) ==
  /\ c.job \in Series /\ d.job = c.job /\ d.since = c.since /\ d.stamp = c.stamp /\ d.others = c.others
  /\ \A i \in DOMAIN d.todo : i + 1 \in DOMAIN c.todo /\ d.todo[i] = c.todo[i + 1]
  /\ \A i \in DOMAIN c.todo : i # 1 => i - 1 \in DOMAIN d.todo
  /\ \/ d.pc = "report" /\ d.todo = <<>> /\ d.job = "run"
     \/ d.pc \in {"stage", "check", "drillup", "verify"} /\ d.todo # <<>>
        /\ (d.pc = "check" <=> d.todo[1].do = "install")
        /\ (d.pc = "stage" => d.todo[1].do = "stage")

LEMMA FirstIs ==
  ASSUME NEW step, step.do \in Doable \cup {"verify"}
  PROVE  /\ First(step) \in {"stage", "check", "drillup", "choose", "failover", "verify"}
         /\ First(step) = "check" <=> step.do = "install"
         /\ First(step) = "stage" => step.do = "stage"
         /\ First(step) = "choose" => step.do = "rollback"
         /\ step.do \in {"stage", "install", "drill", "verify"}
            => First(step) \in {"stage", "check", "drillup", "verify"}
  BY DEF First, Doable

LEMMA StepDoneIs ==
  ASSUME NEW p \in Clones, clone[p] \in CloneRecords, Phases(clone[p]),
         clone[p].pc \notin {"idle", "report"}
  PROVE  /\ StepDone(p) \in CloneRecords
         /\ StepDone(p) = NoClone \/ NextStep(clone[p], StepDone(p))
<1>. DEFINE c == clone[p]
            rest == Tail(c.todo)
<1>1. c.todo \in Seq(Steps) /\ c.todo # <<>>
  BY DEF CloneRecords, Phases
<1>2. rest \in Seq(Steps) /\ Len(rest) = Len(c.todo) - 1 /\ Len(c.todo) \in Nat
      /\ DOMAIN c.todo = 1..Len(c.todo) /\ DOMAIN rest = 1..Len(rest)
      /\ \A i \in 1..Len(rest) : rest[i] = c.todo[i + 1]
  BY <1>1, HeadTailProperties, LenProperties
<1>3. (\A i \in DOMAIN rest : i + 1 \in DOMAIN c.todo)
      /\ (\A i \in DOMAIN c.todo : i # 1 => i - 1 \in DOMAIN rest)
  BY <1>2
<1>4. CASE rest # <<>>
  <2>. DEFINE d == [c EXCEPT !.pc = First(Head(rest)), !.todo = rest, !.want = NoParts, !.before = NoParts]
  <2>1. 1 \in DOMAIN rest /\ Head(rest) = rest[1] /\ rest[1] \in Steps /\ rest[1] = c.todo[2]
    BY <1>2, <1>4, HeadTailProperties
  <2>2. c.job \in Series /\ rest[1].do \in {"stage", "install", "drill", "verify"}
    <3>1. 2 \in DOMAIN c.todo
      BY <1>3, <2>1
    <3>. QED
      BY <2>1, <3>1 DEF Phases, Series
  <2>3. First(rest[1]) \in {"stage", "check", "drillup", "verify"}
        /\ (First(rest[1]) = "check" <=> rest[1].do = "install")
      /\ (First(rest[1]) = "stage" => rest[1].do = "stage")
    BY <2>1, <2>2, FirstIs DEF Steps
  <2>4. StepDone(p) = d
    BY <1>4 DEF StepDone
  <2>5. NoParts \in [Parts -> Contents]
    BY NoCloneIs DEF NoClone, CloneRecords
  <2>. HIDE DEF rest
  <2>6. d \in CloneRecords /\ NextStep(c, d)
    BY <1>2, <1>3, <1>4, <2>1, <2>2, <2>3, <2>5 DEF CloneRecords, NextStep, Points, Staging,
       Checking, Drilling, Series
  <2>. QED
    BY <2>4, <2>6
<1>5. CASE rest = <<>> /\ c.job = "run"
  <2>1. StepDone(p) = [c EXCEPT !.pc = "report", !.todo = <<>>]
    BY <1>5 DEF StepDone, To
  <2>. HIDE DEF rest
  <2>2. <<>> \in Seq(Steps) /\ Len(rest) = 0
    BY <1>5, EmptySeq
  <2>3. \A none : none = <<>> => DOMAIN none = {}
    OBVIOUS
  <2>4. \A i \in DOMAIN c.todo : i = 1
    BY <1>2, <2>2
  <2>. QED
    BY <1>5, <2>1, <2>2, <2>3, <2>4 DEF CloneRecords, NextStep, Points, Series
<1>6. CASE rest = <<>> /\ c.job # "run"
  BY <1>6, NoCloneIs DEF StepDone
<1>. QED
  BY <1>4, <1>5, <1>6

LEMMA StepDoneLocal ==
  ASSUME NEW p \in Clones, clone[p] \in CloneRecords, Phases(clone[p]),
         clone[p].pc \notin {"idle", "report"},
         primary' \in Generations, clone[p].since <= primary', FreshLocal(clone[p], snaps'),
         RunsAlone(clone[p]) => payload'.part["db"] >= clone[p].since,
         RunsAlone(clone[p]) => \A t \in Targets : Alone(clone[p], t) =>
            \/ \E i \in DOMAIN clone[p].todo :
                 i # 1 /\ clone[p].todo[i].do = "install" /\ clone[p].todo[i].t = t
            \/ disk'[t]["db"] >= clone[p].since
  PROVE  /\ StepDone(p) \in CloneRecords /\ StepDone(p).stamp \in {0, clone[p].stamp}
         /\ LocalIn(StepDone(p), staged', primary', payload', disk', snaps')
<1>. DEFINE c == clone[p]
            d == StepDone(p)
<1>1. d \in CloneRecords /\ (d = NoClone \/ NextStep(c, d))
  BY StepDoneIs
<1>2. CASE NextStep(c, d)
  <2>. HIDE DEF c, d
  <2>1. Phases(d)
    BY <1>2 DEF NextStep, Phases, Rolling, Checking, Placing, Staging, Series, c
  <2>2. StageLocal(d, staged', primary') /\ PayloadLocal(d, payload')
    BY <1>2 DEF NextStep, StageLocal, PayloadLocal, RunsAlone, Alone, c
  <2>3. DiskLocal(d, disk')
    <3> SUFFICES ASSUME RunsAlone(d), NEW t \in Targets, Alone(d, t), ~ disk'[t]["db"] >= d.since
                 PROVE  \E i \in DOMAIN d.todo : Awaits(d, i) /\ d.todo[i].t = t
      BY DEF DiskLocal
    <3>1. PICK i \in DOMAIN c.todo : i # 1 /\ c.todo[i].do = "install" /\ c.todo[i].t = t
      BY <1>2 DEF NextStep, RunsAlone, Alone, c
    <3>2. i - 1 \in DOMAIN d.todo /\ d.todo[i - 1] = c.todo[i]
      BY <1>1, <1>2, <3>1, TodoIs DEF c, NextStep
    <3>3. i - 1 = 1 => d.pc \in Checking
      BY <1>2, <3>1, <3>2, EmptySeq DEF Checking, NextStep
    <3>. QED
      BY <3>1, <3>2, <3>3 DEF Awaits
  <2>4. FreshLocal(d, snaps')
    <3>1. \A i \in DOMAIN d.todo : i \in Nat /\ i + 1 # 1 /\ i + 1 \in DOMAIN c.todo
              /\ d.todo[i] = c.todo[i + 1]
                                  /\ (Installs(d, i) => Installs(c, i + 1))
      BY <1>1, <1>2, TodoIs DEF NextStep, Installs
    <3>2. ASSUME NEW i \in DOMAIN d.todo, Installs(d, i), Alone(d, d.todo[i].t),
                 NEW n \in DOMAIN snaps'[d.todo[i].t]
          PROVE  snaps'[d.todo[i].t][n].stamp # d.stamp
      <4>1. Installs(c, i + 1) /\ Alone(c, c.todo[i + 1].t) /\ i + 1 # 1
            /\ d.todo[i] = c.todo[i + 1] /\ d.stamp = c.stamp
        BY <1>2, <3>1, <3>2 DEF NextStep, Alone
      <4>. QED
        BY <3>1, <3>2, <4>1 DEF FreshLocal, c
    <3>3. ASSUME NEW i \in DOMAIN d.todo, NEW j \in DOMAIN d.todo, Installs(d, i), Installs(d, j),
                 d.todo[i].t = d.todo[j].t
          PROVE  i = j
      <4>1. i + 1 = j + 1
        BY <3>1, <3>3 DEF FreshLocal, c
      <4>. QED
        BY <3>1, <4>1
    <3>. QED
      BY <3>2, <3>3 DEF FreshLocal
  <2>5. InstallLocal(d, payload', disk', snaps') /\ RollLocal(d, disk', snaps')
    BY <1>2 DEF NextStep, InstallLocal, RollLocal, Checking, Placing, Rolling
  <2>6. LocalIn(d, staged', primary', payload', disk', snaps')
    BY <2>1, <2>2, <2>3, <2>4, <2>5 DEF LocalIn
  <2>. QED
    BY <1>1, <1>2, <2>6 DEF c, d, NextStep
<1>. QED
  BY <1>1, <1>2, NoCloneIs

(* A step that leaves the targets alone, and is not within a drill or a    *)
(* merge of the certificates.                                              *)
Counts ==
  /\ budget' \in Budgets /\ budget'.runs >= budget.runs /\ budget'.commands >= budget.commands
  /\ (budget.failures > 0 => budget'.failures > 0)
  /\ \A t \in up' : t \in budget.leftUp => t \in budget'.leftUp

LEMMA CountsOn == CloneInv /\ UNCHANGED budget => Counts
<1>1. CloneInv => budget \in Budgets
  BY DEF CloneInv, WorldOK, Budgets
<1>. QED
  BY <1>1 DEF Budgets, Counts

LEMMA NumbersStay ==
  ASSUME NEW p \in Clones, NEW wrote, CloneInv, Counts, snaps' = snaps, OthersTold(p, wrote),
         clone'[p].stamp \in {0, clone[p].stamp}
  PROVE  Numbered'
<1>1. budget \in Budgets /\ budget' \in Budgets
  BY DEF CloneInv, WorldOK, Budgets, Counts
<1>2. ASSUME NEW n \in Nat, n <= budget.runs + budget.commands
      PROVE  n <= budget'.runs + budget'.commands
  BY <1>1, <1>2 DEF Counts, Budgets
<1>3. ASSUME NEW t \in Targets, NEW i \in DOMAIN snaps[t]
      PROVE  snaps[t][i].stamp <= budget'.runs + budget'.commands
  <2>1. snaps[t][i].stamp <= budget.runs + budget.commands /\ snaps[t] \in Seq(Snapshots)
    BY DEF CloneInv, Numbered, WorldOK
  <2>2. snaps[t][i] \in Snapshots
    BY <2>1, LenProperties, ElementOfSeq
  <2>. QED
    BY <1>2, <2>1, <2>2 DEF Snapshots
<1>4. ASSUME NEW q \in Clones
      PROVE  clone'[q].stamp <= budget'.runs + budget'.commands
  <2>1. clone[q].stamp \in Nat /\ clone[q].stamp <= budget.runs + budget.commands
    BY DEF CloneInv, CloneRecords, Numbered
  <2>2. clone'[q].stamp \in {0, clone[q].stamp}
    BY DEF OthersTold, Told
  <2>3. 0 <= budget.runs + budget.commands
    BY <1>1 DEF Budgets
  <2>. QED
    BY <1>2, <2>1, <2>2, <2>3
<1>. QED
  BY <1>3, <1>4 DEF Numbered

StandbySame == disk' = disk /\ up' = up /\ ingress' = ingress /\ snaps' = snaps /\ after' = after

LEMMA StandbyStays ==
  ASSUME NEW p \in Clones, NEW wrote, CloneInv, StandbySame, OthersTold(p, wrote), Counts,
         \/ clone[p].pc \notin {"drilled", "drilldown"} \/ clone[p].todo[1].t \in budget'.leftUp
         \/ clone'[p].pc \in {"drilled", "drilldown"} /\ clone'[p].todo = clone[p].todo,
         clone[p].pc # "merge" \/ budget'.failures > 0, clone'[p].stamp \in {0, clone[p].stamp}
  PROVE  AfterOK' /\ UpOK' /\ IngressOK' /\ Numbered'
<1>1. AfterOK'
  BY DEF CloneInv, AfterOK, TargetAsTold, StandbySame
<1>2. UpOK'
  BY UpStays DEF StandbySame, Counts
<1>3. IngressOK'
  <2>1. CASE clone[p].pc = "merge"
    BY <2>1 DEF IngressOK
  <2>2. CASE clone[p].pc # "merge"
    BY <2>2, IngressStays DEF At, StandbySame, Counts
  <2>. QED
    BY <2>1, <2>2
<1>4. Numbered'
  BY NumbersStay DEF StandbySame
<1>. QED
  BY <1>1, <1>2, <1>3, <1>4

LEMMA InvariantOf ==
  ASSUME NEW p \in Clones, CloneInv
  PROVE  /\ clone[p] \in CloneRecords /\ clone \in [Clones -> CloneRecords] /\ WorldOK
         /\ Phases(clone[p]) /\ StageLocal(clone[p], staged, primary)
            /\ PayloadLocal(clone[p], payload)
         /\ DiskLocal(clone[p], disk) /\ FreshLocal(clone[p], snaps)
         /\ InstallLocal(clone[p], payload, disk, snaps) /\ RollLocal(clone[p], disk, snaps)
         /\ primary \in Nat /\ clone[p].since \in Nat
         /\ clone[p].since <= primary
<1>1. clone[p] \in CloneRecords /\ clone \in [Clones -> CloneRecords] /\ WorldOK /\ Local(p)
  BY DEF CloneInv
<1>. QED
  BY <1>1, GenerationsAre DEF Local, LocalIn, WorldOK, CloneRecords, StageLocal

(* A process ends: with an error, a report, or its container or terminal.  *)
LEMMA EndsKeep ==
  ASSUME NEW p \in Clones, NEW wrote \in SUBSET Resources, CloneInv, WorldOK',
         Moves(p, NoClone, wrote), Wrote(wrote),
         StandbySame, Counts,
         clone[p].pc \notin {"drilled", "drilldown"} \/ clone[p].todo[1].t \in budget'.leftUp,
         clone[p].pc # "merge" \/ budget'.failures > 0
  PROVE  CloneInv'
<1>1. clone' \in [Clones -> CloneRecords] /\ clone'[p] = NoClone /\ OthersTold(p, wrote)
  BY InvariantOf, MovesIs, NoCloneIs
<1>2. LocalIn(clone'[p], staged', primary', payload', disk', snaps')
  BY <1>1, NoCloneIs DEF WorldOK
<1>3. \A q \in Clones : Local(q)'
  BY <1>1, <1>2, Assembled
<1>4. AfterOK' /\ UpOK' /\ IngressOK' /\ Numbered'
  BY <1>1, StandbyStays, NoCloneIs
<1>. QED
  BY <1>1, <1>3, <1>4 DEF CloneInv

(* A process goes on with a step that leaves the targets alone.            *)
LEMMA GoesOn ==
  ASSUME NEW p \in Clones, NEW new \in CloneRecords, NEW wrote \in SUBSET Resources, CloneInv,
         Moves(p, new, wrote), Wrote(wrote), StandbySame, UNCHANGED budget, WorldOK',
         clone[p].pc \notin {"drilled", "drilldown", "merge"}, new.stamp \in {0, clone[p].stamp},
         LocalIn(new, staged', primary', payload', disk', snaps')
  PROVE  CloneInv'
<1>1. clone' \in [Clones -> CloneRecords] /\ clone'[p] = new /\ OthersTold(p, wrote)
  BY InvariantOf, MovesIs
<1>2. \A q \in Clones : Local(q)'
  BY <1>1, Assembled
<1>3. AfterOK' /\ UpOK' /\ IngressOK' /\ Numbered'
  <2>1. StandbySame /\ Counts
    BY CountsOn
  <2>. QED
    BY <1>1, <2>1, StandbyStays
<1>. QED
  BY <1>1, <1>2, <1>3 DEF CloneInv

LEMMA AtTarget ==
  ASSUME NEW p \in Clones, CloneInv, clone[p].pc \notin {"idle", "report"}
  PROVE  Doing(p) = clone[p].todo[1].t /\ Doing(p) \in Targets /\ Doing(p) \in Resources
<1>1. clone[p] \in CloneRecords /\ clone[p].todo # <<>>
  BY InvariantOf DEF Phases
<1>. QED
  BY <1>1, TodoIs DEF Doing, Resources

LEMMA TroubledHas ==
  ASSUME NEW p \in Clones, CloneInv, clone[p].pc # "idle"
  PROVE  /\ Troubled(p) \in Budgets /\ Troubled(p).failures = budget.failures + 1
         /\ Troubled(p).runs = budget.runs /\ Troubled(p).commands = budget.commands
         /\ budget.leftUp \subseteq Troubled(p).leftUp
         /\ (clone[p].pc \in {"drilled", "drilldown"} => Doing(p) \in Troubled(p).leftUp)
<1>. DEFINE drills == clone[p].pc \in {"drilled", "drilldown"}
            left == IF drills THEN budget.leftUp \cup {Doing(p)} ELSE budget.leftUp
            f == budget.failures + 1
            b == [budget EXCEPT !.failures = f, !.leftUp = left]
<1>1. budget \in Budgets
  BY DEF CloneInv, WorldOK
<1>2. drills => Doing(p) \in Targets
  BY AtTarget
<1>3. left \in SUBSET Targets /\ budget.leftUp \subseteq left /\ (drills => Doing(p) \in left)
  BY <1>1, <1>2 DEF Budgets
<1>4. Troubled(p) = b
  BY DEF Troubled
<1>5. f \in Nat
  BY <1>1 DEF Budgets
<1>. HIDE DEF left, drills, f
<1>6. b \in Budgets /\ b.failures = f /\ b.leftUp = left /\ b.runs = budget.runs
      /\ b.commands = budget.commands
  BY <1>1, <1>3, <1>5 DEF Budgets
<1>. HIDE DEF b
<1>. QED
  BY <1>3, <1>4, <1>6 DEF f, drills

LEMMA TroubledIs ==
  ASSUME NEW p \in Clones, CloneInv, clone[p].pc # "idle", budget' = Troubled(p)
  PROVE  Counts /\ budget'.failures > 0
         /\ (clone[p].pc \in {"drilled", "drilldown"} => clone[p].todo[1].t \in budget'.leftUp)
<1>1. budget \in Budgets
  BY DEF CloneInv, WorldOK
<1>2. clone[p].pc \in {"drilled", "drilldown"} => Doing(p) = clone[p].todo[1].t
  BY AtTarget
<1>3. budget.failures \in Nat /\ budget.runs \in Nat /\ budget.commands \in Nat
  BY <1>1 DEF Budgets
<1>. QED
  BY <1>2, <1>3, TroubledHas DEF Counts

LEMMA CommandFailsKeeps == ASSUME NEW p \in Clones, CloneInv, CommandFails(p) PROVE CloneInv'
<1>1. Counts /\ budget'.failures > 0
  BY TroubledIs DEF CommandFails
<1>2. WorldOK' /\ Wrote({})
  BY <1>1, GenerationsAre DEF CommandFails, Failing, CloneInv, WorldOK, Wrote, standby, Counts,
     Budgets
<1>3. StandbySame /\ Moves(p, NoClone, {}) /\ clone[p].pc \notin {"drilled", "drilldown"}
  BY DEF CommandFails, Failing, standby, StandbySame
<1>. QED
  BY <1>1, <1>2, <1>3, EndsKeep

LEMMA ProcessDiesKeeps == ASSUME NEW p \in Clones, CloneInv, ProcessDies(p) PROVE CloneInv'
<1>1. Counts /\ budget'.failures > 0
      /\ (clone[p].pc \in {"drilled", "drilldown"} => clone[p].todo[1].t \in budget'.leftUp)
  BY TroubledIs DEF ProcessDies, At
<1>2. WorldOK' /\ Wrote({})
  BY <1>1, GenerationsAre DEF ProcessDies, CloneInv, WorldOK, Wrote, standby, Counts, Budgets
<1>3. StandbySame /\ Moves(p, NoClone, {})
  BY DEF ProcessDies, standby, StandbySame
<1>. QED
  BY <1>1, <1>2, <1>3, EndsKeep

LEMMA ReportKeeps == ASSUME NEW p \in Clones, CloneInv, Report(p) PROVE CloneInv'
<1>1. WorldOK' /\ Wrote({})
  BY GenerationsAre DEF Report, CloneInv, WorldOK, Wrote, standby
<1>2. StandbySame /\ Moves(p, NoClone, {}) /\ Counts /\ At(p, "report")
  BY CountsOn DEF Report, standby, StandbySame
<1>. QED
  BY <1>1, <1>2, EndsKeep DEF At

-----------------------------------------------------------------------------
(* stage                                                                   *)

LEMMA DirectoriesAre ==
  /\ Empty \in Directories
  /\ \A dir \in Directories, k \in Parts, g \in Contents :
       /\ [dir EXCEPT !.part[k] = g] \in Directories
       /\ [dir EXCEPT !.part[k] = g].part = [dir.part EXCEPT ![k] = g]
       /\ [dir EXCEPT !.part[k] = g].manifest = dir.manifest
  /\ \A dir \in Directories, list \in [Parts -> Contents] :
       /\ [dir EXCEPT !.manifest = list] \in Directories
       /\ [dir EXCEPT !.manifest = list].part = dir.part
<1>1. NoParts \in [Parts -> Contents]
  BY DEF NoParts, Contents
<1>. QED
  BY <1>1 DEF Empty, Directories

(* Of a process that is not at a target.                                   *)
LEMMA AwayFromTargets ==
  ASSUME NEW c, NEW pay, NEW dsk, NEW old, c.pc \notin Checking \cup Placing \cup Rolling
  PROVE  InstallLocal(c, pay, dsk, old) /\ RollLocal(c, dsk, old)
  BY DEF InstallLocal, RollLocal, Checking, Placing, Rolling

(* Two records of a process that has not changed what it has to do.        *)
SameTask(c, d) == d.job = c.job /\ d.todo = c.todo /\ d.stamp = c.stamp /\ d.since = c.since
  /\ d.others = c.others

LEMMA TaskStays ==
  ASSUME NEW c, NEW d, SameTask(c, d)
  PROVE  /\ \A dsk : DiskLocal(c, dsk) /\ c.pc \notin Checking \cup {"put"} => DiskLocal(d, dsk)
         /\ \A dsk : DiskLocal(c, dsk) /\ d.pc \in Checking => DiskLocal(d, dsk)
         /\ \A old : FreshLocal(c, old)
                /\ d.pc \notin Checking \ {"keepfiles"} => FreshLocal(d, old)
         /\ \A old : FreshLocal(c, old) /\ c.pc \in Checking \ {"keepfiles"} => FreshLocal(d, old)
<1>. USE DEF SameTask
<1>1. ASSUME NEW dsk, DiskLocal(c, dsk), c.pc \notin Checking \cup {"put"} \/ d.pc \in Checking
      PROVE  DiskLocal(d, dsk)
  <2>1. \A i : Awaits(c, i) => Awaits(d, i)
    BY <1>1 DEF Awaits
  <2>2. RunsAlone(d) => RunsAlone(c)
    BY DEF RunsAlone, Alone
  <2>. QED
    BY <1>1, <2>1, <2>2 DEF DiskLocal, Alone
<1>2. ASSUME NEW old, FreshLocal(c, old),
             d.pc \notin Checking \ {"keepfiles"} \/ c.pc \in Checking \ {"keepfiles"}
      PROVE  FreshLocal(d, old)
  <2>1. \A i : Installs(c, i) <=> Installs(d, i)
    BY DEF Installs
  <2>. QED
    BY <1>2, <2>1 DEF FreshLocal, Alone
<1>. QED
  BY <1>1, <1>2

(* A process that goes on staging: what is its own of the two directories  *)
(* is left to show.                                                        *)
LEMMA StagingGoesOn ==
  ASSUME NEW p \in Clones, NEW d \in CloneRecords, NEW r \in {"staged", "payload"}, CloneInv,
         clone[p].pc \in Staging, d.pc \in {"snap", "ship"}, SameTask(clone[p], d),
         Moves(p, d, {r}),
         StandbySame, primary' = primary, budget' = budget, spool' = spool,
         staged' \in Directories, payload' \in Directories, r = "payload" => staged' = staged,
         r = "staged" => payload' = payload,
         StageLocal(d, staged', primary'), PayloadLocal(d, payload')
  PROVE  CloneInv'
<1>. DEFINE c == clone[p]
<1>1. WorldOK' /\ Wrote({r}) /\ {r} \in SUBSET Resources
  BY InvariantOf, GenerationsAre DEF WorldOK, Wrote, StandbySame, Resources
<1>2. Phases(d)
  BY InvariantOf DEF Phases, SameTask, Staging, Checking, Placing, Rolling
<1>3. DiskLocal(d, disk') /\ FreshLocal(d, snaps')
  BY InvariantOf, TaskStays DEF StandbySame, Checking, Staging
<1>4. InstallLocal(d, payload', disk', snaps') /\ RollLocal(d, disk', snaps')
  BY AwayFromTargets DEF Checking, Placing, Rolling
<1>5. LocalIn(d, staged', primary', payload', disk', snaps')
  BY <1>2, <1>3, <1>4 DEF LocalIn
<1>. QED
  BY <1>1, <1>5, GoesOn DEF Staging, SameTask

LEMMA StageClearsKeeps == ASSUME NEW p \in Clones, CloneInv, StageClears(p) PROVE CloneInv'
<1>. DEFINE c == clone[p]
            d == [clone[p] EXCEPT !.pc = "snap", !.left = Parts]
<1>1. c \in CloneRecords /\ c.pc = "stage" /\ WorldOK
  BY InvariantOf DEF StageClears, At
<1>2. d \in CloneRecords /\ SameTask(c, d) /\ d.pc = "snap" /\ d.left = Parts
  BY <1>1 DEF CloneRecords, SameTask, Points, Staging
<1>3. Moves(p, d, {"staged"}) /\ StandbySame /\ primary' = primary /\ budget' = budget
      /\ spool' = spool
      /\ payload' = payload /\ staged' = Empty
  BY DEF StageClears, Ongoing, To, standby, StandbySame
<1>. HIDE DEF d
<1>4. StageLocal(d, staged', primary') /\ PayloadLocal(d, payload')
  BY <1>2, <1>3, InvariantOf DEF StageLocal, PayloadLocal, SameTask, Parts
<1>. QED
  BY <1>1, <1>2, <1>3, <1>4, StagingGoesOn, DirectoriesAre DEF WorldOK, Staging

LEMMA StageStoresKeeps == ASSUME NEW p \in Clones, CloneInv, StageStores(p) PROVE CloneInv'
<1>. DEFINE c == clone[p]
            d == [clone[p] EXCEPT !.left = @ \ {"db"}]
<1>1. c \in CloneRecords /\ c.pc = "snap" /\ WorldOK
  BY InvariantOf DEF StageStores, At
<1>2. StandbySame /\ primary' = primary /\ budget' = budget /\ payload' = payload
      /\ staged' = [staged EXCEPT !.part["db"] = primary]
  BY DEF StageStores, standby, StandbySame
<1>3. staged' \in Directories /\ staged'.part["db"] = primary
  <2>1. primary \in Contents /\ staged \in Directories /\ "db" \in Parts
        /\ staged.part \in [Parts -> Contents]
    BY <1>1 DEF WorldOK, Contents, Directories, Parts
  <2>. QED
    BY <1>2, <2>1, DirectoriesAre
<1>4. CASE Enough(primary)
  <2>1. Moves(p, d, {"staged"}) /\ spool' = spool
    BY <1>4 DEF StageStores, Ongoing
  <2>2. d \in CloneRecords /\ SameTask(c, d) /\ d.pc = "snap"
    BY <1>1 DEF CloneRecords, SameTask
  <2>. HIDE DEF d
  <2>3. primary \in Generations /\ c.since <= primary
    BY <1>1, InvariantOf DEF WorldOK
  <2>4. StageLocal(d, staged', primary') /\ PayloadLocal(d, payload')
    BY <1>2, <1>3, <1>4, <2>2, <2>3 DEF StageLocal, PayloadLocal, SameTask
  <2>. QED
    BY <1>1, <1>2, <1>3, <2>1, <2>2, <2>4, StagingGoesOn DEF WorldOK, Staging
<1>5. CASE ~Enough(primary)
  <2>1. Moves(p, NoClone, {"staged"}) /\ spool' \in {spool, "crit"}
    BY <1>5 DEF StageStores, Failing
  <2>2. WorldOK' /\ Wrote({"staged"}) /\ {"staged"} \in SUBSET Resources /\ Counts
    BY <1>1, <1>2, <1>3, <2>1, GenerationsAre, CountsOn DEF WorldOK, Wrote, StandbySame, Resources
  <2>. QED
    BY <1>1, <1>2, <2>1, <2>2, EndsKeep
<1>. QED
  BY <1>4, <1>5

LEMMA StageFilesKeeps ==
  ASSUME NEW p \in Clones, NEW k \in Parts, CloneInv, StageFiles(p, k)
  PROVE CloneInv'
<1>. DEFINE c == clone[p]
            d == [clone[p] EXCEPT !.left = @ \ {k}]
<1>1. c \in CloneRecords /\ c.pc = "snap" /\ WorldOK /\ "db" \notin c.left /\ k # "db"
  BY InvariantOf DEF StageFiles, At, NextPart
<1>2. Moves(p, d, {"staged"}) /\ StandbySame /\ primary' = primary /\ budget' = budget
      /\ spool' = spool
      /\ payload' = payload /\ staged' = [staged EXCEPT !.part[k] = primary]
  BY DEF StageFiles, Ongoing, standby, StandbySame
<1>3. staged' \in Directories /\ staged'.part["db"] = staged.part["db"]
  <2>1. primary \in Contents /\ staged \in Directories /\ "db" \in Parts
        /\ staged.part \in [Parts -> Contents]
    BY <1>1 DEF WorldOK, Contents, Directories, Parts
  <2>. QED
    BY <1>1, <1>2, <2>1, DirectoriesAre
<1>4. d \in CloneRecords /\ SameTask(c, d) /\ d.pc = "snap"
  BY <1>1 DEF CloneRecords, SameTask
<1>. HIDE DEF d
<1>5. StageLocal(d, staged', primary') /\ PayloadLocal(d, payload')
  BY <1>1, <1>2, <1>3, <1>4, InvariantOf DEF StageLocal, PayloadLocal, SameTask, Alone
<1>. QED
  BY <1>1, <1>2, <1>3, <1>4, <1>5, StagingGoesOn DEF WorldOK, Staging

LEMMA StageManifestKeeps == ASSUME NEW p \in Clones, CloneInv, StageManifest(p) PROVE CloneInv'
<1>. DEFINE c == clone[p]
            d == [clone[p] EXCEPT !.pc = "ship", !.left = Parts \cup {"manifest"}]
<1>1. c \in CloneRecords /\ c.pc = "snap" /\ WorldOK /\ "db" \notin c.left
  BY InvariantOf DEF StageManifest, At
<1>2. Moves(p, d, {"staged"}) /\ StandbySame /\ primary' = primary /\ budget' = budget
      /\ spool' = spool
      /\ payload' = payload /\ staged' = [staged EXCEPT !.manifest = staged.part]
  BY DEF StageManifest, Ongoing, To, standby, StandbySame
<1>3. staged' \in Directories /\ staged'.part = staged.part
  <2>1. staged \in Directories /\ staged.part \in [Parts -> Contents]
    BY <1>1 DEF WorldOK, Directories
  <2>. QED
    BY <1>2, <2>1, DirectoriesAre
<1>4. d \in CloneRecords /\ SameTask(c, d) /\ d.pc = "ship" /\ "db" \in d.left
  BY <1>1 DEF CloneRecords, SameTask, Points, Staging, Parts
<1>. HIDE DEF d
<1>5. StageLocal(d, staged', primary') /\ PayloadLocal(d, payload')
  BY <1>1, <1>2, <1>3, <1>4, InvariantOf DEF StageLocal, PayloadLocal, SameTask, Alone
<1>. QED
  BY <1>1, <1>2, <1>3, <1>4, <1>5, StagingGoesOn DEF WorldOK, Staging

LEMMA ShipKeeps ==
  ASSUME NEW p \in Clones, NEW k \in Parts \cup {"manifest"}, CloneInv, Ship(p, k)
  PROVE CloneInv'
<1>. DEFINE c == clone[p]
            d == [clone[p] EXCEPT !.left = @ \ {k}]
            new == IF clone[p].left = {k} THEN StepDone(p) ELSE d
<1>1. c \in CloneRecords /\ c.pc = "ship" /\ WorldOK /\ k \in c.left
  BY InvariantOf DEF Ship, At
<1>2. Moves(p, new, {"payload"}) /\ StandbySame /\ primary' = primary /\ budget' = budget
      /\ spool' = spool
      /\ staged' = staged
      /\ payload' = IF k = "manifest" THEN [payload EXCEPT !.manifest = staged.manifest]
                    ELSE [payload EXCEPT !.part[k] = staged.part[k]]
  BY DEF Ship, Ongoing, standby, StandbySame
<1>3. staged \in Directories /\ payload \in Directories /\ staged.part \in [Parts -> Contents]
      /\ staged.manifest \in [Parts -> Contents] /\ payload.part \in [Parts -> Contents]
         /\ "db" \in Parts
  BY <1>1 DEF WorldOK, Directories, Parts
<1>4. payload' \in Directories
      /\ payload'.part["db"] = IF k = "db" THEN staged.part["db"] ELSE payload.part["db"]
  <2>1. CASE k = "manifest"
    BY <1>2, <1>3, <2>1, DirectoriesAre
  <2>2. CASE k # "manifest"
    BY <1>2, <1>3, <2>2, DirectoriesAre
  <2>. QED
    BY <2>1, <2>2
<1>5. "db" \notin c.left \ {k} => (RunsAlone(c) => payload'.part["db"] >= c.since)
  <2>1. CASE k = "db"
    BY <1>1, <1>4, <2>1, InvariantOf DEF StageLocal, RunsAlone
  <2>2. CASE k # "db"
    BY <1>1, <1>4, <2>2, InvariantOf DEF PayloadLocal
  <2>. QED
    BY <2>1, <2>2
<1>6. CASE c.left # {k}
  <2>1. d \in CloneRecords /\ SameTask(c, d) /\ d.pc = "ship" /\ d.left = c.left \ {k}
    BY <1>1 DEF CloneRecords, SameTask
  <2>2. new = d
    BY <1>6
  <2>. HIDE DEF d, new
  <2>3. StageLocal(d, staged', primary')
    BY <1>1, <1>2, <2>1, InvariantOf DEF StageLocal, SameTask, Alone
  <2>4. PayloadLocal(d, payload')
    BY <1>5, <2>1 DEF PayloadLocal, SameTask, RunsAlone, Alone
  <2>. QED
    BY <1>1, <1>2, <1>3, <1>4, <2>1, <2>2, <2>3, <2>4, StagingGoesOn DEF WorldOK, Staging
<1>7. CASE c.left = {k}
  <2>1. new = StepDone(p)
    BY <1>7
  <2>2. RunsAlone(c) => \A t \in Targets : Alone(c, t) =>
            \/ \E i \in DOMAIN c.todo : i # 1 /\ c.todo[i].do = "install" /\ c.todo[i].t = t
            \/ disk'[t]["db"] >= c.since
    BY <1>1, <1>2, InvariantOf DEF DiskLocal, Awaits, Checking, StandbySame
  <2>3. Phases(c) /\ FreshLocal(c, snaps') /\ primary' \in Generations /\ c.since <= primary'
        /\ (RunsAlone(c) => payload'.part["db"] >= c.since)
    BY <1>1, <1>2, <1>5, <1>7, InvariantOf DEF StandbySame, WorldOK
  <2>4. StepDone(p) \in CloneRecords /\ StepDone(p).stamp \in {0, c.stamp}
        /\ LocalIn(StepDone(p), staged', primary', payload', disk', snaps')
    BY <1>1, <2>2, <2>3, StepDoneLocal
  <2>5. WorldOK' /\ Wrote({"payload"}) /\ {"payload"} \in SUBSET Resources
    BY <1>1, <1>2, <1>4, GenerationsAre DEF WorldOK, Wrote, StandbySame, Resources
  <2>. QED
    BY <1>1, <1>2, <2>1, <2>4, <2>5, GoesOn
<1>. QED
  BY <1>6, <1>7

-----------------------------------------------------------------------------
(* verify, and the end of a failover                                       *)

(* A step that has not to do with any directory ends well.                 *)
LEMMA StepEnds ==
  ASSUME NEW p \in Clones, CloneInv,
         clone[p].pc \notin {"idle", "report", "stage", "snap", "ship", "put"} \cup Checking,
         primary' = primary, payload' = payload, disk' = disk, snaps' = snaps
  PROVE  /\ StepDone(p) \in CloneRecords /\ StepDone(p).stamp \in {0, clone[p].stamp}
         /\ LocalIn(StepDone(p), staged', primary', payload', disk', snaps')
<1>. DEFINE c == clone[p]
<1>1. RunsAlone(c) => \A t \in Targets : Alone(c, t) =>
            \/ \E i \in DOMAIN c.todo : i # 1 /\ c.todo[i].do = "install" /\ c.todo[i].t = t
            \/ disk'[t]["db"] >= c.since
  BY InvariantOf DEF DiskLocal, Awaits
<1>2. c \in CloneRecords /\ Phases(c) /\ FreshLocal(c, snaps') /\ primary' \in Generations
      /\ c.since <= primary'
        /\ (RunsAlone(c) => payload'.part["db"] >= c.since)
  BY InvariantOf DEF WorldOK, PayloadLocal
<1>. QED
  BY <1>1, <1>2, StepDoneLocal

LEMMA VerifyKeeps == ASSUME NEW p \in Clones, CloneInv, Verify(p) PROVE CloneInv'
<1>1. clone[p].pc = "verify" /\ StandbySame /\ primary' = primary /\ budget' = budget
      /\ staged' = staged
      /\ payload' = payload /\ disk' = disk /\ snaps' = snaps
  BY DEF Verify, At, standby, StandbySame
<1>2. (Moves(p, StepDone(p), {}) /\ spool' = spool) \/ (Moves(p, NoClone, {}) /\ spool' \in {spool, "crit"})
  BY DEF Verify, Ongoing, Failing
<1>3. WorldOK' /\ Wrote({}) /\ {} \in SUBSET Resources /\ Counts
  BY <1>1, <1>2, InvariantOf, GenerationsAre, CountsOn DEF WorldOK, Wrote, StandbySame
<1>4. CASE Moves(p, StepDone(p), {})
  <2>1. StepDone(p) \in CloneRecords /\ StepDone(p).stamp \in {0, clone[p].stamp}
        /\ LocalIn(StepDone(p), staged', primary', payload', disk', snaps')
    BY <1>1, StepEnds DEF Checking
  <2>. QED
    BY <1>1, <1>3, <1>4, <2>1, GoesOn
<1>5. CASE Moves(p, NoClone, {})
  BY <1>1, <1>3, <1>5, EndsKeep
<1>. QED
  BY <1>2, <1>4, <1>5

(* What a step that writes nothing of a target leaves as it was.           *)
LEMMA PromisesStay ==
  CloneInv /\ disk' = disk /\ snaps' = snaps /\ after' = after => AfterOK'
  BY DEF CloneInv, AfterOK, TargetAsTold

LEMMA Concludes ==
  ASSUME NEW p \in Clones, NEW new \in CloneRecords, NEW wrote \in SUBSET Resources, CloneInv,
         Moves(p, new, wrote), Wrote(wrote), WorldOK', AfterOK', UpOK', IngressOK', Numbered',
         LocalIn(new, staged', primary', payload', disk', snaps')
  PROVE  CloneInv'
<1>1. clone' \in [Clones -> CloneRecords] /\ clone'[p] = new /\ OthersTold(p, wrote)
  BY InvariantOf, MovesIs
<1>2. \A q \in Clones : Local(q)'
  BY <1>1, Assembled
<1>. QED
  BY <1>1, <1>2 DEF CloneInv

(* Only what runs is changed.                                              *)
LEMMA UpChanges ==
  ASSUME NEW p \in Clones, NEW new \in CloneRecords, NEW wrote \in SUBSET Resources, CloneInv,
         Moves(p, new, wrote), UNCHANGED <<primary, staged, payload, disk, ingress, snaps, after>>,
         spool' \in {"none", "ok", "crit"}, Counts, up' \subseteq Targets, clone[p].pc # "merge",
         new.stamp \in {0, clone[p].stamp},
         \A t \in up' \ Autostart :
            \/ t \in up /\ ~ (clone[p].pc \in {"drilled", "drilldown"} /\ clone[p].todo[1].t = t)
            \/ t \in budget'.leftUp
            \/ new.pc \in {"drilled", "drilldown"} /\ new.todo[1].t = t,
         LocalIn(new, staged', primary', payload', disk', snaps')
  PROVE  CloneInv'
<1>1. clone' \in [Clones -> CloneRecords] /\ clone'[p] = new /\ OthersTold(p, wrote)
  BY InvariantOf, MovesIs
<1>2. WorldOK' /\ Wrote(wrote)
  BY InvariantOf, GenerationsAre DEF WorldOK, Wrote, Counts, Budgets
<1>3. UpOK'
  BY <1>1, UpStays DEF Counts
<1>4. IngressOK'
  BY <1>1, IngressStays DEF Counts, At
<1>5. AfterOK' /\ Numbered'
  BY <1>1, PromisesStay, NumbersStay
<1>. QED
  BY <1>1, <1>2, <1>3, <1>4, <1>5, Concludes

-----------------------------------------------------------------------------
(* drill and failover                                                      *)

(* Within a drill only what the process knows of the targets is of use.    *)
LEMMA DrillGoesOn ==
  ASSUME NEW p \in Clones, NEW d \in CloneRecords, CloneInv, clone[p].pc \in Drilling,
         d.pc \in Drilling,
         SameTask(clone[p], d), UNCHANGED <<primary, staged, payload, disk, snaps>>
  PROVE  LocalIn(d, staged', primary', payload', disk', snaps')
<1>1. Phases(d)
  BY InvariantOf DEF Phases, SameTask, Drilling, Staging, Checking, Placing, Rolling
<1>2. StageLocal(d, staged', primary') /\ PayloadLocal(d, payload')
  BY InvariantOf DEF StageLocal, PayloadLocal, SameTask, RunsAlone, Alone, Drilling
<1>3. DiskLocal(d, disk') /\ FreshLocal(d, snaps')
  BY InvariantOf, TaskStays DEF Checking, Drilling
<1>4. InstallLocal(d, payload', disk', snaps') /\ RollLocal(d, disk', snaps')
  BY AwayFromTargets DEF Checking, Placing, Rolling, Drilling
<1>. QED
  BY <1>1, <1>2, <1>3, <1>4 DEF LocalIn

LEMMA DrillUpKeeps == ASSUME NEW p \in Clones, CloneInv, DrillUp(p) PROVE CloneInv'
<1>. DEFINE c == clone[p]
            d == [clone[p] EXCEPT !.pc = "drilled"]
<1>1. c \in CloneRecords /\ c.pc = "drillup"
  BY InvariantOf DEF DrillUp, At
<1>2. d \in CloneRecords /\ SameTask(c, d) /\ d.pc = "drilled" /\ d.todo = c.todo
  BY <1>1 DEF CloneRecords, SameTask, Points, Drilling
<1>3. Moves(p, d, {}) /\ spool' = spool
      /\ UNCHANGED <<primary, staged, payload, disk, ingress, snaps, after>>
  BY DEF DrillUp, Ongoing, To
<1>. HIDE DEF d
<1>4. LocalIn(d, staged', primary', payload', disk', snaps')
  BY <1>1, <1>2, <1>3, DrillGoesOn DEF Drilling
<1>5. Doing(p) = c.todo[1].t /\ Doing(p) \in Targets
  BY <1>1, AtTarget
<1>6. Counts /\ up' \subseteq Targets /\ up' \subseteq up \cup {Doing(p)}
  BY <1>1, <1>5, InvariantOf, CountsOn, TroubledIs DEF DrillUp, WorldOK
<1>7. {} \in SUBSET Resources /\ spool \in {"none", "ok", "crit"}
  BY InvariantOf DEF WorldOK
<1>8. ASSUME NEW t \in up' \ Autostart
      PROVE  t \in up \/ d.todo[1].t = t
  BY <1>2, <1>5, <1>6
<1>. QED
  BY <1>1, <1>2, <1>3, <1>4, <1>6, <1>7, <1>8, UpChanges DEF SameTask

LEMMA DrillVerifiesKeeps == ASSUME NEW p \in Clones, CloneInv, DrillVerifies(p) PROVE CloneInv'
<1>. DEFINE c == clone[p]
<1>1. c \in CloneRecords /\ c.pc = "drilled"
  BY InvariantOf DEF DrillVerifies, At
<1>2. PICK faithful \in Verdicts(Doing(p)) :
        Ongoing(p, [To(p, "drilldown") EXCEPT !.left = IF faithful THEN {} ELSE Parts], {})
  BY DEF DrillVerifies
<1>. DEFINE d == [clone[p] EXCEPT !.pc = "drilldown", !.left = IF faithful THEN {} ELSE Parts]
<1>3. d \in CloneRecords /\ SameTask(c, d) /\ d.pc = "drilldown" /\ d.todo = c.todo
  BY <1>1 DEF CloneRecords, SameTask, Points, Drilling
<1>4. Moves(p, d, {}) /\ spool' = spool
      /\ UNCHANGED <<primary, staged, payload, disk, ingress, snaps, after>>
      /\ up' = up /\ budget' = budget
  BY <1>2 DEF DrillVerifies, Ongoing, To, standby
<1>. HIDE DEF d
<1>5. LocalIn(d, staged', primary', payload', disk', snaps')
  BY <1>1, <1>3, <1>4, DrillGoesOn DEF Drilling
<1>6. Counts /\ up' \subseteq Targets /\ {} \in SUBSET Resources /\ spool \in {"none", "ok", "crit"}
  BY <1>4, InvariantOf, CountsOn DEF WorldOK
<1>. QED
  BY <1>1, <1>3, <1>4, <1>5, <1>6, UpChanges DEF SameTask

(* What a `docker compose down` leaves running, it leaves on record.       *)
LEMMA ComposeDownIs ==
  ASSUME NEW p \in Clones, CloneInv, clone[p].pc \notin {"idle", "report"},
         ComposeDown(p, up \ {Doing(p)})
  PROVE  /\ Counts /\ up' \subseteq up
         /\ clone[p].pc \in {"drilled", "drilldown"} /\ Doing(p) \in up' => Doing(p) \in budget'.leftUp
<1>. DEFINE t == Doing(p)
<1>1. budget \in Budgets /\ t \in Targets /\ t = clone[p].todo[1].t
  BY AtTarget DEF CloneInv, WorldOK
<1>2. budget.failures \in Nat /\ budget.runs \in Nat /\ budget.commands \in Nat
  BY <1>1 DEF Budgets
<1>3. CASE /\ up' = up \ {t}
           /\ budget' = [budget EXCEPT !.leftUp = @ \ {t}, !.stale = @ \ {t}]
  <2>1. /\ budget' \in Budgets /\ budget'.failures = budget.failures
        /\ budget'.runs = budget.runs /\ budget'.commands = budget.commands
        /\ budget'.leftUp = budget.leftUp \ {t}
    BY <1>1, <1>3 DEF Budgets
  <2>. QED
    BY <1>2, <1>3, <2>1 DEF Counts
<1>4. CASE budget' = [Troubled(p) EXCEPT !.stale = @ \cup ({t} \cap up)] /\ up' = up
  <2>. DEFINE b == Troubled(p)
              stale == b.stale \cup ({t} \cap up)
              c == [b EXCEPT !.stale = stale]
  <2>1. /\ b \in Budgets /\ b.failures = budget.failures + 1
        /\ b.runs = budget.runs /\ b.commands = budget.commands
        /\ budget.leftUp \subseteq b.leftUp
        /\ (clone[p].pc \in {"drilled", "drilldown"} => t \in b.leftUp)
    BY TroubledHas
  <2>2. budget' = c
    BY <1>4
  <2>. HIDE DEF b
  <2>3. stale \in SUBSET Targets
    BY <1>1, <2>1 DEF Budgets
  <2>. HIDE DEF stale
  <2>4. c \in Budgets /\ c.failures = b.failures /\ c.leftUp = b.leftUp /\ c.runs = b.runs
        /\ c.commands = b.commands
    BY <2>1, <2>3 DEF Budgets
  <2>5. up' = up
    BY <1>4
  <2>. HIDE DEF c, t
  <2>6. budget' \in Budgets /\ budget'.failures = budget.failures + 1 /\ budget'.leftUp = b.leftUp
        /\ budget'.runs = budget.runs /\ budget'.commands = budget.commands
    BY <2>1, <2>2, <2>4
  <2>7. Counts
    BY <1>2, <2>1, <2>5, <2>6 DEF Counts
  <2>. QED
    BY <2>1, <2>5, <2>6, <2>7 DEF t
<1>. QED
  BY <1>3, <1>4 DEF ComposeDown

LEMMA DrillDownKeeps == ASSUME NEW p \in Clones, CloneInv, DrillDown(p) PROVE CloneInv'
<1>. DEFINE c == clone[p]
<1>1. c \in CloneRecords /\ c.pc = "drilldown"
  BY InvariantOf DEF DrillDown, At
<1>2. UNCHANGED <<primary, staged, payload, disk, ingress, snaps, after>>
  BY DEF DrillDown
<1>3. Doing(p) = c.todo[1].t
  BY <1>1, AtTarget
<1>4. Counts /\ up' \subseteq up /\ (Doing(p) \in up' => Doing(p) \in budget'.leftUp)
  BY <1>1, ComposeDownIs DEF DrillDown, DrillLeaves
<1>5. up' \subseteq Targets /\ {} \in SUBSET Resources /\ spool \in {"none", "ok", "crit"}
  BY <1>4, InvariantOf DEF WorldOK
<1>6. CASE Moves(p, StepDone(p), {}) /\ spool' = spool
  <2>1. StepDone(p) \in CloneRecords /\ StepDone(p).stamp \in {0, c.stamp}
        /\ LocalIn(StepDone(p), staged', primary', payload', disk', snaps')
    BY <1>1, <1>2, StepEnds DEF Checking
  <2>. QED
    BY <1>1, <1>2, <1>3, <1>4, <1>5, <1>6, <2>1, UpChanges
<1>7. CASE Moves(p, NoClone, {}) /\ spool' \in {spool, "crit"}
  <2>1. NoClone \in CloneRecords /\ NoClone.stamp = 0
        /\ LocalIn(NoClone, staged', primary', payload', disk', snaps')
    BY <1>2, InvariantOf, NoCloneIs DEF WorldOK
  <2>. QED
    BY <1>1, <1>2, <1>3, <1>4, <1>5, <1>7, <2>1, UpChanges
<1>. QED
  BY <1>6, <1>7 DEF DrillDown, Ongoing, Failing

LEMMA FailoverKeeps == ASSUME NEW p \in Clones, CloneInv, Failover(p) PROVE CloneInv'
<1>. DEFINE c == clone[p]
<1>1. c \in CloneRecords /\ c.pc = "failover"
  BY InvariantOf DEF Failover, At
<1>2. UNCHANGED <<primary, staged, payload, disk, ingress, snaps, after>>
      /\ Moves(p, StepDone(p), {}) /\ spool' = spool
  BY DEF Failover, Ongoing
<1>3. Counts /\ budget'.leftUp = budget.leftUp \cup {Doing(p)}
  <2>1. budget \in Budgets /\ budget' = [budget EXCEPT !.leftUp = @ \cup {Doing(p)}]
        /\ Doing(p) \in Targets
    BY <1>1, AtTarget DEF Failover, CloneInv, WorldOK
  <2>2. budget.runs \in Nat /\ budget.commands \in Nat /\ budget.failures \in Nat
    BY <2>1 DEF Budgets
  <2>3. budget' \in Budgets /\ budget'.runs = budget.runs /\ budget'.commands = budget.commands
        /\ budget'.failures = budget.failures
    BY <2>1 DEF Budgets
  <2>4. budget'.leftUp = budget.leftUp \cup {Doing(p)}
    BY <2>1 DEF Budgets
  <2>. QED
    BY <2>2, <2>3, <2>4 DEF Counts
<1>4. up' \subseteq Targets /\ {} \in SUBSET Resources /\ spool \in {"none", "ok", "crit"}
  BY <1>1, AtTarget, InvariantOf DEF WorldOK, Failover
<1>5. StepDone(p) \in CloneRecords /\ StepDone(p).stamp \in {0, c.stamp}
      /\ LocalIn(StepDone(p), staged', primary', payload', disk', snaps')
  BY <1>1, <1>2, StepEnds DEF Checking
<1>6. up' = up \cup {Doing(p)}
  BY DEF Failover
<1>. QED
  BY <1>1, <1>2, <1>3, <1>4, <1>5, <1>6, UpChanges

-----------------------------------------------------------------------------
(* install                                                                 *)

(* What a process that installs shares with its next step.                 *)
LEMMA InstallGoesOn ==
  ASSUME NEW p \in Clones, NEW d \in CloneRecords, CloneInv, SameTask(clone[p], d),
         clone[p].pc \in Checking \cup Placing, d.pc \in Checking \cup Placing,
         primary' = primary, payload' = payload, staged' = staged,
         d.pc \in Checking => clone[p].pc \in Checking,
         DiskLocal(d, disk'), FreshLocal(d, snaps'), InstallLocal(d, payload', disk', snaps')
  PROVE  LocalIn(d, staged', primary', payload', disk', snaps')
<1>1. Phases(d)
  BY InvariantOf DEF Phases, SameTask, Staging, Checking, Placing, Rolling
<1>2. StageLocal(d, staged', primary') /\ PayloadLocal(d, payload')
  BY InvariantOf DEF StageLocal, PayloadLocal, SameTask, RunsAlone, Alone, Checking, Placing
<1>3. RollLocal(d, disk', snaps')
  BY DEF RollLocal, Rolling, Checking, Placing
<1>. QED
  BY <1>1, <1>2, <1>3 DEF LocalIn

LEMMA InstallChecksKeeps == ASSUME NEW p \in Clones, CloneInv, InstallChecks(p) PROVE CloneInv'
<1>. DEFINE c == clone[p]
            d == [clone[p] EXCEPT !.pc = "down", !.want = payload.manifest]
<1>1. c \in CloneRecords /\ c.pc = "check" /\ WorldOK
  BY InvariantOf DEF InstallChecks, At
<1>2. UNCHANGED <<primary, staged, payload>> /\ StandbySame /\ budget' = budget
  BY DEF InstallChecks, standby, StandbySame
<1>3. payload.manifest \in [Parts -> Contents] /\ payload.part \in [Parts -> Contents]
  BY <1>1 DEF WorldOK, Directories
<1>4. CASE Undamaged
  <2>1. Moves(p, d, {}) /\ spool' = spool
    BY <1>4 DEF InstallChecks, Ongoing, To
  <2>2. d \in CloneRecords /\ SameTask(c, d) /\ d.pc = "down" /\ d.want = payload.manifest
    BY <1>1, <1>3 DEF CloneRecords, SameTask, Points, Checking
  <2>3. payload.part = payload.manifest
    BY <1>3, <1>4 DEF Undamaged
  <2>. HIDE DEF d
  <2>4. DiskLocal(d, disk') /\ FreshLocal(d, snaps')
    BY <1>1, <1>2, <2>2, InvariantOf, TaskStays DEF StandbySame, Checking
  <2>5. InstallLocal(d, payload', disk', snaps')
    BY <1>2, <2>2, <2>3 DEF InstallLocal, Checking, Placing
  <2>6. LocalIn(d, staged', primary', payload', disk', snaps')
    BY <1>1, <1>2, <2>2, <2>4, <2>5, InstallGoesOn DEF Checking
  <2>7. WorldOK' /\ Wrote({}) /\ {} \in SUBSET Resources
    BY <1>1, <1>2, <2>1, GenerationsAre DEF WorldOK, Wrote, StandbySame
  <2>. QED
    BY <1>1, <1>2, <2>1, <2>2, <2>6, <2>7, GoesOn DEF SameTask
<1>5. CASE ~Undamaged
  <2>1. Moves(p, NoClone, {}) /\ spool' \in {spool, "crit"}
    BY <1>5 DEF InstallChecks, Failing
  <2>2. WorldOK' /\ Wrote({}) /\ {} \in SUBSET Resources /\ Counts
    BY <1>1, <1>2, <2>1, GenerationsAre, CountsOn DEF WorldOK, Wrote, StandbySame
  <2>. QED
    BY <1>1, <1>2, <2>1, <2>2, EndsKeep
<1>. QED
  BY <1>4, <1>5

LEMMA InstallDownKeeps == ASSUME NEW p \in Clones, CloneInv, InstallDown(p) PROVE CloneInv'
<1>. DEFINE c == clone[p]
            d == [clone[p] EXCEPT !.pc = "keep"]
<1>1. c \in CloneRecords /\ c.pc = "down" /\ WorldOK
  BY InvariantOf DEF InstallDown, At
<1>2. UNCHANGED <<primary, staged, payload, disk, ingress, snaps, after>> /\ spool' = spool
      /\ Moves(p, d, {Doing(p)}) /\ ComposeDown(p, up \ {Doing(p)})
  BY DEF InstallDown, Ongoing, To
<1>3. d \in CloneRecords /\ SameTask(c, d) /\ d.pc = "keep" /\ d.want = c.want
  BY <1>1 DEF CloneRecords, SameTask, Points, Checking
<1>. HIDE DEF d
<1>4. DiskLocal(d, disk') /\ FreshLocal(d, snaps')
  BY <1>1, <1>2, <1>3, InvariantOf, TaskStays DEF Checking
<1>5. InstallLocal(d, payload', disk', snaps')
  BY <1>1, <1>2, <1>3, InvariantOf DEF InstallLocal, Checking, Placing, SameTask, Alone
<1>6. LocalIn(d, staged', primary', payload', disk', snaps')
  BY <1>1, <1>2, <1>3, <1>4, <1>5, InstallGoesOn DEF Checking
<1>7. {Doing(p)} \in SUBSET Resources /\ Counts /\ spool \in {"none", "ok", "crit"}
      /\ up' \subseteq Targets /\ up' \subseteq up
  BY <1>1, <1>2, AtTarget, ComposeDownIs DEF WorldOK
<1>. QED
  BY <1>1, <1>2, <1>3, <1>6, <1>7, UpChanges DEF SameTask

(* Traefik is stopped for the merge and started after it.                  *)
LEMMA PlacingGoesOn ==
  ASSUME NEW p \in Clones, NEW d \in CloneRecords, CloneInv, SameTask(clone[p], d),
         d.left = clone[p].left,
         d.before = clone[p].before, d.want = clone[p].want,
         clone[p].pc \in Placing \ {"put"}, d.pc \in Placing \ {"put"},
         UNCHANGED <<primary, staged, payload, disk, snaps>>
  PROVE  LocalIn(d, staged', primary', payload', disk', snaps')
<1>1. DiskLocal(d, disk') /\ FreshLocal(d, snaps')
  BY InvariantOf, TaskStays DEF Checking, Placing
<1>2. InstallLocal(d, payload', disk', snaps')
  <2>. DEFINE c == clone[p]
              t == c.todo[1].t
  <2>1. \A r : Alone(d, r) <=> Alone(c, r)
    BY DEF SameTask, Alone
  <2>2. /\ c.left = {} /\ (Alone(c, "payload") => payload.part = c.want)
        /\ Alone(c, t) /\ Alone(c, "payload") => \A k \in Parts \ c.left : disk[t][k] = c.want[k]
        /\ Alone(c, t) => Backed(snaps[t], c.stamp, c.before)
    BY InvariantOf DEF InstallLocal, Placing
  <2>3. d.todo[1].t = t /\ d.stamp = c.stamp /\ d.pc \notin {"put", "keepfiles"}
    BY DEF SameTask, Placing
  <2>. HIDE DEF c, t
  <2>. QED
    BY <2>1, <2>2, <2>3 DEF InstallLocal, c
<1>. QED
  BY <1>1, <1>2, InstallGoesOn DEF Checking, Placing

LEMMA AcmeStopsKeeps == ASSUME NEW p \in Clones, CloneInv, AcmeStops(p) PROVE CloneInv'
<1>. DEFINE c == clone[p]
            d == [clone[p] EXCEPT !.pc = "merge"]
<1>1. c \in CloneRecords /\ c.pc = "acme" /\ WorldOK
  BY InvariantOf DEF AcmeStops, At
<1>2. UNCHANGED <<primary, staged, payload, disk, up, snaps, after>> /\ spool' = spool
      /\ Moves(p, d, {}) /\ ingress' \in {FALSE, ingress}
  BY DEF AcmeStops, Ongoing, To
<1>3. d \in CloneRecords /\ SameTask(c, d) /\ d.pc = "merge" /\ d.want = c.want /\ d.left = c.left
      /\ d.before = c.before
  BY <1>1 DEF CloneRecords, SameTask, Points, Placing
<1>. HIDE DEF d
<1>4. LocalIn(d, staged', primary', payload', disk', snaps')
  BY <1>1, <1>2, <1>3, PlacingGoesOn DEF Placing
<1>5. WorldOK' /\ Wrote({}) /\ {} \in SUBSET Resources /\ Counts
  <2>1. ingress' \in BOOLEAN
    BY <1>1, <1>2 DEF WorldOK
  <2>2. Counts
    BY <1>1, CountsOn, TroubledIs DEF AcmeStops
  <2>3. budget' \in Budgets
    BY <2>2 DEF Counts
  <2>. QED
    BY <1>1, <1>2, <2>1, <2>2, <2>3, GenerationsAre DEF WorldOK, Wrote
<1>6. clone'[p] = d /\ OthersTold(p, {})
  BY <1>2, <1>3, <1>5, InvariantOf, MovesIs
<1>7. UpOK'
  BY <1>1, <1>2, <1>5, <1>6, UpStays DEF Counts
<1>8. IngressOK' /\ AfterOK' /\ Numbered'
  BY <1>2, <1>3, <1>5, <1>6, PromisesStay, NumbersStay DEF IngressOK, At, SameTask
<1>. QED
  BY <1>2, <1>3, <1>4, <1>5, <1>7, <1>8, Concludes

LEMMA AcmeMergesKeeps == ASSUME NEW p \in Clones, CloneInv, AcmeMerges(p) PROVE CloneInv'
<1>. DEFINE c == clone[p]
            d == [clone[p] EXCEPT !.pc = "start"]
<1>1. c \in CloneRecords /\ c.pc = "merge" /\ WorldOK
  BY InvariantOf DEF AcmeMerges, At
<1>2. UNCHANGED <<primary, staged, payload, disk, up, snaps, after>> /\ budget' = budget
      /\ spool' = spool
      /\ Moves(p, d, {}) /\ ingress' = TRUE
  BY DEF AcmeMerges, Ongoing, To
<1>3. d \in CloneRecords /\ SameTask(c, d) /\ d.pc = "start" /\ d.want = c.want /\ d.left = c.left
      /\ d.before = c.before
  BY <1>1 DEF CloneRecords, SameTask, Points, Placing
<1>. HIDE DEF d
<1>4. LocalIn(d, staged', primary', payload', disk', snaps')
  BY <1>1, <1>2, <1>3, PlacingGoesOn DEF Placing
<1>5. WorldOK' /\ Wrote({}) /\ {} \in SUBSET Resources /\ Counts
  <2>1. ingress' \in BOOLEAN
    BY <1>2, Zenon
  <2>. QED
    BY <1>1, <1>2, <2>1, CountsOn, GenerationsAre DEF WorldOK, Wrote
<1>6. clone'[p] = d /\ OthersTold(p, {})
  BY <1>2, <1>3, <1>5, InvariantOf, MovesIs
<1>7. UpOK'
  BY <1>1, <1>2, <1>5, <1>6, UpStays DEF Counts
<1>8. IngressOK' /\ AfterOK' /\ Numbered'
  BY <1>2, <1>3, <1>5, <1>6, PromisesStay, NumbersStay DEF IngressOK, SameTask
<1>. QED
  BY <1>2, <1>3, <1>4, <1>5, <1>7, <1>8, Concludes

(* Two sequences, one after the other.                                     *)
LEMMA JoinedIs ==
  ASSUME NEW S, NEW s \in Seq(S), NEW e \in Seq(S)
  PROVE  /\ s \o e \in Seq(S) /\ Len(s \o e) = Len(s) + Len(e)
         /\ \A i \in DOMAIN (s \o e) :
              IF i \in DOMAIN s THEN (s \o e)[i] = s[i]
              ELSE i - Len(s) \in DOMAIN e /\ (s \o e)[i] = e[i - Len(s)]
<1>. DEFINE all == s \o e
            m == Len(s)
            n == Len(e)
<1>1. /\ all \in Seq(S) /\ Len(all) = Len(s) + Len(e)
      /\ \A i \in 1..(Len(s) + Len(e)) : all[i] = IF i <= Len(s) THEN s[i] ELSE e[i - Len(s)]
  BY ConcatProperties, Zenon
<1>. HIDE DEF all
<1>2. /\ Len(s) \in Nat /\ Len(e) \in Nat /\ DOMAIN all = 1..(Len(s) + Len(e))
      /\ DOMAIN s = 1..Len(s) /\ DOMAIN e = 1..Len(e)
  BY <1>1, LenProperties
<1>. HIDE DEF m, n
<1>3. ASSUME NEW i \in DOMAIN all
      PROVE  IF i \in DOMAIN s THEN all[i] = s[i] ELSE i - m \in DOMAIN e /\ all[i] = e[i - m]
  BY <1>1, <1>2, <1>3 DEF m, n
<1>. QED
  BY <1>1, <1>3 DEF all, m

(* Snapshots that are put before the others, taken out, and pruned.        *)
LEMMA PushedIs ==
  ASSUME NEW s \in Snapshots, NEW old \in Seq(Snapshots)
  PROVE  /\ <<s>> \o old \in Seq(Snapshots) /\ (<<s>> \o old)[1] = s
         /\ \A i \in DOMAIN (<<s>> \o old) : i # 1 => i - 1 \in DOMAIN old
                /\ (<<s>> \o old)[i] = old[i - 1]
<1>. DEFINE one == <<s>>
            all == one \o old
<1>1. one \in Seq(Snapshots) /\ Len(one) = 1 /\ one[1] = s
  OBVIOUS
<1>. HIDE DEF one
<1>2. /\ all \in Seq(Snapshots) /\ Len(all) = Len(one) + Len(old)
      /\ \A i \in DOMAIN all : IF i \in DOMAIN one THEN all[i] = one[i]
                               ELSE i - Len(one) \in DOMAIN old /\ all[i] = old[i - Len(one)]
  BY <1>1, JoinedIs, Zenon
<1>. HIDE DEF all
<1>3. DOMAIN one = {1} /\ Len(old) \in Nat /\ DOMAIN all = 1..Len(all) /\ 1 \in DOMAIN all
  BY <1>1, <1>2, LenProperties
<1>4. \A i \in DOMAIN all : i # 1 => i - 1 \in DOMAIN old /\ all[i] = old[i - 1]
  BY <1>1, <1>2, <1>3
<1>5. all[1] = s
  BY <1>1, <1>2, <1>3
<1>. QED
  BY <1>2, <1>4, <1>5 DEF all, one

LEMMA RemovedIs ==
  ASSUME NEW old \in Seq(Snapshots), NEW i \in DOMAIN old
  PROVE  /\ RemoveAt(old, i) \in Seq(Snapshots)
         /\ \A n \in DOMAIN RemoveAt(old, i) : \E m \in DOMAIN old \ {i} : RemoveAt(old, i)[n] = old[m]
<1>. DEFINE a == SubSeq(old, 1, i - 1)
            b == SubSeq(old, i + 1, Len(old))
<1>1. Len(old) \in Nat /\ DOMAIN old = 1..Len(old) /\ i \in 1..Len(old)
      /\ \A n \in 1..Len(old) : old[n] \in Snapshots
  BY LenProperties, ElementOfSeq
<1>2. /\ a \in Seq(Snapshots) /\ Len(a) = i - 1 /\ \A n \in 1..Len(a) : a[n] = old[n]
  <2>1. \A n \in 1..(i - 1) : old[n] \in Snapshots
    BY <1>1
  <2>2. /\ a \in Seq(Snapshots) /\ Len(a) = IF 1 <= i - 1 THEN i - 1 - 1 + 1 ELSE 0
        /\ \A n \in 1..(i - 1 - 1 + 1) : a[n] = old[1 + n - 1]
    BY <1>1, <2>1, SubSeqProperties
  <2>. HIDE DEF a
  <2>. QED
    BY <1>1, <2>2
<1>3. /\ b \in Seq(Snapshots) /\ Len(b) = Len(old) - i /\ \A n \in 1..Len(b) : b[n] = old[i + n]
  <2>1. \A n \in (i + 1)..Len(old) : old[n] \in Snapshots
    BY <1>1
  <2>2. /\ b \in Seq(Snapshots) /\ Len(b) = IF i + 1 <= Len(old) THEN Len(old) - (i + 1) + 1 ELSE 0
        /\ \A n \in 1..(Len(old) - (i + 1) + 1) : b[n] = old[(i + 1) + n - 1]
    BY <1>1, <2>1, SubSeqProperties
  <2>. HIDE DEF b
  <2>. QED
    BY <1>1, <2>2
<1>. HIDE DEF a, b
<1>. DEFINE all == a \o b
<1>4. /\ all \in Seq(Snapshots)
      /\ \A n \in DOMAIN all : IF n \in DOMAIN a THEN all[n] = a[n]
                               ELSE n - Len(a) \in DOMAIN b /\ all[n] = b[n - Len(a)]
  BY <1>2, <1>3, JoinedIs, Zenon
<1>. HIDE DEF all
<1>5. ASSUME NEW n \in DOMAIN all
      PROVE  \E m \in DOMAIN old \ {i} : all[n] = old[m]
  <2>1. n \in Int /\ DOMAIN a = 1..(i - 1) /\ DOMAIN b = 1..(Len(old) - i)
    BY <1>2, <1>3, <1>4, <1>5, LenProperties
  <2>2. CASE n \in DOMAIN a
    BY <1>1, <1>2, <1>4, <2>1, <2>2
  <2>3. CASE n \notin DOMAIN a
    <3>. DEFINE m == n - (i - 1)
    <3>1. m \in DOMAIN b /\ all[n] = b[m]
      BY <1>2, <1>4, <2>3
    <3>. HIDE DEF m
    <3>2. all[n] = old[i + m] /\ i + m \in DOMAIN old /\ i + m # i
      BY <1>1, <1>3, <2>1, <3>1
    <3>. QED
      BY <3>2
  <2>. QED
    BY <2>2, <2>3
<1>6. RemoveAt(old, i) = all
  BY DEF RemoveAt, all, a, b
<1>. QED
  BY <1>4, <1>5, <1>6 DEF all

LEMMA PrunedIs ==
  ASSUME NEW s \in Seq(Snapshots)
  PROVE  Pruned(s) \in Seq(Snapshots) /\ \A n \in DOMAIN Pruned(s) : n \in DOMAIN s
                                             /\ Pruned(s)[n] = s[n]
<1>1. Len(s) \in Nat /\ DOMAIN s = 1..Len(s) /\ \A n \in 1..Len(s) : s[n] \in Snapshots
  BY LenProperties, ElementOfSeq
<1>2. CASE Len(s) > KeepSnapshots
  <2>. DEFINE a == SubSeq(s, 1, KeepSnapshots)
  <2>1. \A n \in 1..KeepSnapshots : s[n] \in Snapshots
    BY <1>1, <1>2, CloneConstants
  <2>2. /\ a \in Seq(Snapshots) /\ Len(a) = IF 1 <= KeepSnapshots THEN KeepSnapshots - 1 + 1 ELSE 0
        /\ \A n \in 1..(KeepSnapshots - 1 + 1) : a[n] = s[1 + n - 1]
    BY <2>1, CloneConstants, SubSeqProperties
  <2>. HIDE DEF a
  <2>3. DOMAIN a = 1..Len(a)
    BY <2>2, LenProperties
  <2>4. \A n \in DOMAIN a : n \in DOMAIN s /\ a[n] = s[n]
    BY <1>1, <1>2, <2>2, <2>3, CloneConstants
  <2>5. Pruned(s) = a
    BY <1>2 DEF Pruned, a
  <2>. QED
    BY <2>2, <2>4, <2>5
<1>3. CASE ~ Len(s) > KeepSnapshots
  BY <1>3 DEF Pruned
<1>. QED
  BY <1>2, <1>3

(* A step that writes one target, and lets run what runs.                  *)
OnlyAt(t) ==
  /\ disk' \in [Targets -> [Parts -> Contents]] /\ snaps' \in [Targets -> Seq(Snapshots)]
  /\ after' \in [Targets -> Promises]
  /\ \A u \in Targets \ {t} : disk'[u] = disk[u] /\ snaps'[u] = snaps[u] /\ after'[u] = after[u]
  /\ \A i \in DOMAIN snaps'[t] : snaps'[t][i].stamp <= budget.runs + budget.commands

KeptAt(t) ==
  /\ after'[t].by = "install" => disk'[t] = after'[t].holds /\ after'[t].before = NoParts
  /\ after'[t].by = "rollback" =>
       \A k \in Kept : after'[t].holds[k] # Absent => disk'[t][k] = after'[t].holds[k]

LEMMA TargetWritten ==
  ASSUME NEW p \in Clones, NEW new \in CloneRecords, NEW t \in Targets,
         NEW wrote \in SUBSET Resources, CloneInv,
         Moves(p, new, wrote), t \in wrote,
         primary' = primary, staged' = staged, payload' = payload, up' = up, ingress' = ingress,
         spool' = spool,
         budget' = budget,
         OnlyAt(t), KeptAt(t),
         clone[p].pc \notin {"drilled", "drilldown", "merge"}, new.stamp = clone[p].stamp,
         LocalIn(new, staged', primary', payload', disk', snaps')
  PROVE  CloneInv'
<1>2. clone' \in [Clones -> CloneRecords] /\ clone'[p] = new /\ OthersTold(p, wrote)
  BY InvariantOf, MovesIs
<1>3. WorldOK' /\ Wrote(wrote)
  BY InvariantOf, GenerationsAre DEF WorldOK, Wrote, OnlyAt
<1>4. Counts
  BY CountsOn
<1>5. UpOK'
  BY <1>2, <1>4, UpStays DEF Counts
<1>6. IngressOK'
  BY <1>2, <1>4, IngressStays DEF Counts, At
<1>7. Numbered'
  <2>1. \A q \in Clones : clone'[q].stamp <= budget.runs + budget.commands
    BY <1>2 DEF OthersTold, Told, CloneInv, Numbered
  <2>2. \A u \in Targets : \A i \in DOMAIN snaps'[u] : snaps'[u][i].stamp <= budget.runs + budget.commands
    BY DEF CloneInv, Numbered, OnlyAt
  <2>. QED
    BY <2>1, <2>2 DEF Numbered
<1>8. AfterOK'
  <2>1. ASSUME NEW u \in Targets
        PROVE  /\ after'[u].by = "install" => disk'[u] = after'[u].holds
               /\ after'[u].by = "rollback" =>
                    \A k \in Kept : after'[u].holds[k] # Absent => disk'[u][k] = after'[u].holds[k]
               /\ after'[u].by = "install" =>
                    \/ after'[u].before = NoParts \/ snaps'[u] = <<>>
                    \/ Backed(snaps'[u], snaps'[u][1].stamp, after'[u].before)
    <3>1. CASE u = t
      BY <3>1 DEF KeptAt
    <3>2. CASE u # t
      <4>1. disk'[u] = disk[u] /\ snaps'[u] = snaps[u] /\ after'[u] = after[u]
        BY <3>2 DEF OnlyAt
      <4>. QED
        BY <4>1 DEF CloneInv, AfterOK, TargetAsTold
    <3>. QED
      BY <3>1, <3>2
  <2>. QED
    BY <2>1 DEF AfterOK, TargetAsTold
<1>. QED
  BY <1>2, <1>3, <1>5, <1>6, <1>7, <1>8, Concludes

(* The snapshots of the other targets that a process still has to install. *)
LEMMA FreshElsewhere ==
  ASSUME NEW c \in CloneRecords, NEW d \in CloneRecords, NEW old, NEW new, SameTask(c, d),
         FreshLocal(c, old), Installs(c, 1),
         d.pc \notin Checking \ {"keepfiles"},
         \A u \in Targets \ {c.todo[1].t} : new[u] = old[u]
  PROVE  FreshLocal(d, new)
<1>1. \A i : Installs(c, i) <=> Installs(d, i)
  BY DEF Installs, SameTask
<1>2. ASSUME NEW i \in DOMAIN c.todo, Installs(c, i), i # 1
      PROVE  new[c.todo[i].t] = old[c.todo[i].t]
  <2>1. c.todo[i].t \in Targets /\ c.todo[i].t # c.todo[1].t
    BY <1>2, TodoIs DEF FreshLocal, Installs
  <2>. QED
    BY <2>1
<1>3. ASSUME NEW i \in DOMAIN d.todo, Installs(d, i), i = 1 => d.pc \in Checking \ {"keepfiles"},
             Alone(d, d.todo[i].t),
             NEW n \in DOMAIN new[d.todo[i].t]
      PROVE  new[d.todo[i].t][n].stamp # d.stamp
  <2>1. i # 1 /\ Installs(c, i) /\ d.todo = c.todo /\ d.stamp = c.stamp /\ Alone(c, c.todo[i].t)
    BY <1>1, <1>3 DEF SameTask, Alone
  <2>2. new[c.todo[i].t] = old[c.todo[i].t]
    BY <1>2, <2>1 DEF Installs
  <2>. QED
    BY <1>3, <2>1, <2>2 DEF FreshLocal
<1>. QED
  BY <1>1, <1>3 DEF FreshLocal, SameTask

LEMMA UnbackedIs ==
  ASSUME NEW t \in Targets, CloneInv, after' = Unbacked(t)
  PROVE  /\ after' \in [Targets -> Promises] /\ \A u \in Targets \ {t} : after'[u] = after[u]
         /\ after'[t].by = after[t].by /\ after'[t].holds = after[t].holds
            /\ after'[t].before = NoParts
<1>1. after \in [Targets -> Promises] /\ after[t] \in Promises /\ NoParts \in [Parts -> Contents]
  BY DEF CloneInv, WorldOK, NoParts, Contents
<1>2. [after[t] EXCEPT !.before = NoParts] \in Promises
  BY <1>1 DEF Promises
<1>3. after' = [after EXCEPT ![t] = [after[t] EXCEPT !.before = NoParts]]
  BY <1>1 DEF Unbacked
<1>. QED
  BY <1>1, <1>2, <1>3 DEF Promises

LEMMA KeepStoresKeeps == ASSUME NEW p \in Clones, CloneInv, KeepStores(p) PROVE CloneInv'
<1>. DEFINE c == clone[p]
            t == Doing(p)
            snap == [stamp |-> c.stamp, part |-> [NoParts EXCEPT !["db"] = disk[t]["db"]]]
            d == [clone[p] EXCEPT !.pc = "keepfiles", !.before = disk[t]]
            new == <<snap>> \o snaps[t]
<1>1. c \in CloneRecords /\ c.pc = "keep" /\ WorldOK
  BY InvariantOf DEF KeepStores, At
<1>2. t = c.todo[1].t /\ t \in Targets
  BY <1>1, AtTarget
<1>3. UNCHANGED <<primary, staged, payload, disk, up, ingress, spool, budget>> /\ Moves(p, d, {t})
      /\ after' = Unbacked(t) /\ snaps' = [snaps EXCEPT ![t] = new]
  BY <1>1, <1>2 DEF KeepStores, Ongoing, To, WorldOK
<1>4. /\ disk[t] \in [Parts -> Contents] /\ snaps[t] \in Seq(Snapshots) /\ snap \in Snapshots
      /\ snap.stamp = c.stamp /\ snap.part["db"] = disk[t]["db"]
  <2>1. disk[t] \in [Parts -> Contents] /\ snaps[t] \in Seq(Snapshots) /\ c.stamp \in Nat
    BY <1>1, <1>2 DEF WorldOK, CloneRecords
  <2>2. "db" \in Parts /\ NoParts \in [Parts -> Contents]
    BY DEF Parts, NoParts, Contents
  <2>3. [NoParts EXCEPT !["db"] = disk[t]["db"]] \in [Parts -> Contents]
        /\ [NoParts EXCEPT !["db"] = disk[t]["db"]]["db"] = disk[t]["db"]
    BY <2>1, <2>2
  <2>. QED
    BY <2>1, <2>3 DEF Snapshots
<1>5. d \in CloneRecords /\ SameTask(c, d) /\ d.pc = "keepfiles" /\ d.want = c.want
      /\ d.before = disk[t]
  BY <1>1, <1>4 DEF CloneRecords, SameTask, Points, Checking
<1>. HIDE DEF snap, d
<1>6. /\ new \in Seq(Snapshots) /\ new[1] = snap
      /\ \A i \in DOMAIN new : i # 1 => i - 1 \in DOMAIN snaps[t] /\ new[i] = snaps[t][i - 1]
  BY <1>4, PushedIs
<1>. HIDE DEF new, t
<1>7. snaps' \in [Targets -> Seq(Snapshots)] /\ snaps'[t] = new
      /\ \A u \in Targets \ {t} : snaps'[u] = snaps[u]
  BY <1>1, <1>2, <1>3, <1>6 DEF WorldOK
<1>8. \A i \in DOMAIN new : new[i].stamp <= budget.runs + budget.commands
  BY <1>2, <1>4, <1>6 DEF CloneInv, Numbered
<1>9. DiskLocal(d, disk')
  BY <1>1, <1>3, <1>5, InvariantOf, TaskStays DEF Checking
<1>10. Phases(c) /\ FreshLocal(c, snaps) /\ Installs(c, 1)
  <2>1. Phases(c) /\ FreshLocal(c, snaps)
    BY InvariantOf
  <2>. QED
    BY <1>1, <2>1, TodoIs DEF Phases, Installs, Checking
<1>11. FreshLocal(d, snaps')
  BY <1>1, <1>2, <1>5, <1>7, <1>10, FreshElsewhere
<1>12. InstallLocal(d, payload', disk', snaps')
  <2>1. Alone(d, "payload") => payload'.part = d.want
    BY <1>1, <1>3, <1>5, InvariantOf DEF InstallLocal, Checking, SameTask, Alone
  <2>2. ASSUME Alone(d, t), NEW i \in DOMAIN new, new[i].stamp = d.stamp
        PROVE  i = 1
    <3>1. \A n \in DOMAIN snaps[t] : snaps[t][n].stamp # c.stamp
      BY <1>1, <1>2, <1>5, <1>10, <2>2 DEF FreshLocal, Installs, Checking, SameTask, Alone
    <3>. QED
      BY <1>5, <1>6, <2>2, <3>1 DEF SameTask
  <2>3. d.todo[1].t = t
    BY <1>2, <1>5 DEF SameTask
  <2>4. Alone(d, t) => disk'[t] = d.before /\ \A i, j \in DOMAIN snaps'[t] :
          snaps'[t][i].stamp = d.stamp => snaps'[t][i].part["db"] = d.before["db"]
          /\ (snaps'[t][j].stamp = d.stamp => i = j)
    BY <1>3, <1>4, <1>5, <1>6, <1>7, <2>2
  <2>. QED
    BY <1>5, <2>1, <2>3, <2>4 DEF InstallLocal, Placing
<1>13. LocalIn(d, staged', primary', payload', disk', snaps')
  BY <1>1, <1>3, <1>5, <1>9, <1>11, <1>12, InstallGoesOn DEF Checking
<1>14. /\ after' \in [Targets -> Promises] /\ \A u \in Targets \ {t} : after'[u] = after[u]
       /\ after'[t].by = after[t].by /\ after'[t].holds = after[t].holds
          /\ after'[t].before = NoParts
  BY <1>2, <1>3, UnbackedIs
<1>15. KeptAt(t)
  BY <1>2, <1>3, <1>14 DEF KeptAt, CloneInv, AfterOK, TargetAsTold
<1>16. OnlyAt(t) /\ d.stamp = c.stamp /\ {t} \in SUBSET Resources /\ t \in {t}
  BY <1>1, <1>2, <1>3, <1>5, <1>7, <1>8, <1>14 DEF OnlyAt, SameTask, WorldOK, Resources
<1>. QED
  BY <1>1, <1>2, <1>3, <1>5, <1>13, <1>15, <1>16, TargetWritten

LEMMA KeepFilesKeeps == ASSUME NEW p \in Clones, CloneInv, KeepFiles(p) PROVE CloneInv'
<1>. DEFINE c == clone[p]
            t == Doing(p)
            mine == {i \in DOMAIN snaps[t] : snaps[t][i].stamp = c.stamp}
            d == [clone[p] EXCEPT !.pc = "put", !.left = Parts]
<1>1. c \in CloneRecords /\ c.pc = "keepfiles" /\ WorldOK
  BY InvariantOf DEF KeepFiles, At
<1>2. t = c.todo[1].t /\ t \in Targets
  BY <1>1, AtTarget
<1>3. primary' = primary /\ staged' = staged /\ payload' = payload /\ disk' = disk /\ up' = up
      /\ ingress' = ingress
      /\ budget' = budget
  BY DEF KeepFiles
<1>4. CASE mine = {}
  <2>1. Moves(p, NoClone, {}) /\ spool' \in {spool, "crit"} /\ StandbySame
    BY <1>3, <1>4 DEF KeepFiles, Failing, StandbySame
  <2>2. WorldOK' /\ Wrote({}) /\ {} \in SUBSET Resources /\ Counts
    BY <1>1, <1>3, <2>1, GenerationsAre, CountsOn DEF WorldOK, Wrote, StandbySame
  <2>. QED
    BY <1>1, <2>1, <2>2, EndsKeep
<1>5. CASE mine # {}
  <2>1. /\ Moves(p, d, {t}) /\ spool' = spool /\ after' = Unbacked(t)
        /\ \E i \in mine : snaps' = [snaps EXCEPT ![t] =
             Pruned(<<[snaps[t][i] EXCEPT !.part["files"] = disk[t]["files"]]>> \o RemoveAt(snaps[t], i))]
    BY <1>1, <1>2, <1>5 DEF KeepFiles, Ongoing, To, WorldOK
  <2>2. PICK i \in DOMAIN snaps[t] : /\ snaps[t][i].stamp = c.stamp
          /\ snaps' = [snaps EXCEPT ![t] =
               Pruned(<<[snaps[t][i] EXCEPT !.part["files"] = disk[t]["files"]]>> \o RemoveAt(snaps[t], i))]
    BY <2>1
  <2>. DEFINE snap == [snaps[t][i] EXCEPT !.part["files"] = disk[t]["files"]]
              rest == RemoveAt(snaps[t], i)
              all == <<snap>> \o rest
              new == Pruned(all)
  <2>. HIDE DEF t
  <2>3. disk[t] \in [Parts -> Contents] /\ snaps[t] \in Seq(Snapshots) /\ snaps[t][i] \in Snapshots
        /\ "files" \in Parts /\ "db" \in Parts
    <3>1. disk[t] \in [Parts -> Contents] /\ snaps[t] \in Seq(Snapshots)
      BY <1>1, <1>2 DEF WorldOK
    <3>. QED
      BY <3>1, LenProperties, ElementOfSeq DEF Parts
  <2>4. /\ snap \in Snapshots /\ snap.stamp = c.stamp
        /\ snap.part["db"] = snaps[t][i].part["db"] /\ snap.part["files"] = disk[t]["files"]
    BY <2>2, <2>3 DEF Snapshots
  <2>5. d \in CloneRecords /\ SameTask(c, d) /\ d.pc = "put" /\ d.want = c.want
        /\ d.before = c.before /\ d.left = Parts
    BY <1>1 DEF CloneRecords, SameTask, Points, Placing
  <2>. HIDE DEF snap, d
  <2>6. rest \in Seq(Snapshots)
        /\ \A n \in DOMAIN rest : \E m \in DOMAIN snaps[t] \ {i} : rest[n] = snaps[t][m]
    BY <2>3, RemovedIs
  <2>. HIDE DEF rest
  <2>7. all \in Seq(Snapshots) /\ all[1] = snap
        /\ \A n \in DOMAIN all : n # 1 => n - 1 \in DOMAIN rest /\ all[n] = rest[n - 1]
    BY <2>4, <2>6, PushedIs
  <2>. HIDE DEF all
  <2>8. new \in Seq(Snapshots) /\ \A n \in DOMAIN new : n \in DOMAIN all /\ new[n] = all[n]
    BY <2>7, PrunedIs
  <2>. HIDE DEF new
  <2>9. /\ new # <<>> => new[1] = snap
        /\ \A n \in DOMAIN new : n # 1 => \E m \in DOMAIN snaps[t] \ {i} : new[n] = snaps[t][m]
        /\ 1 \in DOMAIN new => new[1] = snap
    <3>1. new # <<>> => 1 \in DOMAIN new
      BY <2>8, HeadTailProperties, LenProperties
    <3>. QED
      BY <2>6, <2>7, <2>8, <3>1
  <2>10. snaps' \in [Targets -> Seq(Snapshots)] /\ snaps'[t] = new
         /\ \A u \in Targets \ {t} : snaps'[u] = snaps[u]
    BY <1>1, <1>2, <2>2, <2>8 DEF WorldOK, new, all, rest, snap
  <2>11. \A n \in DOMAIN new : new[n].stamp <= budget.runs + budget.commands
    BY <1>2, <2>4, <2>9 DEF CloneInv, Numbered
  <2>12. DiskLocal(d, disk')
    <3>1. \A n : Awaits(c, n) => Awaits(d, n)
      BY <1>1, <2>5 DEF Awaits, SameTask, Parts
    <3>2. RunsAlone(d) => RunsAlone(c)
      BY <2>5 DEF RunsAlone, SameTask, Alone
    <3>3. DiskLocal(c, disk)
      BY InvariantOf
    <3>. QED
      BY <1>3, <2>5, <3>1, <3>2, <3>3 DEF DiskLocal, SameTask, Alone
  <2>13. FreshLocal(d, snaps')
    <3>1. FreshLocal(c, snaps) /\ Installs(c, 1)
      BY <1>1, InvariantOf, TodoIs DEF Phases, Installs, Checking
    <3>. QED
      BY <1>1, <1>2, <2>5, <2>10, <3>1, FreshElsewhere DEF Checking
  <2>14. InstallLocal(d, payload', disk', snaps')
    <3>1. Alone(d, "payload") => payload'.part = d.want
      BY <1>1, <1>3, <2>5, InvariantOf DEF InstallLocal, Checking, SameTask, Alone
    <3>2. ASSUME Alone(d, t)
          PROVE  Backed(new, d.stamp, d.before)
      <4>1. /\ disk[t] = c.before /\ snaps[t][i].part["db"] = c.before["db"]
            /\ \A m \in DOMAIN snaps[t] : snaps[t][m].stamp = c.stamp => m = i
        <5>1. Alone(c, t) /\ InstallLocal(c, payload, disk, snaps)
          BY <2>5, <3>2, InvariantOf DEF SameTask, Alone
        <5>2. /\ disk[t] = c.before
              /\ \A n, m \in DOMAIN snaps[t] :
                   snaps[t][n].stamp = c.stamp =>
                     snaps[t][n].part["db"] = c.before["db"] /\ (snaps[t][m].stamp = c.stamp => n = m)
          BY <1>1, <1>2, <5>1 DEF InstallLocal
        <5>. QED
          BY <2>2, <5>2
      <4>2. ASSUME NEW n \in DOMAIN new, new[n].stamp = d.stamp
            PROVE  n = 1
        BY <2>5, <2>9, <4>1, <4>2 DEF SameTask
      <4>3. \A k \in Kept : snap.part[k] = d.before[k]
        BY <2>4, <2>5, <4>1 DEF Kept
      <4>. QED
        BY <2>4, <2>5, <2>9, <4>2, <4>3 DEF Backed, SameTask
    <3>3. d.todo[1].t = t /\ Parts # {}
      BY <1>2, <2>5 DEF SameTask, Parts
    <3>. QED
      BY <2>5, <2>10, <3>1, <3>2, <3>3 DEF InstallLocal
  <2>15. LocalIn(d, staged', primary', payload', disk', snaps')
    BY <1>1, <1>3, <2>5, <2>12, <2>13, <2>14, InstallGoesOn DEF Checking, Placing
  <2>16. /\ after' \in [Targets -> Promises] /\ \A u \in Targets \ {t} : after'[u] = after[u]
         /\ after'[t].by = after[t].by /\ after'[t].holds = after[t].holds
            /\ after'[t].before = NoParts
    BY <1>2, <2>1, UnbackedIs
  <2>17. KeptAt(t)
    BY <1>2, <1>3, <2>16 DEF KeptAt, CloneInv, AfterOK, TargetAsTold
  <2>18. OnlyAt(t) /\ d.stamp = c.stamp /\ {t} \in SUBSET Resources /\ t \in {t}
    BY <1>1, <1>2, <1>3, <2>5, <2>10, <2>11, <2>16 DEF OnlyAt, SameTask, WorldOK, Resources
  <2>. QED
    BY <1>1, <1>2, <1>3, <2>1, <2>5, <2>15, <2>17, <2>18, TargetWritten
<1>. QED
  BY <1>4, <1>5

LEMMA UnclaimedIs ==
  ASSUME NEW t \in Targets, CloneInv, after' = Unclaimed(t)
  PROVE  /\ after' \in [Targets -> Promises] /\ \A u \in Targets \ {t} : after'[u] = after[u]
         /\ KeptAt(t)
<1>1. after \in [Targets -> Promises] /\ NoParts \in [Parts -> Contents]
  BY DEF CloneInv, WorldOK, NoParts, Contents
<1>2. NoPromise \in Promises /\ NoPromise.by = "none"
  BY <1>1 DEF Promises, NoPromise
<1>. QED
  BY <1>1, <1>2 DEF Unclaimed, KeptAt

LEMMA PutKeeps == ASSUME NEW p \in Clones, CloneInv, Put(p) PROVE CloneInv'
<1>. DEFINE c == clone[p]
            t == Doing(p)
            k == NextPart(c.left)
            rest == c.left \ {k}
            then == IF rest # {} THEN "put" ELSE IF t \in CertCopy THEN "acme" ELSE "start"
            d == [clone[p] EXCEPT !.pc = then, !.left = rest]
<1>1. c \in CloneRecords /\ c.pc = "put" /\ WorldOK
  BY InvariantOf DEF Put, At
<1>2. t = c.todo[1].t /\ t \in Targets
  BY <1>1, AtTarget
<1>3. primary' = primary /\ staged' = staged /\ payload' = payload /\ up' = up /\ ingress' = ingress
      /\ budget' = budget /\ snaps' = snaps
  BY DEF Put
<1>4. InstallLocal(c, payload, disk, snaps) /\ c.left \subseteq Parts /\ c.left # {}
  BY <1>1, InvariantOf DEF InstallLocal, Placing
<1>5. k \in c.left /\ k \in Parts /\ ("db" \in c.left => k = "db")
  BY <1>4 DEF NextPart, Parts
<1>6. CASE payload.part[k] = Absent
  <2>1. Moves(p, NoClone, {}) /\ spool' \in {spool, "crit"} /\ StandbySame
    BY <1>3, <1>6 DEF Put, Failing, StandbySame
  <2>2. WorldOK' /\ Wrote({}) /\ {} \in SUBSET Resources /\ Counts
    BY <1>1, <1>3, <2>1, GenerationsAre, CountsOn DEF WorldOK, Wrote, StandbySame
  <2>. QED
    BY <1>1, <2>1, <2>2, EndsKeep
<1>7. CASE payload.part[k] # Absent
  <2>1. /\ Moves(p, d, {t}) /\ spool' = spool /\ after' = Unclaimed(t)
        /\ disk' = [disk EXCEPT ![t][k] = payload.part[k]]
    BY <1>7 DEF Put, Ongoing, To
  <2>2. /\ d \in CloneRecords /\ SameTask(c, d) /\ d.want = c.want /\ d.before = c.before
           /\ d.left = rest
        /\ d.pc \in Placing /\ d.pc # "merge" /\ (d.pc = "put" <=> rest # {})
    BY <1>1 DEF CloneRecords, SameTask, Points, Placing
  <2>. HIDE DEF d, k, t
  <2>3. payload.part \in [Parts -> Contents] /\ disk \in [Targets -> [Parts -> Contents]]
    BY <1>1 DEF WorldOK, Directories
  <2>4. /\ disk' \in [Targets -> [Parts -> Contents]] /\ \A u \in Targets \ {t} : disk'[u] = disk[u]
        /\ disk'[t][k] = payload.part[k] /\ \A j \in Parts \ {k} : disk'[t][j] = disk[t][j]
    BY <1>2, <1>5, <2>1, <2>3
  <2>5. DiskLocal(d, disk')
    <3> SUFFICES ASSUME RunsAlone(d), NEW u \in Targets, Alone(d, u)
                 PROVE  (\E i \in DOMAIN d.todo : Awaits(d, i) /\ d.todo[i].t = u) \/ disk'[u]["db"] >= d.since
      BY DEF DiskLocal
    <3>1. RunsAlone(c) /\ Alone(c, u) /\ d.todo = c.todo /\ d.since = c.since
      BY <2>2 DEF RunsAlone, SameTask, Alone
    <3>2. CASE u = t /\ k = "db"
      BY <1>1, <2>4, <3>1, <3>2, InvariantOf DEF PayloadLocal
    <3>3. CASE ~ (u = t /\ k = "db")
      <4>1. disk'[u]["db"] = disk[u]["db"]
        BY <2>4, <3>3 DEF Parts
      <4>2. CASE \E i \in DOMAIN c.todo : Awaits(c, i) /\ c.todo[i].t = u
        <5>1. PICK i \in DOMAIN c.todo : Awaits(c, i) /\ c.todo[i].t = u
          BY <4>2
        <5>2. i # 1
          BY <1>1, <1>2, <1>5, <3>3, <5>1 DEF Awaits, Checking
        <5>. QED
          BY <3>1, <5>1, <5>2 DEF Awaits
      <4>3. CASE disk[u]["db"] >= c.since
        BY <3>1, <4>1, <4>3
      <4>. QED
        BY <3>1, <4>2, <4>3, InvariantOf DEF DiskLocal
    <3>. QED
      BY <3>2, <3>3
  <2>6. FreshLocal(d, snaps')
    BY <1>1, <1>3, <2>2, InvariantOf, TaskStays DEF Checking, Placing
  <2>7. InstallLocal(d, payload', disk', snaps')
    <3>1. \A r : Alone(d, r) <=> Alone(c, r)
      BY <2>2 DEF SameTask, Alone
    <3>2. Alone(c, "payload") => payload.part = c.want
      BY <1>1, <1>4 DEF InstallLocal, Placing
    <3>3. Alone(c, t) => Backed(snaps[t], c.stamp, c.before)
      BY <1>1, <1>2, <1>4 DEF InstallLocal, Placing
    <3>4. ASSUME Alone(c, t), Alone(c, "payload"), NEW j \in Parts \ rest
          PROVE  disk'[t][j] = c.want[j]
      <4>1. CASE j = k
        BY <2>4, <3>2, <3>4, <4>1
      <4>2. CASE j # k
        <5>1. j \in Parts \ c.left /\ disk'[t][j] = disk[t][j]
          BY <2>4, <3>4, <4>2
        <5>. QED
          BY <1>1, <1>2, <1>4, <3>4, <5>1 DEF InstallLocal, Placing
      <4>. QED
        BY <4>1, <4>2
    <3>5. rest \subseteq Parts /\ d.todo[1].t = t /\ d.stamp = c.stamp
      BY <1>2, <1>4, <2>2 DEF SameTask
    <3>. HIDE DEF rest, c
    <3>. QED
      BY <1>3, <2>2, <3>1, <3>2, <3>3, <3>4, <3>5 DEF InstallLocal, Placing
  <2>8. LocalIn(d, staged', primary', payload', disk', snaps')
    BY <1>1, <1>3, <2>2, <2>5, <2>6, <2>7, InstallGoesOn DEF Checking, Placing
  <2>9. /\ after' \in [Targets -> Promises] /\ \A u \in Targets \ {t} : after'[u] = after[u]
        /\ KeptAt(t)
    BY <1>2, <2>1, UnclaimedIs
  <2>10. \A i \in DOMAIN snaps'[t] : snaps'[t][i].stamp <= budget.runs + budget.commands
    BY <1>2, <1>3 DEF CloneInv, Numbered
  <2>11. OnlyAt(t) /\ d.stamp = c.stamp /\ {t} \in SUBSET Resources /\ t \in {t}
    BY <1>1, <1>2, <1>3, <2>2, <2>4, <2>9, <2>10 DEF OnlyAt, SameTask, WorldOK, Resources
  <2>. QED
    BY <1>1, <1>2, <1>3, <2>1, <2>2, <2>8, <2>9, <2>11, TargetWritten
<1>. QED
  BY <1>6, <1>7

(* A step that ends with a promise for a target, and may start its stack.  *)
LEMMA Promised ==
  ASSUME NEW p \in Clones, NEW new \in CloneRecords, NEW t \in Targets, CloneInv,
         Moves(p, new, {t}),
         primary' = primary, staged' = staged, payload' = payload, disk' = disk, snaps' = snaps,
         ingress' = ingress,
         spool' = spool, budget' = budget, up' \subseteq up \cup Autostart,
         clone[p].pc \in Placing \cup Rolling, clone[p].pc # "merge",
         NEW promise \in Promises, after' = after \/ after' = [after EXCEPT ![t] = promise],
         after' # after => /\ promise.by = "install" =>
                                /\ disk[t] = promise.holds
                                /\ Backed(snaps[t], snaps[t][1].stamp, promise.before)
                           /\ promise.by = "rollback" =>
                                \A k \in Kept : promise.holds[k] # Absent => disk[t][k] = promise.holds[k],
         new.stamp \in {0, clone[p].stamp}, LocalIn(new, staged', primary', payload', disk', snaps')
  PROVE  CloneInv'
<1>1. {t} \in SUBSET Resources
  BY DEF Resources
<1>2. clone' \in [Clones -> CloneRecords] /\ clone'[p] = new /\ OthersTold(p, {t})
  BY <1>1, InvariantOf, MovesIs
<1>3. Counts /\ Autostart \subseteq Targets
  BY CountsOn, CloneConstants
<1>4. after' \in [Targets -> Promises]
  BY InvariantOf DEF WorldOK
<1>5. WorldOK' /\ Wrote({t})
  BY <1>3, <1>4, InvariantOf, GenerationsAre DEF WorldOK, Wrote
<1>6. UpOK'
  BY <1>2, <1>3, UpStays DEF Counts, Placing, Rolling
<1>7. IngressOK' /\ Numbered'
  BY <1>2, <1>3, IngressStays, NumbersStay DEF Counts, At
<1>8. AfterOK'
  <2>1. CASE after' = after
    BY <2>1, PromisesStay
  <2>2. CASE after' # after
    <3>1. after'[t] = promise /\ \A u \in Targets \ {t} : after'[u] = after[u]
      BY <2>2, InvariantOf DEF WorldOK
    <3>2. /\ promise.by = "install" => disk[t] = promise.holds
             /\ Backed(snaps[t], snaps[t][1].stamp, promise.before)
          /\ promise.by = "rollback" => \A k \in Kept : promise.holds[k] # Absent => disk[t][k] = promise.holds[k]
      BY <2>2
    <3>3. ASSUME NEW u \in Targets
          PROVE  /\ after'[u].by = "install" => disk[u] = after'[u].holds
                 /\ after'[u].by = "rollback" =>
                      \A k \in Kept : after'[u].holds[k] # Absent => disk[u][k] = after'[u].holds[k]
                 /\ after'[u].by = "install" =>
                      \/ after'[u].before = NoParts \/ snaps[u] = <<>>
                      \/ Backed(snaps[u], snaps[u][1].stamp, after'[u].before)
      <4>1. CASE u = t
        BY <3>1, <3>2, <4>1
      <4>2. CASE u # t
        BY <3>1, <4>2 DEF CloneInv, AfterOK, TargetAsTold
      <4>. QED
        BY <4>1, <4>2
    <3>. QED
      BY <3>3 DEF AfterOK, TargetAsTold
  <2>. QED
    BY <2>1, <2>2
<1>. QED
  BY <1>1, <1>2, <1>5, <1>6, <1>7, <1>8, Concludes

LEMMA InstallStartsKeeps == ASSUME NEW p \in Clones, CloneInv, InstallStarts(p) PROVE CloneInv'
<1>. DEFINE c == clone[p]
            t == Doing(p)
            promise == [by |-> "install", holds |-> c.want, before |-> c.before]
            d == [clone[p] EXCEPT !.pc = "verify"]
            new == Installed(p)
<1>1. c \in CloneRecords /\ c.pc = "start" /\ WorldOK
  BY InvariantOf DEF InstallStarts, At
<1>2. t = c.todo[1].t /\ t \in Targets
  BY <1>1, AtTarget
<1>3. /\ primary' = primary /\ staged' = staged /\ payload' = payload /\ disk' = disk
         /\ snaps' = snaps
      /\ ingress' = ingress /\ spool' = spool /\ budget' = budget /\ Moves(p, new, {t})
      /\ up' \subseteq up \cup Autostart
      /\ after' = IF c.others \cap {t, "payload"} # {} THEN after ELSE [after EXCEPT ![t] = promise]
  BY DEF InstallStarts, Ongoing
<1>4. promise \in Promises /\ promise.by = "install" /\ promise.holds = c.want
      /\ promise.before = c.before
  BY <1>1 DEF Promises, CloneRecords
<1>5. d \in CloneRecords /\ SameTask(c, d) /\ d.pc = "verify"
  BY <1>1 DEF CloneRecords, SameTask, Points
<1>6. new \in {d, StepDone(p)}
  BY DEF Installed, To
<1>. HIDE DEF t, d, promise, new
<1>7. LocalIn(d, staged', primary', payload', disk', snaps')
  <2>1. Phases(d)
    BY <1>1, <1>5, InvariantOf DEF Phases, SameTask, Staging, Checking, Placing, Rolling
  <2>2. StageLocal(d, staged', primary') /\ PayloadLocal(d, payload')
    BY <1>1, <1>3, <1>5, InvariantOf DEF StageLocal, PayloadLocal, SameTask, RunsAlone, Alone
  <2>3. DiskLocal(d, disk') /\ FreshLocal(d, snaps')
    BY <1>1, <1>3, <1>5, InvariantOf, TaskStays DEF Checking
  <2>4. InstallLocal(d, payload', disk', snaps') /\ RollLocal(d, disk', snaps')
    BY <1>5, AwayFromTargets DEF Checking, Placing, Rolling
  <2>. QED
    BY <2>1, <2>2, <2>3, <2>4 DEF LocalIn
<1>8. StepDone(p) \in CloneRecords /\ StepDone(p).stamp \in {0, c.stamp}
      /\ LocalIn(StepDone(p), staged', primary', payload', disk', snaps')
  BY <1>1, <1>3, StepEnds DEF Checking
<1>9. new \in CloneRecords /\ new.stamp \in {0, c.stamp}
      /\ LocalIn(new, staged', primary', payload', disk', snaps')
  BY <1>5, <1>6, <1>7, <1>8 DEF SameTask
<1>10. after' # after => disk[t] = c.want /\ Backed(snaps[t], snaps[t][1].stamp, c.before)
  <2> SUFFICES ASSUME after' # after
               PROVE  disk[t] = c.want /\ Backed(snaps[t], snaps[t][1].stamp, c.before)
    OBVIOUS
  <2>1. Alone(c, t) /\ Alone(c, "payload")
    BY <1>3 DEF Alone
  <2>2. c.left = {} /\ (\A k \in Parts \ c.left : disk[t][k] = c.want[k])
        /\ Backed(snaps[t], c.stamp, c.before)
    BY <1>1, <1>2, <2>1, InvariantOf DEF InstallLocal, Placing
  <2>3. disk[t] \in [Parts -> Contents] /\ c.want \in [Parts -> Contents]
    BY <1>1, <1>2 DEF WorldOK, CloneRecords
  <2>4. disk[t] = c.want
    BY <2>2, <2>3
  <2>. QED
    BY <2>2, <2>4 DEF Backed
<1>. QED
  BY <1>1, <1>2, <1>3, <1>4, <1>9, <1>10, Promised DEF Placing

-----------------------------------------------------------------------------
(* rollback                                                                *)

(* It is a command of its own, not a step of a cycle.                      *)
LEMMA RollingIs ==
  ASSUME NEW p \in Clones, NEW d \in CloneRecords, CloneInv, clone[p].pc \in Rolling,
         d.pc \in Rolling,
         d.job = clone[p].job, d.todo = clone[p].todo, d.since = clone[p].since,
         primary' = primary, RollLocal(d, disk', snaps')
  PROVE  LocalIn(d, staged', primary', payload', disk', snaps')
<1>. DEFINE c == clone[p]
<1>1. c \in CloneRecords /\ Phases(c) /\ StageLocal(c, staged, primary)
  BY InvariantOf
<1>2. c.todo # <<>> /\ c.todo[1].do = "rollback" /\ 1 \in DOMAIN c.todo
  BY <1>1, TodoIs DEF Phases, Rolling
<1>3. c.job \notin Series /\ c.job # "run" /\ DOMAIN c.todo \subseteq {1}
  BY <1>1, <1>2 DEF Phases, Series
<1>4. Phases(d)
  BY <1>1, <1>2, <1>3 DEF Phases, Staging, Checking, Placing, Rolling
<1>5. StageLocal(d, staged', primary') /\ PayloadLocal(d, payload') /\ DiskLocal(d, disk')
  BY <1>1, <1>3 DEF StageLocal, PayloadLocal, DiskLocal, RunsAlone, Rolling
<1>6. FreshLocal(d, snaps')
  <2>1. \A i \in DOMAIN d.todo : i = 1 /\ ~Installs(d, i)
    BY <1>2, <1>3 DEF Installs
  <2>. QED
    BY <2>1 DEF FreshLocal
<1>7. InstallLocal(d, payload', disk', snaps')
  BY DEF InstallLocal, Checking, Placing, Rolling
<1>. QED
  BY <1>4, <1>5, <1>6, <1>7 DEF LocalIn

LEMMA RollbackChoosesKeeps == ASSUME NEW p \in Clones, CloneInv, RollbackChooses(p) PROVE CloneInv'
<1>. DEFINE c == clone[p]
            t == Doing(p)
            want == IF after[t].by = "install" THEN after[t].before ELSE NoParts
            d == [clone[p] EXCEPT !.pc = "rolldown", !.stamp = Head(snaps[t]).stamp, !.want = want]
<1>1. c \in CloneRecords /\ c.pc = "choose" /\ WorldOK
  BY InvariantOf DEF RollbackChooses, At
<1>2. t = c.todo[1].t /\ t \in Targets
  BY <1>1, AtTarget
<1>3. UNCHANGED <<primary, staged, payload>> /\ StandbySame /\ budget' = budget
  BY DEF RollbackChooses, standby, StandbySame
<1>4. CASE snaps[t] = <<>>
  <2>1. Moves(p, NoClone, {}) /\ spool' \in {spool, "crit"}
    BY <1>4 DEF RollbackChooses, Failing
  <2>2. WorldOK' /\ Wrote({}) /\ {} \in SUBSET Resources /\ Counts
    BY <1>1, <1>3, <2>1, GenerationsAre, CountsOn DEF WorldOK, Wrote, StandbySame
  <2>. QED
    BY <1>1, <1>3, <2>1, <2>2, EndsKeep
<1>5. CASE snaps[t] # <<>>
  <2>1. Moves(p, d, {}) /\ spool' = spool
    BY <1>5 DEF RollbackChooses, Ongoing, To
  <2>. HIDE DEF t
  <2>2. snaps[t] \in Seq(Snapshots) /\ after[t] \in Promises /\ NoParts \in [Parts -> Contents]
    BY <1>1, <1>2 DEF WorldOK, NoParts, Contents
  <2>3. 1 \in DOMAIN snaps[t] /\ Head(snaps[t]) = snaps[t][1] /\ snaps[t][1] \in Snapshots
    BY <1>5, <2>2, HeadTailProperties, LenProperties
  <2>4. want \in [Parts -> Contents] /\ snaps[t][1].stamp \in Nat
    BY <2>2, <2>3 DEF Promises, Snapshots
  <2>5. want = NoParts \/ Backed(snaps[t], snaps[t][1].stamp, want)
    BY <1>2, <1>5 DEF CloneInv, AfterOK
  <2>. HIDE DEF want
  <2>6. /\ d \in CloneRecords /\ d.pc = "rolldown" /\ d.job = c.job /\ d.todo = c.todo
           /\ d.since = c.since
        /\ d.stamp = snaps[t][1].stamp /\ d.want = want
    BY <1>1, <2>3, <2>4 DEF CloneRecords, Points, Rolling
  <2>. HIDE DEF d
  <2>7. RollLocal(d, disk', snaps')
    BY <1>2, <1>3, <1>5, <2>5, <2>6 DEF RollLocal, Rolling, StandbySame
  <2>8. LocalIn(d, staged', primary', payload', disk', snaps')
    BY <1>1, <1>3, <2>6, <2>7, RollingIs DEF Rolling
  <2>9. WorldOK' /\ Wrote({}) /\ {} \in SUBSET Resources /\ Counts
    BY <1>1, <1>3, <2>1, GenerationsAre, CountsOn DEF WorldOK, Wrote, StandbySame
  <2>10. clone' \in [Clones -> CloneRecords] /\ clone'[p] = d /\ OthersTold(p, {})
    BY <2>1, <2>6, <2>9, InvariantOf, MovesIs
  <2>11. UpOK' /\ IngressOK'
    BY <1>1, <1>3, <2>9, <2>10, UpStays, IngressStays DEF Counts, StandbySame, At
  <2>12. AfterOK'
    BY <1>3, PromisesStay DEF StandbySame
  <2>13. Numbered'
    <3>1. \A q \in Clones : clone'[q].stamp <= budget.runs + budget.commands
      BY <1>2, <2>3, <2>6, <2>10 DEF OthersTold, Told, CloneInv, Numbered
    <3>. QED
      BY <1>3, <3>1 DEF CloneInv, Numbered, StandbySame
  <2>. QED
    BY <2>1, <2>6, <2>8, <2>9, <2>11, <2>12, <2>13, Concludes
<1>. QED
  BY <1>4, <1>5

LEMMA RollbackDownKeeps == ASSUME NEW p \in Clones, CloneInv, RollbackDown(p) PROVE CloneInv'
<1>. DEFINE c == clone[p]
            d == [clone[p] EXCEPT !.pc = "restore", !.left = Kept]
<1>1. c \in CloneRecords /\ c.pc = "rolldown" /\ WorldOK
  BY InvariantOf DEF RollbackDown, At
<1>2. UNCHANGED <<primary, staged, payload, disk, ingress, snaps, after>> /\ spool' = spool
      /\ Moves(p, d, {Doing(p)}) /\ ComposeDown(p, up \ {Doing(p)})
  BY DEF RollbackDown, Ongoing, To
<1>3. d \in CloneRecords /\ SameTask(c, d) /\ d.pc = "restore" /\ d.want = c.want /\ d.left = Kept
  BY <1>1 DEF CloneRecords, SameTask, Points, Rolling, Kept, Parts
<1>. HIDE DEF d
<1>4. RollLocal(d, disk', snaps')
  BY <1>1, <1>2, <1>3, InvariantOf DEF RollLocal, Rolling, SameTask, Alone, Kept
<1>5. LocalIn(d, staged', primary', payload', disk', snaps')
  BY <1>1, <1>2, <1>3, <1>4, RollingIs DEF Rolling, SameTask
<1>6. {Doing(p)} \in SUBSET Resources /\ Counts /\ spool \in {"none", "ok", "crit"}
      /\ up' \subseteq Targets /\ up' \subseteq up
  BY <1>1, <1>2, AtTarget, ComposeDownIs DEF WorldOK
<1>. QED
  BY <1>1, <1>2, <1>3, <1>5, <1>6, UpChanges DEF SameTask

LEMMA RollbackRestoresKeeps ==
  ASSUME NEW p \in Clones, CloneInv, RollbackRestores(p)
  PROVE CloneInv'
<1>. DEFINE c == clone[p]
            t == Doing(p)
            k == NextPart(c.left)
            rest == c.left \ {k}
            held == {s \in ToSet(snaps[t]) : s.stamp = c.stamp /\ s.part[k] # Absent}
            d == [clone[p] EXCEPT !.pc = IF rest = {} THEN "rollup" ELSE "restore", !.left = rest]
            value == IF held = {} THEN disk[t][k] ELSE (CHOOSE s \in held : TRUE).part[k]
<1>1. c \in CloneRecords /\ c.pc = "restore" /\ WorldOK
  BY InvariantOf DEF RollbackRestores, At
<1>2. t = c.todo[1].t /\ t \in Targets
  BY <1>1, AtTarget
<1>3. RollLocal(c, disk, snaps) /\ c.left # {} /\ c.left \subseteq Kept
  BY <1>1, InvariantOf DEF RollLocal
<1>4. k \in c.left /\ k \in Kept /\ k \in Parts
  BY <1>3 DEF NextPart, Kept, Parts
<1>5. /\ primary' = primary /\ staged' = staged /\ payload' = payload /\ up' = up
         /\ ingress' = ingress
      /\ spool' = spool /\ budget' = budget /\ snaps' = snaps /\ Moves(p, d, {t})
         /\ after' = Unclaimed(t)
  BY DEF RollbackRestores, Ongoing, To
<1>6. disk' = [disk EXCEPT ![t][k] = value]
  BY <1>1, <1>2, <1>4 DEF RollbackRestores, WorldOK
<1>7. d \in CloneRecords /\ SameTask(c, d) /\ d.want = c.want /\ d.left = rest
      /\ d.pc = IF rest = {} THEN "rollup" ELSE "restore"
  BY <1>1 DEF CloneRecords, SameTask, Points, Rolling
<1>8. snaps[t] \in Seq(Snapshots) /\ disk[t] \in [Parts -> Contents]
      /\ disk \in [Targets -> [Parts -> Contents]]
  BY <1>1, <1>2 DEF WorldOK
<1>9. \A s \in ToSet(snaps[t]) : s \in Snapshots /\ \E i \in DOMAIN snaps[t] : s = snaps[t][i]
  BY <1>8, LenProperties, ElementOfSeq DEF ToSet
<1>10. \A i \in DOMAIN snaps[t] : snaps[t][i] \in ToSet(snaps[t])
  BY DEF ToSet
<1>. HIDE DEF d, t, k
<1>11. held # {} => value \in Contents /\ \E i \in DOMAIN snaps[t] : snaps[t][i].stamp = c.stamp
                                              /\ value = snaps[t][i].part[k]
  <2> SUFFICES ASSUME held # {}
               PROVE  value \in Contents /\ \E i \in DOMAIN snaps[t] : snaps[t][i].stamp = c.stamp
                                                /\ value = snaps[t][i].part[k]
    OBVIOUS
  <2>. DEFINE s == CHOOSE s \in held : TRUE
  <2>1. s \in held
    OBVIOUS
  <2>2. s \in ToSet(snaps[t]) /\ s.stamp = c.stamp /\ value = s.part[k]
    BY <2>1
  <2>. HIDE DEF s, value
  <2>. QED
    BY <1>4, <1>9, <2>2 DEF Snapshots
<1>12. value \in Contents
  BY <1>4, <1>8, <1>11
<1>. HIDE DEF value
<1>13. /\ disk' \in [Targets -> [Parts -> Contents]] /\ \A u \in Targets \ {t} : disk'[u] = disk[u]
       /\ disk'[t][k] = value /\ \A j \in Parts \ {k} : disk'[t][j] = disk[t][j]
  BY <1>2, <1>4, <1>6, <1>8, <1>12
<1>14. ASSUME Alone(c, t), c.want[k] # Absent
       PROVE  value = c.want[k]
  <2>1. c.want # NoParts
    BY <1>4, <1>14 DEF NoParts
  <2>2. snaps[t] # <<>> /\ Backed(snaps[t], c.stamp, c.want)
    BY <1>1, <1>2, <1>3, <1>14, <2>1 DEF RollLocal, Rolling
  <2>3. snaps[t][1].stamp = c.stamp
        /\ \A i \in DOMAIN snaps[t] : snaps[t][i].stamp = c.stamp => snaps[t][i].part[k] = c.want[k]
    BY <1>4, <2>2 DEF Backed
  <2>4. 1 \in DOMAIN snaps[t]
    BY <1>8, <2>2, HeadTailProperties, LenProperties
  <2>5. snaps[t][1] \in held
    BY <1>10, <1>14, <2>3, <2>4
  <2>. QED
    BY <1>11, <2>3, <2>5
<1>15. RollLocal(d, disk', snaps')
  <2>1. d.todo[1].t = t /\ d.stamp = c.stamp /\ (Alone(d, t) <=> Alone(c, t)) /\ rest \subseteq Kept
    BY <1>2, <1>3, <1>7 DEF SameTask, Alone
  <2>2. Alone(c, t) => c.want = NoParts \/ (snaps[t] # <<>> /\ Backed(snaps[t], c.stamp, c.want))
    BY <1>1, <1>2, <1>3 DEF RollLocal, Rolling
  <2>3. ASSUME Alone(c, t), NEW j \in Kept \ rest, c.want[j] # Absent
        PROVE  disk'[t][j] = c.want[j]
    <3>1. CASE j = k
      BY <1>13, <1>14, <2>3, <3>1
    <3>2. CASE j # k
      <4>1. j \in Kept \ c.left /\ disk'[t][j] = disk[t][j]
        BY <1>13, <2>3, <3>2 DEF Kept, Parts
      <4>. QED
        BY <1>1, <1>2, <1>3, <2>3, <4>1 DEF RollLocal
    <3>. QED
      BY <3>1, <3>2
  <2>. HIDE DEF rest, c
  <2>. QED
    BY <1>5, <1>7, <2>1, <2>2, <2>3 DEF RollLocal, Rolling
<1>16. LocalIn(d, staged', primary', payload', disk', snaps')
  BY <1>1, <1>5, <1>7, <1>15, RollingIs DEF Rolling, SameTask
<1>17. /\ after' \in [Targets -> Promises] /\ \A u \in Targets \ {t} : after'[u] = after[u]
       /\ KeptAt(t)
  BY <1>2, <1>5, UnclaimedIs
<1>18. \A i \in DOMAIN snaps'[t] : snaps'[t][i].stamp <= budget.runs + budget.commands
  BY <1>2, <1>5 DEF CloneInv, Numbered
<1>19. OnlyAt(t) /\ d.stamp = c.stamp /\ {t} \in SUBSET Resources /\ t \in {t}
  BY <1>1, <1>2, <1>5, <1>7, <1>13, <1>17, <1>18 DEF OnlyAt, SameTask, WorldOK, Resources
<1>. QED
  BY <1>1, <1>2, <1>5, <1>7, <1>16, <1>17, <1>19, TargetWritten

LEMMA RollbackUpKeeps == ASSUME NEW p \in Clones, CloneInv, RollbackUp(p) PROVE CloneInv'
<1>. DEFINE c == clone[p]
            t == Doing(p)
            promise == [by |-> "rollback", holds |-> c.want, before |-> NoParts]
<1>1. c \in CloneRecords /\ c.pc = "rollup" /\ WorldOK
  BY InvariantOf DEF RollbackUp, At
<1>2. t = c.todo[1].t /\ t \in Targets
  BY <1>1, AtTarget
<1>3. /\ primary' = primary /\ staged' = staged /\ payload' = payload /\ disk' = disk
         /\ snaps' = snaps
      /\ ingress' = ingress /\ spool' = spool /\ budget' = budget /\ Moves(p, StepDone(p), {t})
      /\ up' \subseteq up \cup Autostart
      /\ after' = IF t \in c.others THEN after ELSE [after EXCEPT ![t] = promise]
  BY DEF RollbackUp, Ongoing
<1>4. NoParts \in [Parts -> Contents]
  BY DEF NoParts, Contents
<1>5. promise \in Promises /\ promise.by = "rollback" /\ promise.holds = c.want
  BY <1>1, <1>4 DEF Promises, CloneRecords
<1>. HIDE DEF t, promise
<1>6. StepDone(p) \in CloneRecords /\ StepDone(p).stamp \in {0, c.stamp}
      /\ LocalIn(StepDone(p), staged', primary', payload', disk', snaps')
  BY <1>1, <1>3, StepEnds DEF Checking
<1>7. after' # after => \A k \in Kept : c.want[k] # Absent => disk[t][k] = c.want[k]
  <2>1. after' # after => Alone(c, t)
    BY <1>3 DEF Alone
  <2>2. Alone(c, t) => \A k \in Kept \ c.left : c.want[k] # Absent => disk[t][k] = c.want[k]
    BY <1>1, <1>2, InvariantOf DEF RollLocal
  <2>3. c.left = {}
    BY <1>1, InvariantOf DEF RollLocal
  <2>. QED
    BY <2>1, <2>2, <2>3
<1>. QED
  BY <1>1, <1>2, <1>3, <1>5, <1>6, <1>7, Promised DEF Rolling

-----------------------------------------------------------------------------
(* The primary, and processes that start                                   *)

LEMMA PrimaryChangesKeeps == CloneInv /\ PrimaryChanges => CloneInv'
<1> SUFFICES ASSUME CloneInv, PrimaryChanges
             PROVE  CloneInv'
  OBVIOUS
<1>1. /\ staged' = staged /\ payload' = payload /\ disk' = disk /\ up' = up /\ ingress' = ingress
         /\ snaps' = snaps
      /\ after' = after /\ clone' = clone /\ spool' = spool /\ budget' = budget
      /\ primary' = primary + 1 /\ primary' \in Generations /\ primary \in Generations
  BY DEF PrimaryChanges, standby, CloneInv, WorldOK
<1>2. primary' >= primary
  BY <1>1, GenerationsAre
<1>3. Wrote({}) /\ WorldOK'
  BY <1>1, <1>2 DEF Wrote, CloneInv, WorldOK
<1>4. ASSUME NEW q \in Clones
      PROVE  Local(q)'
  <2>1. Told(clone[q], clone'[q], {}) /\ clone[q] \in CloneRecords /\ clone'[q] \in CloneRecords
    BY <1>1 DEF Told, CloneInv
  <2>2. LocalIn(clone[q], staged, primary, payload, disk, snaps) /\ WorldOK
    BY DEF CloneInv, Local
  <2>3. LocalIn(clone'[q], staged', primary', payload', disk', snaps')
    BY <1>3, <2>1, <2>2, Undisturbed
  <2>. QED
    BY <2>3 DEF Local
<1>5. AfterOK'
  BY <1>1, PromisesStay
<1>6. UpOK' /\ IngressOK' /\ Numbered'
  BY <1>1 DEF CloneInv, UpOK, IngressOK, Numbered, At
<1>. QED
  BY <1>1, <1>3, <1>4, <1>5, <1>6 DEF CloneInv

(* The steps of a plan: those of a series install every target, each once. *)
Planned(plan, j) ==
  /\ plan \in Seq(Steps) /\ plan # <<>>
  /\ j \notin Series => plan[1].do = j /\ DOMAIN plan = {1}
  /\ j = "installs" => \A i \in DOMAIN plan : plan[i].do \in {"install", "verify"}
  /\ j = "run" => plan[1].do = "stage"
  /\ j = "run" => \A i \in DOMAIN plan : plan[i].do \in {"stage", "install", "drill"}
  /\ \A i, k \in DOMAIN plan :
       plan[i].do = "install" /\ plan[k].do = "install" /\ plan[i].t = plan[k].t => i = k
  /\ j = "run" => \A u \in Targets : \E i \in DOMAIN plan : i # 1 /\ plan[i].do = "install"
                                         /\ plan[i].t = u

LEMMA EachIs ==
  /\ EachInstall \in Seq(Steps) /\ Len(EachInstall) = Len(Order) /\ Len(Order) \in Nat
  /\ DOMAIN Order = 1..Len(Order)
  /\ \A i \in 1..Len(Order) : Order[i] \in Targets /\ EachInstall[i] = Step("install", Order[i])
<1>. DEFINE n == Len(Order)
<1>1. Order \in Seq(Targets) /\ n \in Nat /\ DOMAIN Order = 1..n
      /\ \A i \in 1..n : Order[i] \in Targets
  BY CloneConstants, LenProperties, ElementOfSeq
<1>2. \A u \in Targets : Step("install", u) \in Steps
  BY DEF Step, Steps, Doable
<1>3. EachInstall \in [1..n -> Steps] /\ \A i \in 1..n : EachInstall[i] = Step("install", Order[i])
  BY <1>1, <1>2 DEF EachInstall
<1>4. EachInstall \in Seq(Steps)
  BY <1>1, <1>3, SeqDef
<1>5. DOMAIN EachInstall = 1..n /\ DOMAIN EachInstall = 1..Len(EachInstall) /\ Len(EachInstall) \in Nat
  BY <1>3, <1>4, LenProperties
<1>6. Len(EachInstall) = n
  BY <1>1, <1>5
<1>. QED
  BY <1>1, <1>3, <1>4, <1>6

(* At most one look, at a target that runs.                                *)
LEMMA LookIs ==
  Look = <<>> \/ \E u \in Targets : Look = <<Step("verify", u)>>
<1>. DEFINE running == {i \in DOMAIN Order : Order[i] \in Autostart}
<1>1. CASE running = {}
  BY <1>1 DEF Look
<1>2. CASE running # {}
  <2>1. running \subseteq Nat
    BY EachIs
  <2>2. \E x \in running : \A y \in running : x <= y
    <3>. HIDE DEF running
    <3>. QED
      BY <1>2, <2>1, Least
  <2>3. Min(running) \in running
    <3>. HIDE DEF running
    <3>. QED
      BY <2>2, Zenon DEF Min
  <2>4. Order[Min(running)] \in Targets
    BY <2>3, EachIs
  <2>5. Look = <<Step("verify", Order[Min(running)])>>
    BY <1>2 DEF Look
  <2>. QED
    BY <2>4, <2>5
<1>. QED
  BY <1>1, <1>2

LEMMA InstallsIs == Planned(EachInstall \o Look, "installs")
<1>. DEFINE n == Len(Order)
            plan == EachInstall \o Look
<1>1. /\ EachInstall \in Seq(Steps) /\ Len(EachInstall) = n /\ n \in Nat
      /\ \A i \in 1..n : Order[i] \in Targets /\ EachInstall[i] = Step("install", Order[i])
      /\ DOMAIN Order = 1..n
  BY EachIs
<1>2. Look \in Seq(Steps) /\ \A i \in DOMAIN Look : Look[i].do = "verify"
  <2>1. \A u \in Targets : Step("verify", u) \in Steps /\ Step("verify", u).do = "verify"
    BY DEF Step, Steps
  <2>2. CASE Look = <<>>
    BY <2>2, EmptySeq
  <2>3. ASSUME NEW u \in Targets, Look = <<Step("verify", u)>>
        PROVE  Look \in Seq(Steps) /\ \A i \in DOMAIN Look : Look[i].do = "verify"
    <3>1. \A s \in Steps : <<s>> \in Seq(Steps) /\ DOMAIN <<s>> = {1} /\ <<s>>[1] = s
      OBVIOUS
    <3>. QED
      BY <2>1, <2>3, <3>1
  <2>. QED
    BY <2>2, <2>3, LookIs
<1>3. Len(Look) \in Nat /\ DOMAIN Look = 1..Len(Look)
  BY <1>2, LenProperties
<1>. HIDE DEF n
<1>4. /\ plan \in Seq(Steps) /\ Len(plan) = n + Len(Look)
      /\ \A i \in 1..Len(plan) : plan[i] = IF i <= n THEN EachInstall[i] ELSE Look[i - n]
  BY <1>1, <1>2, ConcatProperties
<1>. HIDE DEF plan
<1>5. DOMAIN plan = 1..Len(plan)
  BY <1>4, LenProperties
<1>6. ASSUME NEW i \in DOMAIN plan
      PROVE  \/ i \in 1..n /\ plan[i].do = "install" /\ plan[i].t = Order[i]
             \/ plan[i].do = "verify"
  <2>1. CASE i <= n
    <3>1. i \in 1..n /\ plan[i] = Step("install", Order[i])
      BY <1>1, <1>4, <1>5, <2>1
    <3>. QED
      BY <3>1 DEF Step
  <2>2. CASE ~ (i <= n)
    <3>1. i - n \in DOMAIN Look /\ plan[i] = Look[i - n]
      BY <1>1, <1>3, <1>4, <1>5, <2>2
    <3>. QED
      BY <1>2, <3>1
  <2>. QED
    BY <2>1, <2>2
<1>7. \A i, k \in DOMAIN plan :
        plan[i].do = "install" /\ plan[k].do = "install" /\ plan[i].t = plan[k].t => i = k
  <2> SUFFICES ASSUME NEW i \in DOMAIN plan, NEW k \in DOMAIN plan,
                      plan[i].do = "install", plan[k].do = "install", plan[i].t = plan[k].t
               PROVE  i = k
    OBVIOUS
  <2>1. i \in DOMAIN Order /\ k \in DOMAIN Order /\ Order[i] = Order[k]
    BY <1>1, <1>6
  <2>. QED
    BY <2>1, CloneConstants
<1>8. plan # <<>>
  <2>1. n # 0
    <3>1. FailoverTarget \in Targets
      BY CloneConstants
    <3>2. DOMAIN Order # {}
      BY <3>1 DEF Targets, ToSet
    <3>. QED
      BY <1>1, <3>2
  <2>. QED
    BY <1>1, <1>3, <1>4, <2>1, EmptySeq
<1>. QED
  BY <1>4, <1>6, <1>7, <1>8 DEF Planned, Series, plan

LEMMA PlanIs ==
  ASSUME NEW j \in Doable \cup Series, NEW t \in Targets
  PROVE  Planned(Plan(j, t), j)
<1>1. CASE j \notin Series
  <2>1. Plan(j, t) = <<[do |-> j, t |-> t]>> /\ [do |-> j, t |-> t] \in Steps
    BY <1>1 DEF Plan, Step, Steps, Series
  <2>. QED
    BY <1>1, <2>1 DEF Planned, Series
<1>3. CASE j = "installs"
  BY <1>3, InstallsIs DEF Plan
<1>2. CASE j = "run"
  <2>. DEFINE first == <<Step("stage", FailoverTarget)>>
              each == EachInstall
              last == <<Step("drill", FailoverTarget)>>
              n == Len(Order)
              front == first \o each
              plan == front \o last
  <2>1. Order \in Seq(Targets) /\ n \in Nat /\ DOMAIN Order = 1..n
        /\ \A i \in 1..n : Order[i] \in Targets
    BY CloneConstants, EachIs
  <2>2. /\ Step("stage", FailoverTarget) \in Steps /\ Step("drill", FailoverTarget) \in Steps
        /\ \A u \in Targets : Step("install", u) \in Steps
    BY CloneConstants DEF Step, Steps, Doable
  <2>3. /\ first \in Seq(Steps) /\ Len(first) = 1 /\ first[1] = Step("stage", FailoverTarget)
        /\ last \in Seq(Steps) /\ Len(last) = 1 /\ last[1] = Step("drill", FailoverTarget)
    BY <2>2
  <2>4. \A i \in 1..n : each[i] = Step("install", Order[i])
    BY EachIs
  <2>5. each \in Seq(Steps) /\ Len(each) = n
    BY EachIs
  <2>. HIDE DEF first, each, last
  <2>6. /\ front \in Seq(Steps) /\ Len(front) = n + 1
        /\ \A i \in 1..(n + 1) : front[i] = IF i = 1 THEN first[1] ELSE each[i - 1]
    <3>1. /\ front \in Seq(Steps) /\ Len(front) = Len(first) + Len(each)
          /\ \A i \in 1..(Len(first) + Len(each)) :
               front[i] = IF i <= Len(first) THEN first[i] ELSE each[i - Len(first)]
      <4>1. \A a, b \in Seq(Steps) :
              /\ a \o b \in Seq(Steps) /\ Len(a \o b) = Len(a) + Len(b)
              /\ \A i \in 1..(Len(a) + Len(b)) :
                   (a \o b)[i] = IF i <= Len(a) THEN a[i] ELSE b[i - Len(a)]
        BY ConcatProperties
      <4>2. first \in Seq(Steps) /\ each \in Seq(Steps)
        BY <2>3, <2>5
      <4>. QED
        BY <4>1, <4>2
    <3>. HIDE DEF front, n
    <3>. QED
      BY <2>1, <2>3, <2>5, <3>1
  <2>. HIDE DEF front, n
  <2>7. /\ plan \in Seq(Steps) /\ Len(plan) = n + 2
        /\ \A i \in 1..(n + 1) : plan[i] = front[i]
        /\ plan[n + 2] = last[1]
    <3>1. plan = Append(front, Step("drill", FailoverTarget))
      BY <2>2, <2>6, AppendIsConcat DEF last
    <3>. HIDE DEF plan
    <3>2. /\ plan \in Seq(Steps) /\ Len(plan) = Len(front) + 1
          /\ \A i \in 1..Len(front) : plan[i] = front[i]
          /\ plan[Len(front) + 1] = Step("drill", FailoverTarget)
      BY <2>2, <2>6, <3>1, AppendProperties
    <3>3. Len(front) = n + 1 /\ n + 1 + 1 = n + 2
      BY <2>1, <2>6
    <3>. QED
      BY <2>3, <3>2, <3>3
  <2>8. Plan(j, t) = plan
    <3>1. first \o each \o last = plan
      BY DEF front
    <3>. QED
      BY <1>2, <3>1 DEF Plan, first, each, last
  <2>. HIDE DEF plan
  <2>9. DOMAIN plan = 1..(n + 2)
    BY <2>7, LenProperties
  <2>10. plan[1].do = "stage"
    <3>1. 1 \in 1..(n + 1)
      BY <2>1
    <3>2. plan[1] = Step("stage", FailoverTarget)
      BY <2>3, <2>6, <2>7, <3>1
    <3>. QED
      BY <3>2 DEF Step
  <2>11. ASSUME NEW i \in 2..(n + 1)
         PROVE  plan[i].do = "install" /\ plan[i].t = Order[i - 1] /\ i - 1 \in 1..n
    <3>1. i - 1 \in 1..n /\ i \in 1..(n + 2) /\ i \in 1..(n + 1) /\ i # 1 /\ i <= n + 1
      BY <2>1
    <3>2. plan[i] = Step("install", Order[i - 1])
      BY <2>4, <2>6, <2>7, <3>1
    <3>. QED
      BY <3>1, <3>2 DEF Step
  <2>12. plan[n + 2].do = "drill"
    BY <2>3, <2>7 DEF Step
  <2>13. \A i \in DOMAIN plan : i = 1 \/ i \in 2..(n + 1) \/ i = n + 2
    BY <2>1, <2>9
  <2>14. \A i \in DOMAIN plan : plan[i].do \in {"stage", "install", "drill"}
                                /\ (plan[i].do = "install" => i \in 2..(n + 1))
    BY <2>10, <2>11, <2>12, <2>13
  <2>15. ASSUME NEW i \in 2..(n + 1), NEW k \in 2..(n + 1), plan[i].t = plan[k].t
         PROVE  i = k
    <3>1. Order[i - 1] = Order[k - 1] /\ i - 1 \in DOMAIN Order /\ k - 1 \in DOMAIN Order
      BY <2>1, <2>11, <2>15
    <3>2. i - 1 = k - 1
      BY <3>1, CloneConstants
    <3>. QED
      BY <2>1, <3>2
  <2>16. ASSUME NEW u \in Targets
         PROVE  \E i \in DOMAIN plan : i # 1 /\ plan[i].do = "install" /\ plan[i].t = u
    <3>1. PICK k \in 1..n : Order[k] = u
      BY <2>1 DEF Targets, ToSet
    <3>2. k + 1 \in 2..(n + 1) /\ k + 1 - 1 = k /\ k + 1 \in 1..(n + 2) /\ k + 1 # 1
      BY <2>1
    <3>. QED
      BY <2>9, <2>11, <3>1, <3>2
  <2>17. plan # <<>>
    BY <2>1, <2>7, EmptySeq
  <2>. QED
    BY <1>2, <2>7, <2>8, <2>10, <2>14, <2>15, <2>16, <2>17 DEF Planned, Series
<1>. QED
  BY <1>1, <1>2, <1>3 DEF Series

(* A process that has just started can rely on all it needs.               *)
LEMMA StartsKeep ==
  ASSUME NEW p \in Clones, NEW j \in Doable \cup Series, NEW t \in Targets, CloneInv,
         Starts(p, j, t), Counts,
         budget'.runs + budget'.commands = budget.runs + budget.commands + 1
  PROVE  CloneInv'
<1>. DEFINE todo == Plan(j, t)
            n == budget.runs + budget.commands
            since == IF j = "run" THEN primary ELSE 0
            d == [NoClone EXCEPT !.pc = First(Head(todo)), !.job = j, !.todo = todo,
                                 !.stamp = 1 + budget.runs + budget.commands, !.since = since]
<1>1. WorldOK /\ clone \in [Clones -> CloneRecords] /\ budget \in Budgets /\ n \in Nat
  BY DEF CloneInv, WorldOK, Budgets
<1>2. /\ primary' = primary /\ staged' = staged /\ payload' = payload /\ disk' = disk /\ up' = up
         /\ ingress' = ingress
      /\ snaps' = snaps /\ after' = after /\ spool' = spool /\ clone' = [clone EXCEPT ![p] = d]
         /\ clone[p].pc = "idle"
  BY DEF Starts, standby, At
<1>3. /\ todo \in Seq(Steps) /\ todo # <<>> /\ DOMAIN todo = 1..Len(todo) /\ 1 \in DOMAIN todo
      /\ Head(todo) = todo[1] /\ todo[1].do \in Doable \cup {"verify"}
  <2>1. todo \in Seq(Steps) /\ todo # <<>>
    BY PlanIs DEF Planned
  <2>2. DOMAIN todo = 1..Len(todo) /\ Len(todo) \in Nat \ {0} /\ Head(todo) = todo[1]
    BY <2>1, LenProperties, EmptySeq
  <2>3. todo[1] \in Steps
    BY <2>1, <2>2, ElementOfSeq
  <2>. QED
    BY <2>1, <2>2, <2>3 DEF Steps
<1>4. since \in Generations /\ since <= primary /\ primary \in Generations
  BY <1>1, CloneConstants, GenerationsAre DEF WorldOK, Generations
<1>5. 1 + budget.runs + budget.commands = n + 1 /\ n + 1 \in Nat
  BY <1>1 DEF Budgets
<1>6. /\ First(todo[1]) \in {"stage", "check", "drillup", "choose", "failover", "verify"}
      /\ First(todo[1]) = "check" <=> todo[1].do = "install"
      /\ First(todo[1]) = "stage" => todo[1].do = "stage"
      /\ First(todo[1]) = "choose" => todo[1].do = "rollback"
  BY <1>3, FirstIs
<1>7. /\ d.pc = First(todo[1]) /\ d.job = j /\ d.todo = todo /\ d.stamp = n + 1 /\ d.since = since
         /\ d.others = {}
      /\ d \in CloneRecords
  <2>1. First(todo[1]) \in Points /\ j \in Doable \cup Series \cup {"none"}
    BY <1>6 DEF Points, Staging, Checking, Drilling, Rolling
  <2>2. NoClone \in CloneRecords /\ NoClone.others = {}
    BY NoCloneIs DEF NoClone
  <2>. HIDE DEF n, since, todo
  <2>. QED
    BY <1>3, <1>4, <1>5, <2>1, <2>2 DEF CloneRecords
<1>. HIDE DEF d, todo, n, since
<1>8. Planned(todo, j)
  BY PlanIs DEF todo
<1>8a. Phases(d)
  BY <1>3, <1>6, <1>7, <1>8 DEF Planned, Phases, Staging, Checking, Placing, Rolling, Doable,
     Series
<1>9. StageLocal(d, staged', primary') /\ PayloadLocal(d, payload')
  <2>1. j = "run" => d.pc = "stage"
    BY <1>7, <1>8 DEF Planned, First
  <2>. QED
    BY <1>2, <1>4, <1>6, <1>7, <2>1 DEF StageLocal, PayloadLocal, RunsAlone
<1>10. DiskLocal(d, disk')
  <2> SUFFICES ASSUME RunsAlone(d), NEW u \in Targets
               PROVE  \E i \in DOMAIN d.todo : Awaits(d, i) /\ d.todo[i].t = u
    BY DEF DiskLocal
  <2>. QED
    BY <1>7, <1>8 DEF Planned, RunsAlone, Awaits
<1>11. FreshLocal(d, snaps')
  <2>1. ASSUME NEW i \in DOMAIN todo, NEW m \in DOMAIN snaps[todo[i].t]
        PROVE  snaps[todo[i].t][m].stamp # n + 1
    <3>1. todo[i].t \in Targets
      BY <1>7, TodoIs
    <3>2. snaps[todo[i].t] \in Seq(Snapshots) /\ snaps[todo[i].t][m].stamp <= n
      BY <1>1, <3>1 DEF CloneInv, Numbered, WorldOK, n
    <3>3. snaps[todo[i].t][m] \in Snapshots
      BY <3>2, LenProperties, ElementOfSeq
    <3>. QED
      BY <1>1, <3>2, <3>3 DEF Snapshots
  <2>2. \A i, k \in DOMAIN todo : todo[i].do = "install" /\ todo[k].do = "install"
            /\ todo[i].t = todo[k].t => i = k
    BY <1>8 DEF Planned
  <2>. QED
    BY <1>2, <1>7, <2>1, <2>2 DEF FreshLocal, Installs
<1>12. InstallLocal(d, payload', disk', snaps') /\ RollLocal(d, disk', snaps')
  BY <1>6, <1>7 DEF InstallLocal, RollLocal, Checking, Placing, Rolling
<1>13. clone' \in [Clones -> CloneRecords] /\ clone'[p] = d /\ OthersTold(p, {})
  BY <1>1, <1>2, <1>7 DEF OthersTold, Told
<1>14. Wrote({}) /\ WorldOK'
  BY <1>1, <1>2, GenerationsAre DEF Wrote, WorldOK, Counts, Budgets
<1>15. \A q \in Clones : Local(q)'
  <2>1. LocalIn(clone'[p], staged', primary', payload', disk', snaps')
    BY <1>8a, <1>9, <1>10, <1>11, <1>12, <1>13 DEF LocalIn
  <2>. QED
    BY <1>13, <1>14, <2>1, Assembled
<1>16. AfterOK'
  BY <1>2, PromisesStay
<1>17. UpOK'
  BY <1>2, <1>13, UpStays DEF Counts
<1>18. IngressOK'
  BY <1>2, <1>13, IngressStays DEF At, Counts
<1>19. Numbered'
  <2>1. budget' \in Budgets /\ budget'.runs + budget'.commands = n + 1
    BY DEF Counts, n
  <2>2. ASSUME NEW q \in Clones
        PROVE  clone'[q].stamp <= n + 1
    <3>1. clone[q].stamp <= n /\ clone[q].stamp \in Nat
      BY <1>1 DEF CloneInv, Numbered, CloneRecords, n
    <3>. QED
      BY <1>1, <1>7, <1>13, <3>1 DEF OthersTold, Told
  <2>3. ASSUME NEW u \in Targets, NEW i \in DOMAIN snaps[u]
        PROVE  snaps[u][i].stamp <= n + 1
    <3>1. snaps[u][i].stamp <= n /\ snaps[u] \in Seq(Snapshots)
      BY <1>1 DEF CloneInv, Numbered, WorldOK, n
    <3>2. snaps[u][i] \in Snapshots
      BY <3>1, LenProperties, ElementOfSeq
    <3>. QED
      BY <1>1, <3>1, <3>2 DEF Snapshots
  <2>. QED
    BY <1>2, <2>1, <2>2, <2>3 DEF Numbered
<1>. QED
  BY <1>13, <1>14, <1>15, <1>16, <1>17, <1>18, <1>19 DEF CloneInv

LEMMA CountedIs ==
  ASSUME CloneInv, up' = up,
                   \/ budget' = [budget EXCEPT !.runs = @ + 1]
                   \/ budget' = [budget EXCEPT !.commands = @ + 1]
  PROVE  Counts /\ budget'.runs + budget'.commands = budget.runs + budget.commands + 1
<1>1. budget \in Budgets
  BY DEF CloneInv, WorldOK, Budgets
<1>. QED
  BY <1>1 DEF Budgets, Counts

LEMMA StartRunKeeps == ASSUME CloneInv, StartRun PROVE CloneInv'
<1>1. Cron \in Clones /\ FailoverTarget \in Targets
  BY CloneConstants DEF Clones
<1>2. Starts(Cron, "run", FailoverTarget) /\ budget' = [budget EXCEPT !.runs = @ + 1]
  BY DEF StartRun
<1>. QED
  BY <1>1, <1>2, CountedIs, StartsKeep DEF Starts, standby, Series

LEMMA StartCommandKeeps ==
  ASSUME NEW p \in Operators, NEW j \in Commands, NEW t \in Named, CloneInv, StartCommand(p, j, t)
  PROVE  CloneInv'
<1>1. p \in Clones /\ j \in Doable \cup Series /\ t \in Targets
  BY CloneConstants DEF Clones, Doable, Series
<1>2. /\ Starts(p, j, t)
      /\ \/ budget' = [budget EXCEPT !.runs = @ + 1]
         \/ budget' = [budget EXCEPT !.commands = @ + 1]
  BY DEF StartCommand
<1>. QED
  BY <1>1, <1>2, CountedIs, StartsKeep DEF Starts, standby

LEMMA CloneInitIs == CloneInit => CloneInv
<1> SUFFICES ASSUME CloneInit
             PROVE  CloneInv
  OBVIOUS
<1>1. PICK refreshed \in BOOLEAN :
        /\ staged = (IF refreshed THEN Filled ELSE Empty)
        /\ payload = staged
        /\ disk = [t \in Targets |-> payload.part]
        /\ up = (IF refreshed THEN Autostart ELSE {})
        /\ snaps = [t \in Targets |-> IF refreshed THEN <<[stamp |-> 0, part |-> NoParts]>> ELSE <<>>]
  BY DEF CloneInit
<1>2. /\ primary = 0 /\ ingress = TRUE /\ clone = [p \in Clones |-> NoClone] /\ spool = "none"
      /\ after = [t \in Targets |-> NoPromise]
      /\ budget = [runs |-> 0, commands |-> 0, failures |-> 0, leftUp |-> {}, stale |-> {}]
  BY DEF CloneInit
<1>3. 0 \in Generations /\ 0 \in Contents /\ NoParts \in [Parts -> Contents]
  BY CloneConstants DEF Generations, Contents, NoParts
<1>4. Filled \in Directories /\ Empty \in Directories
  BY <1>3 DEF Filled, Empty, Directories
<1>5. staged \in Directories /\ payload \in Directories /\ payload.part \in [Parts -> Contents]
  BY <1>1, <1>4 DEF Directories
<1>6. disk \in [Targets -> [Parts -> Contents]] /\ up \subseteq Targets
  BY <1>1, <1>5, CloneConstants
<1>7. [stamp |-> 0, part |-> NoParts] \in Snapshots
  BY <1>3 DEF Snapshots
<1>8. \A s \in Snapshots : <<s>> \in Seq(Snapshots) /\ DOMAIN <<s>> = {1} /\ <<s>>[1] = s
  OBVIOUS
<1>9. /\ snaps \in [Targets -> Seq(Snapshots)]
      /\ \A t \in Targets : \A i \in DOMAIN snaps[t] : snaps[t][i].stamp = 0
  BY <1>1, <1>7, <1>8, EmptySeq
<1>10. after \in [Targets -> Promises] /\ \A t \in Targets : after[t].by = "none"
  BY <1>2, <1>3 DEF NoPromise, Promises
<1>11. budget \in Budgets /\ budget.runs + budget.commands = 0
  BY <1>2 DEF Budgets
<1>12. WorldOK
  BY <1>2, <1>3, <1>5, <1>6, <1>9, <1>10, <1>11 DEF WorldOK
<1>13. clone \in [Clones -> CloneRecords] /\ \A p \in Clones : clone[p] = NoClone
  BY <1>2, NoCloneIs
<1>14. Numbered
  BY <1>9, <1>11, <1>13, NoCloneIs DEF Numbered
<1>15. ASSUME NEW p \in Clones
       PROVE  Local(p)
  <2>1. NoClone.pc = "idle" /\ NoClone.todo = <<>> /\ NoClone.job = "none" /\ NoClone.since = 0
    BY DEF NoClone
  <2>2. StageLocal(NoClone, staged, primary)
    BY <1>2, <2>1 DEF StageLocal
  <2>3. Phases(NoClone) /\ PayloadLocal(NoClone, payload) /\ DiskLocal(NoClone, disk)
    BY <2>1 DEF Phases, PayloadLocal, RunsAlone, DiskLocal, Rolling, Checking, Placing, Staging
  <2>4. FreshLocal(NoClone, snaps) /\ InstallLocal(NoClone, payload, disk, snaps)
        /\ RollLocal(NoClone, disk, snaps)
    BY <2>1 DEF FreshLocal, InstallLocal, RollLocal, Rolling, Checking, Placing
  <2>. QED
    BY <1>13, <2>2, <2>3, <2>4 DEF Local, LocalIn
<1>16. AfterOK
  BY <1>10 DEF AfterOK, TargetAsTold
<1>17. UpOK
  BY <1>1 DEF UpOK
<1>18. IngressOK
  BY <1>2, Zenon DEF IngressOK
<1>. QED
  BY <1>12, <1>13, <1>14, <1>15, <1>16, <1>17, <1>18 DEF CloneInv

LEMMA CloneStepKeeps == CloneInv /\ [CloneNext]_cloneVars => CloneInv'
<1> SUFFICES ASSUME CloneInv, [CloneNext]_cloneVars
             PROVE  CloneInv'
  OBVIOUS
<1>1. CASE PrimaryChanges
  BY <1>1, PrimaryChangesKeeps
<1>2. CASE StartRun
  BY <1>2, StartRunKeeps
<1>3. ASSUME NEW p \in Operators, NEW j \in Commands, NEW t \in Named, StartCommand(p, j, t)
      PROVE  CloneInv'
  BY <1>3, StartCommandKeeps
<1>4. ASSUME NEW p \in Clones, CommandFails(p) \/ ProcessDies(p) \/ Report(p)
      PROVE  CloneInv'
  BY <1>4, CommandFailsKeeps, ProcessDiesKeeps, ReportKeeps
<1>5. ASSUME NEW p \in Clones, StageClears(p) \/ StageStores(p) \/ StageManifest(p)
      PROVE  CloneInv'
  BY <1>5, StageClearsKeeps, StageStoresKeeps, StageManifestKeeps
<1>6. ASSUME NEW p \in Clones, NEW k \in Parts, StageFiles(p, k)
      PROVE  CloneInv'
  BY <1>6, StageFilesKeeps
<1>7. ASSUME NEW p \in Clones, NEW k \in Parts \cup {"manifest"}, Ship(p, k)
      PROVE  CloneInv'
  BY <1>7, ShipKeeps
<1>8. ASSUME NEW p \in Clones, Installing(p)
      PROVE  CloneInv'
  BY <1>8, InstallChecksKeeps, InstallDownKeeps, KeepStoresKeeps, KeepFilesKeeps, PutKeeps,
     AcmeStopsKeeps,
     AcmeMergesKeeps, InstallStartsKeeps DEF Installing
<1>9. ASSUME NEW p \in Clones,
             Verify(p) \/ DrillUp(p) \/ DrillVerifies(p) \/ DrillDown(p) \/ Failover(p)
      PROVE  CloneInv'
  BY <1>9, VerifyKeeps, DrillUpKeeps, DrillVerifiesKeeps, DrillDownKeeps, FailoverKeeps
<1>10. ASSUME NEW p \in Clones,
              RollbackChooses(p) \/ RollbackDown(p) \/ RollbackRestores(p) \/ RollbackUp(p)
       PROVE  CloneInv'
  BY <1>10, RollbackChoosesKeeps, RollbackDownKeeps, RollbackRestoresKeeps, RollbackUpKeeps
<1>11. CASE UNCHANGED cloneVars
  BY <1>11 DEF cloneVars, standby, CloneInv, WorldOK, Numbered, Local, AfterOK, TargetAsTold, UpOK,
     IngressOK, At
<1>. QED
  BY <1>1, <1>2, <1>3, <1>4, <1>5, <1>6, <1>7, <1>8, <1>9, <1>10, <1>11 DEF CloneNext

(* What every process of the clone relies on while nobody else has written *)
(* there, and what the targets hold, for every schedule of the processes.  *)
THEOREM CloneInvariant == CloneSpec => []CloneInv
  BY CloneInitIs, CloneStepKeeps, PTL DEF CloneSpec

-----------------------------------------------------------------------------
(* The properties of the clone                                             *)

(* The state of the clone has its types, and Traefik is away only while    *)
(* install.sh merges a certificate, or after a command that failed.        *)
THEOREM CloneTypesHold == CloneSpec => []CloneTypes
<1>1. CloneInv => CloneTypes
  <2> SUFFICES ASSUME CloneInv
               PROVE  CloneTypes
    OBVIOUS
  <2>1. ingress \/ budget.failures > 0 \/ \E p \in Clones : At(p, "merge")
    BY Zenon DEF CloneInv, IngressOK
  <2>2. /\ primary \in Generations /\ staged \in Directories /\ payload \in Directories
        /\ disk \in [Targets -> [Parts -> Contents]] /\ up \subseteq Targets /\ ingress \in BOOLEAN
        /\ snaps \in [Targets -> Seq(Snapshots)] /\ spool \in {"none", "ok", "crit"}
    BY DEF CloneInv, WorldOK
  <2>3. ASSUME NEW t \in Targets, NEW i \in DOMAIN snaps[t]
        PROVE  snaps[t][i].part \in [Parts -> Contents]
    <3>1. snaps[t] \in Seq(Snapshots)
      BY <2>2
    <3>2. snaps[t][i] \in Snapshots
      BY <3>1, LenProperties, ElementOfSeq
    <3>. QED
      BY <3>2 DEF Snapshots
  <2>4. \A p \in Clones : clone[p].others \subseteq Resources /\ clone[p].since \in Generations
    BY DEF CloneInv, CloneRecords
  <2>5. budget.leftUp \cup budget.stale \subseteq Targets
    BY DEF CloneInv, WorldOK, Budgets
  <2>. QED
    BY <2>1, <2>2, <2>3, <2>4, <2>5 DEF CloneTypes, Directories
<1>. QED
  BY <1>1, CloneInvariant, PTL

(* install.sh and rollback.sh: a target holds what the last of them to     *)
(* exit 0 said that it does, for any number of targets, of operators'      *)
(* commands beside the schedule, and of failures anywhere.                 *)
THEOREM TargetsAreAsTold == CloneSpec => []TargetAsTold
<1>1. CloneInv => TargetAsTold
  BY DEF CloneInv, AfterOK
<1>. QED
  BY <1>1, CloneInvariant, PTL

(* drill, failover: a stack with the primary's identity runs while it is   *)
(* drilled, or because a failover started it, a drill of it was cut off or *)
(* the `down` of one failed, and no `down` of it has worked since.         *)
THEOREM OnePrimary == CloneSpec => []NoSecondPrimary
<1>1. CloneInv => NoSecondPrimary
  <2> SUFFICES ASSUME CloneInv, NEW t \in up \ Autostart, t \notin budget.leftUp
               PROVE  \E p \in Clones : clone[p].pc \in {"drilled", "drilldown"} /\ Doing(p) = t
    BY Zenon DEF NoSecondPrimary
  <2>1. PICK p \in Clones : clone[p].pc \in {"drilled", "drilldown"} /\ clone[p].todo[1].t = t
    BY DEF CloneInv, UpOK
  <2>. QED
    BY <2>1, AtTarget
<1>. QED
  BY <1>1, CloneInvariant, PTL

(* run_cycle: at the report of a cycle, on schedule or by hand, every      *)
(* target that was left to it has the stores of the primary as they were   *)
(* when it began, or newer ones.                                           *)
THEOREM ReportsAreHonest == CloneSpec => []RunHonest
<1>1. CloneInv => RunHonest
  <2> SUFFICES ASSUME CloneInv, NEW p \in Clones, At(p, "report"), NEW t \in Targets,
                      clone[p].others \cap {t, "payload", "staged"} = {}
               PROVE  disk[t]["db"] >= clone[p].since
    BY DEF RunHonest
  <2>. DEFINE c == clone[p]
  <2>2. Phases(c) /\ DiskLocal(c, disk) /\ c.pc = "report"
    BY InvariantOf DEF At
  <2>3. c.job = "run" /\ c.todo = <<>> /\ Alone(c, t) /\ Alone(c, "payload") /\ Alone(c, "staged")
    BY <2>2 DEF Phases, Alone
  <2>4. \A none : none = <<>> => DOMAIN none = {}
    OBVIOUS
  <2>. QED
    BY <2>2, <2>3, <2>4 DEF DiskLocal, RunsAlone, Awaits
<1>. QED
  BY <1>1, CloneInvariant, PTL

(* The stores reach the payload in a shipment only.                        *)
LEMMA PayloadStays ==
  ASSUME [CloneNext]_cloneVars, payload' # payload
  PROVE  \E p \in Clones, k \in Parts \cup {"manifest"} : Ship(p, k)
<1>. USE DEF standby
<1>1. ~ UNCHANGED cloneVars
  BY DEF cloneVars
<1>2. ~ PrimaryChanges /\ ~ StartRun /\ \A p \in Operators, j \in Commands,
                                            t \in Named : ~ StartCommand(p, j, t)
  BY DEF PrimaryChanges, StartRun, StartCommand, Starts
<1>3. ASSUME NEW p \in Clones
      PROVE  /\ ~ CommandFails(p) /\ ~ ProcessDies(p) /\ ~ Report(p) /\ ~ Verify(p)
             /\ ~ StageClears(p) /\ ~ StageStores(p) /\ ~ StageManifest(p)
                /\ \A k \in Parts : ~ StageFiles(p, k)
  BY DEF CommandFails, ProcessDies, Report, Verify, StageClears, StageStores, StageManifest,
     StageFiles
<1>4. ASSUME NEW p \in Clones
      PROVE  ~ Installing(p)
  BY DEF Installing, InstallChecks, InstallDown, KeepStores, KeepFiles, Put, AcmeStops, AcmeMerges,
     InstallStarts
<1>5. ASSUME NEW p \in Clones
      PROVE  /\ ~ DrillUp(p) /\ ~ DrillVerifies(p) /\ ~ DrillDown(p) /\ ~ Failover(p)
             /\ ~ RollbackChooses(p) /\ ~ RollbackDown(p) /\ ~ RollbackRestores(p)
                /\ ~ RollbackUp(p)
  BY DEF DrillUp, DrillVerifies, DrillDown, Failover, RollbackChooses, RollbackDown,
     RollbackRestores, RollbackUp
<1>. QED
  BY <1>1, <1>2, <1>3, <1>4, <1>5 DEF CloneNext

LEMMA GateStep ==
  ASSUME CloneInv, [CloneNext]_cloneVars, NEW g \in Generations,
         payload'.part["db"] = g, payload.part["db"] # g, Rows[g] < MinRows
  PROVE  \E p \in Clones : "staged" \in clone[p].others
<1>1. PICK p \in Clones, k \in Parts \cup {"manifest"} : Ship(p, k)
  BY PayloadStays
<1>. DEFINE c == clone[p]
<1>2. c.pc = "ship" /\ WorldOK /\ StageLocal(c, staged, primary)
  BY <1>1, InvariantOf DEF Ship, At
<1>3. payload \in Directories /\ payload.part \in [Parts -> Contents]
      /\ payload.manifest \in [Parts -> Contents]
      /\ staged.part \in [Parts -> Contents] /\ staged.manifest \in [Parts -> Contents]
  BY <1>2 DEF WorldOK, Directories
<1>4. payload' = IF k = "manifest" THEN [payload EXCEPT !.manifest = staged.manifest]
                 ELSE [payload EXCEPT !.part[k] = staged.part[k]]
  BY <1>1 DEF Ship
<1>5. k = "db"
  <2>1. CASE k = "manifest"
    BY <1>3, <1>4, <2>1, DirectoriesAre
  <2>2. CASE k \in Parts \ {"db"}
    <3>1. payload'.part = [payload.part EXCEPT ![k] = staged.part[k]]
      BY <1>3, <1>4, <2>2, DirectoriesAre DEF Parts
    <3>. QED
      BY <1>3, <2>2, <3>1 DEF Parts
  <2>. QED
    BY <2>1, <2>2
<1>6. staged.part["db"] = g
  <2>1. payload'.part = [payload.part EXCEPT !["db"] = staged.part["db"]]
    BY <1>3, <1>4, <1>5, DirectoriesAre DEF Parts
  <2>. QED
    BY <1>3, <2>1 DEF Parts
<1>7. ~ Enough(g)
  <2>1. Rows[g] \in Nat /\ MinRows \in Nat
    BY CloneConstants
  <2>. QED
    BY <2>1 DEF Enough
<1>. QED
  BY <1>2, <1>6, <1>7 DEF StageLocal, Alone

(* stage: stores below CLONE_MIN_ROWS reach the payload only when another  *)
(* process has written to the stage directory during one's time.           *)
THEOREM GateIsKept == CloneSpec => GateHolds
<1>1. CloneInv /\ [CloneNext]_cloneVars
      => [\A g \in Generations :
            /\ payload'.part["db"] = g /\ payload.part["db"] # g /\ Rows[g] < MinRows
            => \E p \in Clones : "staged" \in clone[p].others]_cloneVars
  BY GateStep
<1>. QED
  BY <1>1, CloneInvariant, PTL DEF CloneSpec, GateHolds

(* The types of both jobs, as they are checked side by side.               *)
THEOREM RecoveryTypes == Spec => []TypeOK
<1>1. Init => CloneInit /\ BackupInit
  BY DEF Init
<1>2. [Next]_<<cloneVars, backupVars, job>> => [CloneNext]_cloneVars /\ [BackupNext]_backupVars
  BY DEF Next
<1>3. CloneTypes /\ BackupTypes => TypeOK
  BY DEF TypeOK
<1>. QED
  BY <1>1, <1>2, <1>3, CloneTypesHold, BackupTypesHold, PTL DEF Spec, CloneSpec, BackupSpec
=============================================================================
