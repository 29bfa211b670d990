---------------------------- MODULE OffsiteBackup ----------------------------
(***************************************************************************)
(* backup_offsite.py: one archive per run is packed in a local work        *)
(* directory, pushed to another host, checked there, and the oldest ones   *)
(* are pruned; the outcome goes to a mail and a Checkmk file.              *)
(*                                                                         *)
(* A scheduled run and runs by hand share the work directory and the       *)
(* remote one. An archive is its number in the order of their packing, the *)
(* time that `ls -1t` sorts by.                                            *)
(***************************************************************************)
EXTENDS Integers, FiniteSets

CONSTANTS
  Packers,      \* processes, scheduled or by hand
  Keeps,        \* values of OFFSITE_KEEP and --keep
  MaxBackups,   \* bound: archives packed
  MaxDamaged,   \* bound: archives that the far side writes damaged
  MaxBreaks     \* bound: failing commands and dying processes

ASSUME BackupConstants ==
  /\ Keeps \subseteq Nat /\ MaxBackups \in Nat /\ MaxDamaged \in Nat /\ MaxBreaks \in Nat

VARIABLES
  packer,    \* [Packers -> the process]
  work,      \* OFFSITE_WORK_DIR: the archives in it, or NoDirectory
  archives,  \* OFFSITE_REMOTE_DIR
  damaged,   \* the archives that are not what was sent
  proven,    \* the archives a run has found intact
  check,     \* the Checkmk file
  stamps, breaks, \* archives packed and troubles so far
  risked     \* for properties: a run has pruned to no more archives than were
             \* damaged among those on the far side

backupVars == <<packer, work, archives, damaged, proven, check, stamps, breaks, risked>>

NoDirectory == {0}
NoPacker == [pc |-> "idle", stamp |-> 0, keep |-> 0, dry |-> FALSE, intact |-> FALSE]

-----------------------------------------------------------------------------
(* Slips *)

KeepsOneLess(keep) ==        \* Outdated: tail -n +keep
  {a \in archives : Cardinality({b \in archives : b > a}) >= keep - 1}

-----------------------------------------------------------------------------
(* Helpers *)

(* ls -1t | tail -n +keep+1: rsync keeps the time of packing.              *)
Outdated(keep) == {a \in archives : Cardinality({b \in archives : b > a}) >= keep}

(* shutil.rmtree(work, ignore_errors=True), also of what others put there. *)
Swept(p) == IF packer[p].dry THEN work ELSE NoDirectory

Packing(p, pc) == packer[p].pc = pc
Becomes(p, new) == packer' = [packer EXCEPT ![p] = new]
GoesTo(p, pc) == [packer[p] EXCEPT !.pc = pc]

Ends(p, outcome) ==
  /\ Becomes(p, NoPacker)
  /\ work' = Swept(p)
  /\ check' = outcome

BackupInit ==
  /\ packer = [p \in Packers |-> NoPacker]
  /\ work = NoDirectory
  /\ archives = {} /\ damaged = {} /\ proven = {}
  /\ check = "none"
  /\ stamps = 0 /\ breaks = 0 /\ risked = FALSE

-----------------------------------------------------------------------------
(* main *)

StartBackup(p, keep, dry) ==
  /\ Packing(p, "idle") /\ stamps < MaxBackups
  /\ Becomes(p, [NoPacker EXCEPT !.pc = "pack", !.keep = keep, !.dry = dry])
  /\ work' = {}
  /\ UNCHANGED <<archives, damaged, proven, check, stamps, breaks, risked>>

(* build_archive: snapshots, tar, gzip; a dry run keeps it and ends.       *)
Pack(p) ==
  /\ Packing(p, "pack") /\ stamps < MaxBackups
  /\ IF work = NoDirectory THEN Ends(p, "crit") /\ UNCHANGED stamps
     ELSE /\ stamps' = stamps + 1
          /\ work' = work \cup {stamps'}
          /\ Becomes(p, IF packer[p].dry THEN NoPacker
                        ELSE [GoesTo(p, "push") EXCEPT !.stamp = stamps'])
          /\ UNCHANGED check
  /\ UNCHANGED <<archives, damaged, proven, breaks, risked>>

(* ship: rsync gives the name to a whole file only.                        *)
Push(p) ==
  /\ Packing(p, "push")
  /\ IF packer[p].stamp \notin work
     THEN Ends(p, "crit") /\ UNCHANGED <<archives, damaged>>
     ELSE /\ archives' = archives \cup {packer[p].stamp}
          /\ \/ UNCHANGED damaged
             \/ Cardinality(damaged) < MaxDamaged /\ damaged' = damaged \cup {packer[p].stamp}
          /\ Becomes(p, GoesTo(p, "prune"))
          /\ UNCHANGED <<work, check>>
  /\ UNCHANGED <<proven, stamps, breaks, risked>>

(* The script on the far side: checksum and pruning in one go.             *)
PruneRemote(p) ==
  /\ Packing(p, "prune")
  /\ IF packer[p].stamp \notin archives
     THEN Ends(p, "crit") /\ UNCHANGED <<archives, risked>>
     ELSE /\ archives' = archives \ Outdated(packer[p].keep)
          /\ risked' = (risked \/ packer[p].keep <= Cardinality(archives \cap damaged))
          /\ Becomes(p, [GoesTo(p, "compare") EXCEPT !.intact = packer[p].stamp \notin damaged])
          /\ UNCHANGED <<work, check>>
  /\ UNCHANGED <<damaged, proven, stamps, breaks>>

CompareSums(p) ==
  /\ Packing(p, "compare")
  /\ Ends(p, IF packer[p].intact THEN "ok" ELSE "crit")
  /\ proven' = IF packer[p].intact THEN proven \cup {packer[p].stamp} ELSE proven
  /\ UNCHANGED <<archives, damaged, stamps, breaks, risked>>

(* A path is not mounted, a store is corrupt, the connection is lost.      *)
Breaks(p) ==
  /\ ~Packing(p, "idle") /\ breaks < MaxBreaks
  /\ breaks' = breaks + 1
  /\ Ends(p, "crit")
  /\ UNCHANGED <<archives, damaged, proven, stamps, risked>>

Dies(p) ==
  /\ ~Packing(p, "idle") /\ breaks < MaxBreaks
  /\ breaks' = breaks + 1
  /\ Becomes(p, NoPacker)
  /\ UNCHANGED <<work, archives, damaged, proven, check, stamps, risked>>

BackupNext ==
  \E p \in Packers :
    \/ \E keep \in Keeps, dry \in BOOLEAN : StartBackup(p, keep, dry)
    \/ Pack(p) \/ Push(p) \/ PruneRemote(p) \/ CompareSums(p) \/ Breaks(p) \/ Dies(p)

BackupSpec == BackupInit /\ [][BackupNext]_backupVars

-----------------------------------------------------------------------------
(* Properties *)

BackupTypes ==
  /\ stamps \in 0..MaxBackups /\ breaks \in 0..MaxBreaks
  /\ work = NoDirectory \/ work \subseteq 1..stamps
  /\ archives \subseteq 1..stamps /\ damaged \subseteq 1..stamps /\ proven \subseteq 1..stamps
  /\ \A p \in Packers : packer[p].stamp \in 0..stamps /\ packer[p].keep \in Keeps \cup {0}
  /\ check \in {"none", "ok", "crit"} /\ risked \in BOOLEAN

(* Once a run has proven an archive, the far side holds an intact one:     *)
(* runs that overlap, fail or die, and prune with different --keep, do not *)
(* remove the last one - on one condition. The script prunes before its    *)
(* caller compares the checksums (ship says the other order), so damaged   *)
(* archives count among those that are kept: every run so far has pruned   *)
(* to more archives than were damaged at that moment.                      *)
ArchiveStays == proven # {} /\ ~risked => archives \ damaged # {}
=============================================================================
