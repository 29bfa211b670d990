--------------------------- MODULE HistoryTrigger ---------------------------
(***************************************************************************)
(* How a configuration change becomes a snapshot: NetBird's audit log, the *)
(* forwarder's change_trigger.py, the runs of jobrun.py (module JobRun,    *)
(* here with the one job `history`), config_history.py as their command,   *)
(* and what the History page says about it (history_view.py).              *)
(*                                                                         *)
(* The clock is the number of changes so far: the stamp of a snapshot and  *)
(* the start of a run are told apart only by the changes they follow.      *)
(* Untimed: a due snapshot is started some time after the poll that saw    *)
(* the change, a busy one is tried again some time later.                  *)
(***************************************************************************)
EXTENDS JobRun

CONSTANTS
  Endpoints,   \* how many endpoints a snapshot fetches, one after the other
  MaxChanges   \* bound: configuration changes, each to one endpoint

Job == CHOOSE j \in Jobs : TRUE

ASSUME HistoryConstants ==
  /\ Jobs = {Job} /\ Starters = Jobs
  /\ Endpoints \in Nat \ {0} /\ MaxChanges \in Nat
  /\ MaxStarts >= MaxChanges

VARIABLES
  config,     \* what each endpoint returns
  top,        \* changes so far, one audit event each
  last_id,    \* the forwarder's cursor
  due,        \* ChangeTrigger.due is set
  begun,      \* [Runs -> top when the run started]
  draft,      \* [Runs -> the endpoints fetched so far]
  taken,      \* [Runs -> top when the command took its stamp]
  script,     \* [Runs -> how far the command has come]
  snapshots   \* history/<stamp>, oldest first

trigger == <<last_id, due>>
history_dir == <<begun, draft, taken, script, snapshots>>
hvars == <<vars, config, top, trigger, history_dir>>

KEEP_MIN == 2

Missing == -1   \* an endpoint that did not answer: no file in the snapshot

-----------------------------------------------------------------------------
(* Slips, as in JobRun.                                                    *)

BusyForgotten == FALSE                 \* StillDue: a busy job is not retried
SavesTwins(r) == TRUE                  \* Differs: no comparison with the newest
PrunesAll(all) ==                      \* Pruned: KEEP_MIN forgotten
  {SubSeq(all, n + 1, Len(all)) : n \in 0..Len(all)}
NotNoted == FALSE                      \* Noted: the change is not noted

-----------------------------------------------------------------------------
(* Helpers *)

Newest == snapshots[Len(snapshots)]

Nothing(fetched) == \A e \in DOMAIN fetched : fetched[e] = Missing

(* same_config: a snapshot that equals the newest one is not written.      *)
Differs(r) == snapshots = <<>> \/ Newest.data # draft[r]

(* prune_plan: the oldest go, never the newest KEEP_MIN.                   *)
Pruned(all) ==
  {all} \cup {SubSeq(all, n + 1, Len(all)) : n \in 0..(Len(all) - KEEP_MIN)}

(* tick's result: what becomes of `due` when the job is busy, and of a     *)
(* poll's changes.                                                         *)
StillDue == TRUE
Noted == TRUE

(* snapshot_status: the newest snapshot, or the last run that started.     *)
Covered ==
  LET newest == IF snapshots = <<>> THEN 0 ELSE Newest.stamp
      last_run == IF state[Job].run = 0 THEN 0 ELSE begun[state[Job].run]
  IN IF newest > last_run THEN newest ELSE last_run

Status ==
  IF state[Job].running THEN "running"
  ELSE IF top <= Covered THEN "current" ELSE "pending"

HInit ==
  /\ Init
  /\ config = [e \in 1..Endpoints |-> 0] /\ top = 0
  /\ last_id = 0 /\ due = FALSE
  /\ begun = [r \in Runs |-> 0] /\ taken = [r \in Runs |-> 0]
  /\ draft = [r \in Runs |-> <<>>] /\ script = [r \in Runs |-> "fetch"]
  /\ snapshots = <<>>

-----------------------------------------------------------------------------
(* NetBird *)

Change ==
  /\ top < MaxChanges
  /\ top' = top + 1
  /\ \E e \in 1..Endpoints : config' = [config EXCEPT ![e] = 1 - @]
  /\ UNCHANGED <<vars, trigger, history_dir>>

-----------------------------------------------------------------------------
(* The forwarder's trigger *)

(* A poll with new events moves the cursor and notes the change.           *)
Poll ==
  /\ starter.pc = "idle"
  /\ last_id < top
  /\ last_id' = top
  /\ due' = Noted
  /\ UNCHANGED <<vars, config, top, history_dir>>

TriggerStart ==
  /\ due
  /\ StartJob(Job)
  /\ UNCHANGED <<config, top, trigger, history_dir>>

TriggerBusy ==
  /\ due /\ starter.pc = "idle" /\ lock[Job] # Free
  /\ due' = StillDue
  /\ UNCHANGED <<vars, config, top, last_id, history_dir>>

TriggerProbed ==
  /\ StartProbed
  /\ UNCHANGED <<config, top, trigger, history_dir>>

TriggerStarted ==
  /\ StartSpawn
  /\ due' = FALSE
  /\ UNCHANGED <<config, top, last_id, history_dir>>

(* An OSError in start_job counts as "disabled".                           *)
TriggerFails ==
  /\ StartFails
  /\ due' = FALSE
  /\ UNCHANGED <<config, top, last_id, history_dir>>

(* The forwarder dies; what is due is in memory only.                      *)
ForwarderDies ==
  /\ TroublesLeft /\ Count("kills")
  /\ Release(Starter)
  /\ starter' = NoStart
  /\ due' = FALSE
  /\ UNCHANGED <<files, run, orphans, triggerable, serve, finished,
                 config, top, last_id, history_dir>>

-----------------------------------------------------------------------------
(* A run of config_history.py *)

HBegin(r) ==
  /\ Begin(r)
  /\ begun' = [begun EXCEPT ![r] = top]
  /\ UNCHANGED <<config, top, trigger, draft, taken, script, snapshots>>

(* One endpoint after the other; one that fails is left out (dump_objects),*)
(* and a run fails only when none answered.                                *)
Fetch(r) ==
  /\ Executing(r) /\ script[r] = "fetch"
  /\ \/ draft' = [draft EXCEPT ![r] = Append(@, config[Len(@) + 1])] /\ UNCHANGED used
     \/ TroublesLeft /\ Count("faults") /\ draft' = [draft EXCEPT ![r] = Append(@, Missing)]
  /\ taken' = IF draft[r] = <<>> THEN [taken EXCEPT ![r] = top] ELSE taken
  /\ script' = IF Len(draft'[r]) < Endpoints THEN script
               ELSE [script EXCEPT ![r] = IF Nothing(draft'[r]) \/ run[r].mode = "dry-run"
                                          THEN "end" ELSE "write"]
  /\ UNCHANGED <<lock, files, run, orphans, triggerable, serve, starter, finished,
                 config, top, trigger, begun, snapshots>>

(* The rename into history/<stamp>, and the deletion of old snapshots.     *)
Write(r) ==
  /\ Executing(r) /\ script[r] = "write"
  /\ LET all == IF Differs(r) THEN Append(snapshots, [stamp |-> taken[r], data |-> draft[r]])
                ELSE snapshots
     IN snapshots' \in Pruned(all)
  /\ script' = [script EXCEPT ![r] = "end"]
  /\ draft' = [draft EXCEPT ![r] = <<>>]
  /\ taken' = [taken EXCEPT ![r] = 0]
  /\ UNCHANGED <<vars, config, top, trigger, begun>>

(* A file cannot be written.                                               *)
Fails(r) ==
  /\ Executing(r) /\ script[r] # "end"
  /\ TroublesLeft /\ Count("faults")
  /\ script' = [script EXCEPT ![r] = "end"]
  /\ UNCHANGED <<lock, files, run, orphans, triggerable, serve, starter, finished,
                 config, top, trigger, begun, draft, taken, snapshots>>

(* The other steps of a run, and the end of its command.                   *)
HRun(r) ==
  \/ HBegin(r) \/ Fetch(r) \/ Write(r)
  \/ /\ \/ Lock(r) \/ Final(r) \/ Unlock(r)
        \/ script[r] = "end" /\ (CommandEnds(r) \/ OrphanEnds(r))
     /\ UNCHANGED <<config, top, trigger, history_dir>>

-----------------------------------------------------------------------------

(* A save in birdseye-web is a Change followed by a Request; the Jobs page *)
(* offers the dry run too.                                                 *)
Others ==
  /\ \/ Cron(Job)
     \/ \E mode \in Modes : Request(Job, mode)
     \/ \E r \in Runs : KillRun(r)
     \/ KillServe
  /\ UNCHANGED <<config, top, trigger, history_dir>>

HReboot ==
  /\ Reboot
  /\ due' = FALSE
  /\ UNCHANGED <<config, top, last_id, history_dir>>

HServe == ServeStep /\ UNCHANGED <<config, top, trigger, history_dir>>

Forwarder == Poll \/ TriggerStart \/ TriggerProbed \/ TriggerStarted

HNext ==
  \/ Change \/ Forwarder \/ TriggerBusy \/ TriggerFails \/ ForwarderDies
  \/ HServe \/ Others \/ HReboot
  \/ \E r \in Runs : HRun(r) \/ Fails(r)

(* The forwarder polls and ticks, serve goes on, and so do the runs: a run *)
(* takes finitely many steps, so that one of them goes on means all do.    *)
(* Nothing makes cron, a user or NetBird start anything.                   *)
HSpec ==
  /\ HInit /\ [][HNext]_hvars
  /\ WF_hvars(Forwarder) /\ WF_hvars(HServe)
  /\ WF_hvars(\E r \in Runs : HRun(r))

-----------------------------------------------------------------------------
(* Properties *)

Troubles == used.kills + used.faults

(* No dry run has been asked for.                                          *)
RealRuns == \A r \in Runs : run[r].mode = "run"

(* A snapshot follows every change: once the configuration rests, the      *)
(* newest snapshot shows it, although any run may lose the lock to another *)
(* run or to a probe, and one may be in the middle of its fetch when a     *)
(* change arrives (README.md:254, change_trigger.py:56). If nothing fails  *)
(* and nobody asks for a dry run: of the latter see ChangeFollowed.        *)
SnapshotFollows ==
  [](Troubles = 0 /\ RealRuns)
    => <>[](top > 0 => snapshots # <<>> /\ Newest.data = config)

(* As long as no run was a dry run and nothing failed, the History page    *)
(* says "current" only when no change is missing from the newest snapshot, *)
(* also when changes arrive in the middle of a fetch and runs overlap. A   *)
(* dry run or a run that failed would count as covering the changes before *)
(* it (history_view.py:89), which they do not.                             *)
StatusHonest ==
  Troubles = 0 /\ RealRuns /\ top > 0 /\ Status = "current"
    => snapshots # <<>> /\ Newest.data = config

(* Snapshots that follow each other differ, so a schedule does not fill    *)
(* the list with copies (docs/web-ui.md: "writes nothing").                *)
NoTwins ==
  used.faults = 0 /\ used.kills = 0 =>
    \A i \in 1..(Len(snapshots) - 1) : snapshots[i].data # snapshots[i + 1].data

(* A change noted is never forgotten while the forwarder lives: until a    *)
(* run begun after it reads the endpoints, something is still on its way   *)
(* (a dry run takes the lock like a run and reads for nothing).            *)
ChangePending ==
  Troubles = 0 /\ RealRuns /\ last_id > 0
    => \/ due
       \/ \E r \in Runs : run[r].pc \in {"lock", "begin"}
       \/ serve.pc \in {"probed", "handle"}
       \/ \E r \in Runs : run[r].pc \notin {"none", "skipped"} /\ begun[r] >= last_id

-----------------------------------------------------------------------------
(* What the README and comments say and the code does not do. *)

(* README.md:254: "starts a config history snapshot after each             *)
(* configuration change", with the dry runs of the Jobs page: one takes    *)
(* the lock between the trigger's probe and the triggered run.             *)
ChangeFollowed ==
  [](Troubles = 0) => <>[](top > 0 => snapshots # <<>> /\ Newest.data = config)
=============================================================================
