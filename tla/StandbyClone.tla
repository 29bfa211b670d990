---------------------------- MODULE StandbyClone ----------------------------
(***************************************************************************)
(* clone_standby.py: snapshots of the primary's stores and files are       *)
(* staged, shipped by rsync, installed into the stacks of a standby by a   *)
(* generated install.sh, started for a drill, failed over to, rolled back. *)
(*                                                                         *)
(* The scheduled cycle and an operator's commands are processes that share *)
(* the stage directory, the payload and the targets; jobrun.py locks the   *)
(* scheduled one only. An action is one command of a script, between two   *)
(* of which the script or its connection can end.                          *)
(*                                                                         *)
(* What a file holds is the generation of the primary it was copied from.  *)
(* Prompts are answered yes and CLONE_* is well-formed, with NB_API_KEY.   *)
(***************************************************************************)
EXTENDS Integers, Sequences, SequencesExt

CONSTANTS
  Cron, Operators,  \* the process of the schedule, and those of operators
  Order,            \* CLONE_TARGETS, a sequence that names none twice
  FailoverTarget,   \* the stack with the primary's identity
  Autostart,        \* the targets that run all the time
  CertCopy,         \* the targets served with a copy of the certificate
  Commands, Named,  \* what operators do, and the targets they name
  KeepSnapshots,    \* CLONE_KEEP_SNAPSHOTS
  LastGeneration,   \* bound: changes of the primary
  Rows,             \* [0..LastGeneration -> the rows a table has]
  MinRows,          \* CLONE_MIN_ROWS
  MaxRuns,          \* bound: cycles, scheduled or by hand
  MaxCommands,      \* bound: other commands of operators
  MaxFailures       \* bound: commands that fail, processes that die

Targets == ToSet(Order)
Generations == 0..LastGeneration
Clones == Operators \cup {Cron}

ASSUME CloneConstants ==
  /\ Order \in Seq(Targets) /\ \A i, j \in DOMAIN Order : Order[i] = Order[j] => i = j
  /\ FailoverTarget \in Targets /\ Autostart \subseteq Targets /\ CertCopy \subseteq Targets
  /\ Named \subseteq Targets
  /\ KeepSnapshots \in Nat /\ MinRows \in Nat /\ Cron \notin Operators
  /\ LastGeneration \in Nat /\ Rows \in [Generations -> Nat]
  /\ Commands \subseteq {"stage", "install", "installs", "drill", "failover", "rollback", "run"}

VARIABLES
  primary,   \* the generation of the primary's data
  staged,    \* CLONE_STAGE_DIR: [Shipped -> what it holds]
  payload,   \* CLONE_PAYLOAD_DIR: the same
  disk,      \* [Targets -> [Parts -> generation]]
  up,        \* the targets whose stack runs
  ingress,   \* Traefik runs
  snaps,     \* [Targets -> snapshots/, the newest first]
  clone,     \* [Clones -> the process]
  spool,     \* the Checkmk local check
  after,     \* [Targets -> what the last command promised the target holds]
  budget     \* [runs, commands, failures] so far; and for what a `down` should end:
             \* leftUp, the targets left running by a failover or a drill that did
             \* not stop them, stale, those a failing `down` left half stopped or
             \* with the stores they had opened

standby == <<disk, up, ingress, snaps, after>>
cloneVars == <<primary, staged, payload, standby, clone, spool, budget>>

(* Stores, config files and target paths; rollback knows the first two.    *)
Parts == {"db", "files", "paths"}
Kept == {"db", "files"}

Absent == -1
Contents == Generations \cup {Absent}
NoParts == [k \in Parts |-> Absent]

(* A directory with a MANIFEST.json, the checksums of its parts.           *)
Empty == [part |-> NoParts, manifest |-> NoParts]

Filled == [part |-> [k \in Parts |-> 0], manifest |-> [k \in Parts |-> 0]]

Resources == {"staged", "payload"} \cup Targets

NoClone == [pc |-> "idle", job |-> "none", todo |-> <<>>, left |-> {}, stamp |-> 0, since |-> 0,
            before |-> NoParts, want |-> NoParts, others |-> {}]

NoPromise == [by |-> "none", holds |-> NoParts, before |-> NoParts]

-----------------------------------------------------------------------------
(* Slips: definitions below as a plausible bug would have them, which the  *)
(* specification does not use.                                             *)

NoGate(g) == TRUE                               \* Enough: no CLONE_MIN_ROWS
UncheckedPayload == payload.manifest # NoParts  \* Undamaged: only that there is a manifest
FailoverOnly(j, t) ==                           \* Plan: the cycle installs the failover target only
  IF j = "run" THEN <<[do |-> "stage", t |-> FailoverTarget], [do |-> "install", t |-> FailoverTarget],
                      [do |-> "drill", t |-> FailoverTarget]>>
  ELSE <<[do |-> j, t |-> t]>>
StopsIfPassed(p) ==                             \* DrillLeaves: no finally
  IF clone[p].left = {} THEN up \ {Head(clone[p].todo).t} ELSE up

MergesOnly(p) ==                                \* AcmeMerges: Traefik is not started again
  /\ clone[p].pc = "merge"
  /\ clone' = [clone EXCEPT ![p].pc = "start"]
  /\ UNCHANGED <<primary, staged, payload, standby, spool, budget>>

-----------------------------------------------------------------------------
(* Helpers *)

Step(d, t) == [do |-> d, t |-> t]

EachInstall == [i \in DOMAIN Order |-> Step("install", Order[i])]

(* install of all targets ends with a look at the first that runs.         *)
Look ==
  LET running == {i \in DOMAIN Order : Order[i] \in Autostart}
  IN  IF running = {} THEN <<>> ELSE <<Step("verify", Order[Min(running)])>>

(* run_cycle's steps, "install" without a target, or the one command.      *)
Plan(j, t) ==
  CASE j = "run" -> <<Step("stage", FailoverTarget)>> \o EachInstall \o <<Step("drill", FailoverTarget)>>
    [] j = "installs" -> EachInstall \o Look
    [] OTHER -> <<Step(j, t)>>

NextPart(left) == IF "db" \in left THEN "db" ELSE IF "files" \in left THEN "files" ELSE "paths"

At(p, pc) == clone[p].pc = pc
Doing(p) == Head(clone[p].todo).t

(* sqlite_snapshot.check_min_rows                                          *)
Enough(g) == Rows[g] >= MinRows

(* install.sh: every file of the manifest is there with its checksum.      *)
Undamaged ==
  /\ payload.manifest # NoParts
  /\ \A k \in Parts : payload.part[k] = payload.manifest[k]

(* ls -1dt | tail -n +keep+1 | xargs rm -rf                                *)
Pruned(s) == IF Len(s) > KeepSnapshots THEN SubSeq(s, 1, KeepSnapshots) ELSE s

(* verify compares how many objects primary and standby list; what a stack *)
(* lists that a `down` failed to stop is open.                             *)
Verdicts(t) ==
  LET served == disk[t]["db"]
  IN  IF t \notin up \/ ~ingress THEN {FALSE}
      ELSE IF t \in budget.stale THEN BOOLEAN
      ELSE {served # Absent /\ Rows[served] = Rows[primary]}

(* drill: "finally", whether the stack was faithful or not.                *)
DrillLeaves(p) == up \ {Doing(p)}

(* A process goes on; the others are told what it wrote (for properties).  *)
Moves(p, new, wrote) ==
  clone' = [q \in Clones |-> IF q = p THEN new
                             ELSE IF clone[q].pc = "idle" THEN clone[q]
                             ELSE [clone[q] EXCEPT !.others = @ \cup wrote]]

To(p, pc) == [clone[p] EXCEPT !.pc = pc]

First(step) ==
  CASE step.do = "stage" -> "stage" [] step.do = "install" -> "check"
    [] step.do = "drill" -> "drillup" [] step.do = "rollback" -> "choose"
    [] OTHER -> step.do

(* The step ends well: the next one, or the end.                           *)
StepDone(p) ==
  LET rest == Tail(clone[p].todo)
  IN  IF rest # <<>>
      THEN [clone[p] EXCEPT !.pc = First(Head(rest)), !.todo = rest,
                            !.want = NoParts, !.before = NoParts]
      ELSE IF clone[p].job = "run" THEN [To(p, "report") EXCEPT !.todo = <<>>]
           ELSE NoClone

(* install of one target: a look at it if it runs.                         *)
Installed(p) ==
  IF Doing(p) \in Autostart /\ clone[p].job # "installs" THEN To(p, "verify") ELSE StepDone(p)

(* It ends otherwise: run_cycle mails and marks the check, main exits 1.   *)
Failing(p, wrote) ==
  /\ Moves(p, NoClone, wrote)
  /\ spool' = IF clone[p].job = "run" THEN "crit" ELSE spool

Ongoing(p, new, wrote) == Moves(p, new, wrote) /\ UNCHANGED spool

Unclaimed(t) == [after EXCEPT ![t] = NoPromise]

(* A newer snapshot takes the place of the one that an install left.       *)
Unbacked(t) == [after EXCEPT ![t].before = NoParts]

(* A new standby, or one that was refreshed once.                          *)
CloneInit ==
  /\ primary = 0
  /\ \E refreshed \in BOOLEAN :
       /\ staged = (IF refreshed THEN Filled ELSE Empty)
       /\ payload = staged
       /\ disk = [t \in Targets |-> payload.part]
       /\ up = (IF refreshed THEN Autostart ELSE {})
       /\ snaps = [t \in Targets |-> IF refreshed THEN <<[stamp |-> 0, part |-> NoParts]>> ELSE <<>>]
  /\ ingress = TRUE
  /\ clone = [p \in Clones |-> NoClone]
  /\ spool = "none"
  /\ after = [t \in Targets |-> NoPromise]
  /\ budget = [runs |-> 0, commands |-> 0, failures |-> 0,
               leftUp |-> {}, stale |-> {}]

-----------------------------------------------------------------------------
(* The primary, and processes that start, fail and die                     *)

(* Nobody can tell when it changed but at the next look at the primary, so *)
(* it does just before one.                                                *)
PrimaryChanges ==
  /\ primary + 1 \in Generations
  /\ \/ budget.runs < MaxRuns /\ \E p \in Clones : At(p, "idle")
     \/ \E p \in Clones : clone[p].pc \in {"snap", "verify", "drilled"}
  /\ primary' = primary + 1
  /\ UNCHANGED <<staged, payload, standby, clone, spool, budget>>

Starts(p, j, t) ==
  /\ At(p, "idle")
  /\ clone' = [clone EXCEPT ![p] =
       [NoClone EXCEPT !.pc = First(Head(Plan(j, t))), !.job = j, !.todo = Plan(j, t),
                       !.stamp = 1 + budget.runs + budget.commands, !.since = IF j = "run" THEN primary ELSE 0]]
  /\ UNCHANGED <<primary, staged, payload, standby, spool>>

StartRun ==
  /\ budget.runs < MaxRuns
  /\ budget' = [budget EXCEPT !.runs = @ + 1]
  /\ Starts(Cron, "run", FailoverTarget)

StartCommand(p, j, t) ==
  /\ \/ /\ j = "run" /\ budget.runs < MaxRuns
        /\ budget' = [budget EXCEPT !.runs = @ + 1]
     \/ /\ j # "run" /\ budget.commands < MaxCommands
        /\ budget' = [budget EXCEPT !.commands = @ + 1]
  /\ Starts(p, j, t)

Trouble == budget.failures < MaxFailures

(* What a drill has started runs on when the drill is cut off.             *)
Troubled(p) ==
  [budget EXCEPT !.failures = @ + 1,
                 !.leftUp = IF clone[p].pc \in {"drilled", "drilldown"} THEN @ \cup {Doing(p)} ELSE @]

(* `docker compose down`, with `|| true` or an exit code nobody looks at:  *)
(* when it fails the stack runs on, and so does the script.                *)
ComposeDown(p, rest) ==
  \/ /\ up' = rest
     /\ budget' = [budget EXCEPT !.leftUp = @ \ {Doing(p)}, !.stale = @ \ {Doing(p)}]
  \/ /\ Trouble /\ budget' = [Troubled(p) EXCEPT !.stale = @ \cup ({Doing(p)} \cap up)]
     /\ UNCHANGED up

(* A path is missing, the disk is full, ssh drops, docker pull fails.      *)
CommandFails(p) ==
  /\ clone[p].pc \notin {"idle", "report", "drillup", "drilled", "drilldown"}
  /\ Trouble /\ budget' = Troubled(p)
  /\ Failing(p, {})
  /\ UNCHANGED <<primary, staged, payload, standby>>

(* The container restarts, or the terminal goes.                           *)
ProcessDies(p) ==
  /\ ~At(p, "idle")
  /\ Trouble /\ budget' = Troubled(p)
  /\ Moves(p, NoClone, {})
  /\ UNCHANGED <<primary, staged, payload, standby, spool>>

-----------------------------------------------------------------------------
(* stage                                                                   *)

StageClears(p) ==
  /\ At(p, "stage")
  /\ staged' = Empty
  /\ Ongoing(p, [To(p, "snap") EXCEPT !.left = Parts], {"staged"})
  /\ UNCHANGED <<primary, payload, standby, budget>>

(* The stores first, each a consistent copy; the gate looks at the copies. *)
StageStores(p) ==
  /\ At(p, "snap") /\ "db" \in clone[p].left
  /\ staged' = [staged EXCEPT !.part["db"] = primary]
  /\ IF Enough(primary)
     THEN Ongoing(p, [clone[p] EXCEPT !.left = @ \ {"db"}], {"staged"})
     ELSE Failing(p, {"staged"})
  /\ UNCHANGED <<primary, payload, standby, budget>>

StageFiles(p, k) ==
  /\ At(p, "snap") /\ "db" \notin clone[p].left
  /\ clone[p].left # {} /\ k = NextPart(clone[p].left)
  /\ staged' = [staged EXCEPT !.part[k] = primary]
  /\ Ongoing(p, [clone[p] EXCEPT !.left = @ \ {k}], {"staged"})
  /\ UNCHANGED <<primary, payload, standby, budget>>

(* The manifest lists what lies in the directory, whoever put it there.    *)
StageManifest(p) ==
  /\ At(p, "snap") /\ clone[p].left = {}
  /\ staged' = [staged EXCEPT !.manifest = staged.part]
  /\ Ongoing(p, [To(p, "ship") EXCEPT !.left = Parts \cup {"manifest"}], {"staged"})
  /\ UNCHANGED <<primary, payload, standby, budget>>

(* rsync --delete, file by file; each replaces the old one at once. Those  *)
(* of the directory itself come before those of its subdirectories.        *)
Ship(p, k) ==
  /\ At(p, "ship") /\ k \in clone[p].left
  /\ k = IF "manifest" \in clone[p].left THEN "manifest" ELSE NextPart(clone[p].left)
  /\ payload' = IF k = "manifest" THEN [payload EXCEPT !.manifest = staged.manifest]
                ELSE [payload EXCEPT !.part[k] = staged.part[k]]
  /\ Ongoing(p, IF clone[p].left = {k} THEN StepDone(p)
                ELSE [clone[p] EXCEPT !.left = @ \ {k}], {"payload"})
  /\ UNCHANGED <<primary, staged, standby, budget>>

-----------------------------------------------------------------------------
(* install.sh                                                              *)

InstallChecks(p) ==
  /\ At(p, "check")
  /\ IF Undamaged THEN Ongoing(p, [To(p, "down") EXCEPT !.want = payload.manifest], {})
                  ELSE Failing(p, {})
  /\ UNCHANGED <<primary, staged, payload, standby, budget>>

InstallDown(p) ==
  /\ At(p, "down")
  /\ ComposeDown(p, up \ {Doing(p)})
  /\ Ongoing(p, To(p, "keep"), {Doing(p)})
  /\ UNCHANGED <<primary, staged, payload, disk, ingress, snaps, after>>

KeepStores(p) ==
  /\ At(p, "keep")
  /\ LET t == Doing(p)
         snap == [stamp |-> clone[p].stamp, part |-> [NoParts EXCEPT !["db"] = disk[t]["db"]]]
     IN  /\ snaps' = [snaps EXCEPT ![t] = <<snap>> \o @]
         /\ after' = Unbacked(t)
         /\ Ongoing(p, [To(p, "keepfiles") EXCEPT !.before = disk[t]], {t})
  /\ UNCHANGED <<primary, staged, payload, disk, up, ingress, budget>>

(* The directory is the newest again; unless another install pruned it.    *)
KeepFiles(p) ==
  /\ At(p, "keepfiles")
  /\ LET t == Doing(p)
         mine == {i \in DOMAIN snaps[t] : snaps[t][i].stamp = clone[p].stamp}
     IN  IF mine = {} THEN Failing(p, {}) /\ UNCHANGED <<snaps, after>>
         ELSE /\ \E i \in mine :
                  snaps' = [snaps EXCEPT ![t] =
                    Pruned(<<[@[i] EXCEPT !.part["files"] = disk[t]["files"]]>> \o RemoveAt(@, i))]
              /\ after' = Unbacked(t)
              /\ Ongoing(p, [To(p, "put") EXCEPT !.left = Parts], {t})
  /\ UNCHANGED <<primary, staged, payload, disk, up, ingress, budget>>

(* A part that another stage has taken away meanwhile fails the script.    *)
Put(p) ==
  /\ At(p, "put")
  /\ LET t == Doing(p)
         k == NextPart(clone[p].left)
         rest == clone[p].left \ {k}
         then == IF rest # {} THEN "put" ELSE IF t \in CertCopy THEN "acme" ELSE "start"
     IN  IF payload.part[k] = Absent THEN Failing(p, {}) /\ UNCHANGED <<disk, after>>
         ELSE /\ disk' = [disk EXCEPT ![t][k] = payload.part[k]]
              /\ after' = Unclaimed(t)
              /\ Ongoing(p, [To(p, then) EXCEPT !.left = rest], {t})
  /\ UNCHANGED <<primary, staged, payload, up, ingress, snaps, budget>>

(* The certificates are merged while Traefik is stopped, if it stops.      *)
AcmeStops(p) ==
  /\ At(p, "acme")
  /\ \/ ingress' = FALSE /\ UNCHANGED budget
     \/ Trouble /\ budget' = Troubled(p) /\ UNCHANGED ingress
  /\ Ongoing(p, To(p, "merge"), {})
  /\ UNCHANGED <<primary, staged, payload, disk, up, snaps, after>>

AcmeMerges(p) ==
  /\ At(p, "merge")
  /\ ingress' = TRUE
  /\ Ongoing(p, To(p, "start"), {})
  /\ UNCHANGED <<primary, staged, payload, disk, up, snaps, after, budget>>

(* Images are pulled, the stack is started if it runs by itself.           *)
InstallStarts(p) ==
  /\ At(p, "start")
  /\ LET t == Doing(p)
     IN  /\ up' = IF t \in Autostart THEN up \cup {t} ELSE up
         /\ after' = IF clone[p].others \cap {t, "payload"} # {} THEN after
                     ELSE [after EXCEPT ![t] = [by |-> "install", holds |-> clone[p].want,
                                                before |-> clone[p].before]]
         /\ Ongoing(p, Installed(p), {t})
  /\ UNCHANGED <<primary, staged, payload, disk, ingress, snaps, budget>>

-----------------------------------------------------------------------------
(* verify, drill, failover, rollback                                       *)

Verify(p) ==
  /\ At(p, "verify")
  /\ \E faithful \in Verdicts(Doing(p)) :
       IF faithful THEN Ongoing(p, StepDone(p), {}) ELSE Failing(p, {})
  /\ UNCHANGED <<primary, staged, payload, standby, budget>>

(* The exit codes of docker compose are not looked at.                     *)
DrillUp(p) ==
  /\ At(p, "drillup")
  /\ \/ up' = up \cup {Doing(p)} /\ UNCHANGED budget
     \/ Trouble /\ budget' = Troubled(p) /\ UNCHANGED up
  /\ Ongoing(p, To(p, "drilled"), {})
  /\ UNCHANGED <<primary, staged, payload, disk, ingress, snaps, after>>

DrillVerifies(p) ==
  /\ At(p, "drilled")
  /\ \E faithful \in Verdicts(Doing(p)) :
       Ongoing(p, [To(p, "drilldown") EXCEPT !.left = IF faithful THEN {} ELSE Parts], {})
  /\ UNCHANGED <<primary, staged, payload, standby, budget>>

DrillDown(p) ==
  /\ At(p, "drilldown")
  /\ ComposeDown(p, DrillLeaves(p))
  /\ IF clone[p].left = {} THEN Ongoing(p, StepDone(p), {}) ELSE Failing(p, {})
  /\ UNCHANGED <<primary, staged, payload, disk, ingress, snaps, after>>

Failover(p) ==
  /\ At(p, "failover")
  /\ up' = up \cup {Doing(p)}
  /\ budget' = [budget EXCEPT !.leftUp = @ \cup {Doing(p)}]
  /\ Ongoing(p, StepDone(p), {})
  /\ UNCHANGED <<primary, staged, payload, disk, ingress, snaps, after>>

RollbackChooses(p) ==
  /\ At(p, "choose")
  /\ LET t == Doing(p)
     IN  IF snaps[t] = <<>> THEN Failing(p, {})
         ELSE Ongoing(p, [To(p, "rolldown") EXCEPT !.stamp = Head(snaps[t]).stamp,
                            !.want = IF after[t].by = "install" THEN after[t].before ELSE NoParts], {})
  /\ UNCHANGED <<primary, staged, payload, standby, budget>>

RollbackDown(p) ==
  /\ At(p, "rolldown")
  /\ ComposeDown(p, up \ {Doing(p)})
  /\ Ongoing(p, [To(p, "restore") EXCEPT !.left = Kept], {Doing(p)})
  /\ UNCHANGED <<primary, staged, payload, disk, ingress, snaps, after>>

(* What the snapshot does not hold, or a pruned one, is silently left.     *)
RollbackRestores(p) ==
  /\ At(p, "restore")
  /\ LET t == Doing(p)
         k == NextPart(clone[p].left)
         rest == clone[p].left \ {k}
         held == {s \in ToSet(snaps[t]) : s.stamp = clone[p].stamp /\ s.part[k] # Absent}
     IN  /\ disk' = [disk EXCEPT ![t][k] = IF held = {} THEN @ ELSE (CHOOSE s \in held : TRUE).part[k]]
         /\ after' = Unclaimed(t)
         /\ Ongoing(p, [To(p, IF rest = {} THEN "rollup" ELSE "restore") EXCEPT !.left = rest], {t})
  /\ UNCHANGED <<primary, staged, payload, up, ingress, snaps, budget>>

RollbackUp(p) ==
  /\ At(p, "rollup")
  /\ LET t == Doing(p)
     IN  /\ up' = IF t \in Autostart THEN up \cup {t} ELSE up
         /\ after' = IF t \in clone[p].others THEN after
                     ELSE [after EXCEPT ![t] = [by |-> "rollback", holds |-> clone[p].want,
                                                before |-> NoParts]]
         /\ Ongoing(p, StepDone(p), {t})
  /\ UNCHANGED <<primary, staged, payload, disk, ingress, snaps, budget>>

(* run_cycle's last line: the clone was refreshed and the drill passed.    *)
Report(p) ==
  /\ At(p, "report")
  /\ spool' = "ok"
  /\ Moves(p, NoClone, {})
  /\ UNCHANGED <<primary, staged, payload, standby, budget>>

Installing(p) ==
  \/ InstallChecks(p) \/ InstallDown(p) \/ KeepStores(p) \/ KeepFiles(p) \/ Put(p)
  \/ AcmeStops(p) \/ AcmeMerges(p) \/ InstallStarts(p)

CloneNext ==
  \/ PrimaryChanges \/ StartRun
  \/ \E p \in Operators, j \in Commands, t \in Named : StartCommand(p, j, t)
  \/ \E p \in Clones :
       \/ CommandFails(p) \/ ProcessDies(p)
       \/ StageClears(p) \/ StageStores(p) \/ StageManifest(p)
       \/ \E k \in Parts : StageFiles(p, k)
       \/ \E k \in Parts \cup {"manifest"} : Ship(p, k)
       \/ Installing(p) \/ Verify(p)
       \/ DrillUp(p) \/ DrillVerifies(p) \/ DrillDown(p) \/ Failover(p)
       \/ RollbackChooses(p) \/ RollbackDown(p) \/ RollbackRestores(p) \/ RollbackUp(p)
       \/ Report(p)

CloneSpec == CloneInit /\ [][CloneNext]_cloneVars

-----------------------------------------------------------------------------
(* Properties *)

(* Types; and as long as nothing has failed, Traefik is away only during a *)
(* merge.                                                                  *)
CloneTypes ==
  /\ ingress \/ budget.failures > 0 \/ \E p \in Clones : At(p, "merge")
  /\ primary \in Generations
  /\ {staged, payload} \subseteq [part : [Parts -> Contents], manifest : [Parts -> Contents]]
  /\ disk \in [Targets -> [Parts -> Contents]] /\ up \subseteq Targets /\ ingress \in BOOLEAN
  /\ \A t \in Targets : \A i \in DOMAIN snaps[t] : snaps[t][i].part \in [Parts -> Contents]
  /\ \A p \in Clones : clone[p].others \subseteq Resources /\ clone[p].since \in Generations
  /\ spool \in {"none", "ok", "crit"}
  /\ budget.leftUp \cup budget.stale \subseteq Targets

(* A target holds what the last command said it does, unless another       *)
(* process wrote the payload or the target meanwhile: after an install     *)
(* that exits 0 all the parts of the payload that was verified, of one     *)
(* staging; after the rollback of such an install the stores and config    *)
(* files from before it, if no other install has begun since to keep the   *)
(* target's state (rollback takes the latest). Interrupted uploads and     *)
(* scripts that died before may have left any mixture.                     *)
TargetAsTold ==
  \A t \in Targets :
    /\ after[t].by = "install" => disk[t] = after[t].holds
    /\ after[t].by = "rollback" =>
         \A k \in Kept : after[t].holds[k] # Absent => disk[t][k] = after[t].holds[k]

(* stage: "a controller that lost its data must not be allowed to          *)
(* overwrite a good standby". No payload that passes install.sh's check    *)
(* has stores below CLONE_MIN_ROWS, whatever was interrupted, unless       *)
(* another process has written to the stage directory during the time of   *)
(* one that is under way.                                                  *)
GateHolds ==
  [][\A g \in Generations :
       /\ payload'.part["db"] = g /\ payload.part["db"] # g /\ Rows[g] < MinRows
       => \E p \in Clones : "staged" \in clone[p].others]_cloneVars

(* run_cycle reports "clone refreshed and drill passed" only when every    *)
(* target has the stores of the primary as they were when the cycle began, *)
(* or newer ones, unless another process wrote there since.                *)
RunHonest ==
  \A p \in Clones : At(p, "report") =>
    \A t \in Targets : clone[p].others \cap {t, "payload", "staged"} = {}
                       => disk[t]["db"] >= clone[p].since

(* A stack with the primary's identity is "started only for a drill or a   *)
(* real failover": it runs while it is drilled, and otherwise only because *)
(* of a failover, of a drill that was cut off before its end, or of one    *)
(* whose `docker compose down` failed, until the next `down` that works.   *)
NoSecondPrimary ==
  \A t \in up \ Autostart :
    \/ t \in budget.leftUp
    \/ \E p \in Clones : clone[p].pc \in {"drilled", "drilldown"} /\ Doing(p) = t
=============================================================================
