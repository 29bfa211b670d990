------------------------------- MODULE JobRun -------------------------------
(***************************************************************************)
(* jobrun.py: runs of the registered jobs under a lock per job, their      *)
(* state files, and the three ways a run comes about: cron, the request    *)
(* files birdseye-web drops (serve), and start_job, which the event        *)
(* forwarder calls.                                                        *)
(*                                                                         *)
(* One action per step between which another process can act or this one   *)
(* can die. serve and start_job probe the lock of a job by taking it, and  *)
(* let go of it before they spawn the run, which takes it again itself.    *)
(* A run is identified by a number; a summary in a state file's history is *)
(* the number of the run it describes.                                     *)
(***************************************************************************)
EXTENDS Integers, Sequences, FiniteSets

CONSTANTS
  Jobs,          \* the enabled jobs of registry.json
  Starters,      \* the jobs the forwarder starts after a change
  DryRuns,       \* the jobs whose script takes a dry-run flag
  HistoryCap,    \* summaries kept in a state file (20)
  MaxSpawns,     \* MAX_SPAWNS_PER_TICK
  MaxCron,       \* bound: runs started by cron
  MaxRequests,   \* bound: request files
  MaxStarts,     \* bound: calls of start_job
  MaxTroubles    \* bound: killed processes and container restarts, lock or
                 \* state files that cannot be opened or written, failed spawns,
                 \* request files that cannot be removed

ASSUME JobConstants ==
  /\ Jobs # {} /\ Starters \subseteq Jobs /\ DryRuns \subseteq Jobs
  /\ HistoryCap \in Nat \ {0} /\ MaxSpawns \in Nat \ {0}
  /\ MaxCron \in Nat /\ MaxRequests \in Nat /\ MaxStarts \in Nat
  /\ MaxTroubles \in Nat

VARIABLES
  lock,         \* [Jobs -> holder of state/<job>.lock]
  state,        \* [Jobs -> state/<job>.json]
  run,          \* [Runs -> the jobrun.py process]
  orphans,      \* runs whose command outlives their killed jobrun.py process
  requests,     \* requests/*.json
  triggerable,  \* JOB_TRIGGERS, as read at container start
  serve,        \* the serve process
  starter,      \* the forwarder inside start_job
  used,         \* how often each bounded event has happened
  finished      \* [Jobs -> the runs that completed, newest first]

files == <<state, requests>>
vars == <<lock, files, run, orphans, triggerable, serve, starter, used, finished>>

(* Every request spawns once, and once more for every time serve dies or   *)
(* cannot remove its file.                                                 *)
Runs == 1..(MaxCron + MaxRequests + MaxStarts + MaxTroubles)
Free == 0
Serve == -1
Starter == -2

Modes == {"run", "dry-run"}

-----------------------------------------------------------------------------
(* Slips: definitions below as a plausible bug would have them, which the  *)
(* specification does not use.                                             *)

EndsUnlocked(r) == lock' = lock                       \* Release: the lock is kept
SharesLock(j) == TRUE                                 \* CanLock: LOCK_SH for LOCK_EX
PastForgotten(r) == <<r>>                             \* Past: history of one
PastUncapped(r) == <<r>> \o run[r].prev               \* Past: no cap
RunningLate(j, r) == state[j]                         \* Started: not recorded
Kept(q) == requests                                   \* Without: file left behind

-----------------------------------------------------------------------------
(* Helpers *)

Alive(r) == run[r].pc \in {"lock", "begin", "command", "final", "unlock"}

Executing(r) == run[r].pc = "command" \/ r \in orphans

Of(j) == {r \in Runs : run[r].pc # "none" /\ run[r].job = j}

Count(what) == used' = [used EXCEPT ![what] = @ + 1]

TroublesLeft == used.kills + used.faults + used.unremoved < MaxTroubles

AnyJob == CHOOSE j \in Jobs : TRUE

NoRun == [pc |-> "none", job |-> AnyJob, mode |-> "run",
          request |-> 0, locked |-> FALSE, prev |-> <<>>]

NextRun == CHOOSE r \in Runs : run[r].pc = "none"

Dead(r) == [run[r] EXCEPT !.pc = "killed", !.locked = FALSE, !.prev = <<>>]

(* Popen of `jobrun.py run j` for a request, 0 for none.                   *)
Spawn(j, mode, request) ==
  /\ \E r \in Runs : run[r].pc = "none"
  /\ run' = [run EXCEPT ![NextRun] = [NoRun EXCEPT !.pc = "lock", !.job = j, !.mode = mode,
                                                   !.request = request]]

(* job_lock: take the lock, find it held, or run unlocked when its file    *)
(* cannot be opened.                                                       *)
CanLock(j) == lock[j] = Free

Takes(j, holder) == CanLock(j) /\ lock' = [lock EXCEPT ![j] = holder] /\ UNCHANGED used

Held(j) == lock[j] # Free /\ UNCHANGED <<lock, used>>

Unopened == TroublesLeft /\ Count("faults") /\ UNCHANGED lock

Release(holder) == lock' = [j \in Jobs |-> IF lock[j] = holder THEN Free ELSE lock[j]]

(* _record: best effort, a full disk does not stop the job.                *)
Records(j, content) ==
  \/ state' = [state EXCEPT ![j] = content] /\ UNCHANGED used
  \/ TroublesLeft /\ Count("faults") /\ UNCHANGED state

Started(j, r) == [state[j] EXCEPT !.running = TRUE, !.run = r]

(* The summary of this run in front of what was read when it started.      *)
Past(r) ==
  LET all == <<r>> \o run[r].prev
  IN SubSeq(all, 1, IF Len(all) < HistoryCap THEN Len(all) ELSE HistoryCap)

Ended(r) == [running |-> FALSE, run |-> r, history |-> Past(r)]

Without(q) == requests \ {q}

(* _remove: an error is suppressed, and the file stays for the next tick.  *)
Removes(q) ==
  \/ requests' = Without(q) /\ UNCHANGED used
  \/ TroublesLeft /\ Count("unremoved") /\ UNCHANGED requests

Seen(j) == serve.seen \cup {j}

NoPath == [id |-> 0, job |-> AnyJob, mode |-> "run"]

Idle == [pc |-> "sleep", todo |-> {}, seen |-> {}, started |-> 0, path |-> NoPath]

NoStart == [pc |-> "idle", job |-> AnyJob]

Init ==
  /\ lock = [j \in Jobs |-> Free]
  /\ state = [j \in Jobs |-> [running |-> FALSE, run |-> 0, history |-> <<>>]]
  /\ run = [r \in Runs |-> NoRun]
  /\ orphans = {} /\ requests = {}
  /\ triggerable = Jobs
  /\ serve = Idle /\ starter = NoStart
  /\ used = [cron |-> 0, requests |-> 0, starts |-> 0, kills |-> 0, faults |-> 0,
             unremoved |-> 0]
  /\ finished = [j \in Jobs |-> <<>>]

-----------------------------------------------------------------------------
(* cron and birdseye-web *)

Cron(j) ==
  /\ used.cron < MaxCron
  /\ Count("cron")
  /\ Spawn(j, "run", 0)
  /\ UNCHANGED <<lock, files, orphans, triggerable, serve, starter, finished>>

(* request_run, which offers a triggerable job only.                       *)
Request(j, mode) ==
  /\ used.requests < MaxRequests
  /\ j \in triggerable
  /\ mode = "dry-run" => j \in DryRuns
  /\ Count("requests")
  /\ requests' = requests \cup {[id |-> used'.requests, job |-> j, mode |-> mode]}
  /\ UNCHANGED <<lock, state, run, orphans, triggerable, serve, starter, finished>>

-----------------------------------------------------------------------------
(* run_job *)

Moves(r, pc) == run' = [run EXCEPT ![r].pc = pc]

Lock(r) ==
  /\ run[r].pc = "lock"
  /\ LET j == run[r].job IN
       \/ Takes(j, r) /\ run' = [run EXCEPT ![r].pc = "begin", ![r].locked = TRUE]
       \/ Held(j) /\ Moves(r, "skipped")
       \/ Unopened /\ Moves(r, "begin")
  /\ UNCHANGED <<files, orphans, triggerable, serve, starter, finished>>

Begin(r) ==
  /\ run[r].pc = "begin"
  /\ LET j == run[r].job IN
       /\ run' = [run EXCEPT ![r].pc = "command", ![r].prev = state[j].history]
       /\ Records(j, Started(j, r))
  /\ UNCHANGED <<lock, requests, orphans, triggerable, serve, starter, finished>>

(* The command exits, with whatever code, or could not be started (127).   *)
CommandEnds(r) ==
  /\ run[r].pc = "command"
  /\ Moves(r, "final")
  /\ UNCHANGED <<lock, files, orphans, triggerable, serve, starter, used, finished>>

Final(r) ==
  /\ run[r].pc = "final"
  /\ LET j == run[r].job IN
       /\ Records(j, Ended(r))
       /\ finished' = [finished EXCEPT ![j] = <<r>> \o @]
  /\ run' = [run EXCEPT ![r].pc = "unlock", ![r].prev = <<>>]
  /\ UNCHANGED <<lock, requests, orphans, triggerable, serve, starter>>

Unlock(r) ==
  /\ run[r].pc = "unlock"
  /\ Release(r)
  /\ run' = [run EXCEPT ![r].pc = "done", ![r].locked = FALSE]
  /\ UNCHANGED <<files, orphans, triggerable, serve, starter, used, finished>>

RunStep(r) == Lock(r) \/ Begin(r) \/ CommandEnds(r) \/ Final(r) \/ Unlock(r)

OrphanEnds(r) ==
  /\ r \in orphans
  /\ orphans' = orphans \ {r}
  /\ UNCHANGED <<lock, files, run, triggerable, serve, starter, used, finished>>

-----------------------------------------------------------------------------
(* serve *)

Tick ==
  /\ serve.pc = "sleep" /\ requests # {}
  /\ serve' = [Idle EXCEPT !.pc = "next", !.todo = requests]
  /\ UNCHANGED <<lock, files, run, orphans, triggerable, starter, used, finished>>

TickDone ==
  /\ serve.pc = "next" /\ serve.todo = {}
  /\ serve' = Idle
  /\ UNCHANGED <<lock, files, run, orphans, triggerable, starter, used, finished>>

Next1(q) == [serve EXCEPT !.todo = @ \ {q}, !.pc = "next"]

(* A second request for a job, or one over the limit, is dropped.          *)
DropSurplus ==
  /\ serve.pc = "next"
  /\ \E q \in serve.todo :
       /\ q.job \in serve.seen \/ serve.started >= MaxSpawns
       /\ Removes(q)
       /\ serve' = Next1(q)
  /\ UNCHANGED <<lock, state, run, orphans, triggerable, starter, finished>>

(* The probe; a request for a job that is running is dropped.              *)
Probe ==
  /\ serve.pc = "next"
  /\ \E q \in serve.todo :
       /\ q.job \notin serve.seen /\ serve.started < MaxSpawns
       /\ \/ /\ Takes(q.job, Serve)
             /\ serve' = [serve EXCEPT !.pc = "probed", !.path = q]
             /\ UNCHANGED requests
          \/ /\ Unopened
             /\ serve' = [serve EXCEPT !.pc = "handle", !.path = q]
             /\ UNCHANGED requests
          \/ /\ lock[q.job] # Free /\ UNCHANGED lock
             /\ Removes(q)
             /\ serve' = [Next1(q) EXCEPT !.seen = Seen(q.job)]
  /\ UNCHANGED <<state, run, orphans, triggerable, starter, finished>>

ProbeDone ==
  /\ serve.pc = "probed"
  /\ Release(Serve)
  /\ serve' = [serve EXCEPT !.pc = "handle"]
  /\ UNCHANGED <<files, run, orphans, triggerable, starter, used, finished>>

(* handle_request: validate, and spawn the run.                            *)
Handle ==
  /\ serve.pc = "handle"
  /\ LET q == serve.path IN
       IF q.job \in triggerable
       THEN /\ Spawn(q.job, q.mode, q.id)
            /\ serve' = [serve EXCEPT !.pc = "remove", !.started = @ + 1]
       ELSE /\ serve' = [serve EXCEPT !.pc = "remove"]
            /\ UNCHANGED run
  /\ UNCHANGED <<lock, files, orphans, triggerable, starter, used, finished>>

Remove ==
  /\ serve.pc = "remove"
  /\ Removes(serve.path)
  /\ serve' = [Next1(serve.path) EXCEPT !.seen = Seen(serve.path.job),
                                        !.path = NoPath]
  /\ UNCHANGED <<lock, state, run, orphans, triggerable, starter, finished>>

(* The run cannot be spawned: serve_tick removes the file, if it can, and  *)
(* goes on.                                                                *)
SpawnFails ==
  /\ serve.pc = "handle" /\ serve.path.job \in triggerable
  /\ TroublesLeft /\ Count("faults")
  /\ requests' \in {requests, Without(serve.path)}
  /\ serve' = [Next1(serve.path) EXCEPT !.path = NoPath]
  /\ UNCHANGED <<lock, state, run, orphans, triggerable, starter, finished>>

ServeStep ==
  Tick \/ TickDone \/ DropSurplus \/ Probe \/ ProbeDone \/ Handle \/ Remove \/ SpawnFails

-----------------------------------------------------------------------------
(* start_job, called by the forwarder; a busy job changes nothing here *)

StartJob(j) ==
  /\ starter.pc = "idle"
  /\ used.starts < MaxStarts
  /\ \/ /\ CanLock(j)
        /\ lock' = [lock EXCEPT ![j] = Starter]
        /\ starter' = [pc |-> "probed", job |-> j]
        /\ used' = [used EXCEPT !.starts = @ + 1]
     \/ /\ TroublesLeft
        /\ starter' = [pc |-> "spawn", job |-> j]
        /\ used' = [used EXCEPT !.starts = @ + 1, !.faults = @ + 1]
        /\ UNCHANGED lock
  /\ UNCHANGED <<files, run, orphans, triggerable, serve, finished>>

StartProbed ==
  /\ starter.pc = "probed"
  /\ Release(Starter)
  /\ starter' = [starter EXCEPT !.pc = "spawn"]
  /\ UNCHANGED <<files, run, orphans, triggerable, serve, used, finished>>

StartSpawn ==
  /\ starter.pc = "spawn"
  /\ Spawn(starter.job, "run", 0)
  /\ starter' = NoStart
  /\ UNCHANGED <<lock, files, orphans, triggerable, serve, used, finished>>

(* The run cannot be spawned; the forwarder takes that for "disabled".     *)
StartFails ==
  /\ starter.pc = "spawn"
  /\ TroublesLeft /\ Count("faults")
  /\ starter' = NoStart
  /\ UNCHANGED <<lock, files, run, orphans, triggerable, serve, finished>>

-----------------------------------------------------------------------------
(* Deaths. The kernel drops the lock of a dead process.                    *)

KillRun(r) ==
  /\ TroublesLeft /\ Alive(r)
  /\ Count("kills")
  /\ Release(r)
  /\ run' = [run EXCEPT ![r] = Dead(r)]
  /\ orphans' = IF run[r].pc = "command" THEN orphans \cup {r} ELSE orphans
  /\ UNCHANGED <<files, triggerable, serve, starter, finished>>

(* supervisord restarts serve.                                             *)
KillServe ==
  /\ TroublesLeft /\ serve.pc # "sleep"
  /\ Count("kills")
  /\ Release(Serve)
  /\ serve' = Idle
  /\ UNCHANGED <<files, run, orphans, triggerable, starter, finished>>

(* supervisord restarts the forwarder.                                     *)
KillStarter ==
  /\ TroublesLeft /\ starter.pc # "idle"
  /\ Count("kills")
  /\ Release(Starter)
  /\ starter' = NoStart
  /\ UNCHANGED <<files, run, orphans, triggerable, serve, finished>>

(* The container restarts, maybe with another JOB_TRIGGERS.                *)
Reboot ==
  /\ TroublesLeft
  /\ Count("kills")
  /\ lock' = [j \in Jobs |-> Free]
  /\ run' = [r \in Runs |-> IF Alive(r) THEN Dead(r) ELSE run[r]]
  /\ orphans' = {}
  /\ serve' = Idle /\ starter' = NoStart
  /\ triggerable' \in SUBSET Jobs
  /\ UNCHANGED <<files, finished>>

-----------------------------------------------------------------------------

Environment ==
  \/ \E j \in Jobs : Cron(j)
  \/ \E j \in Jobs, mode \in Modes : Request(j, mode)
  \/ \E j \in Starters : StartJob(j)
  \/ \E r \in Runs : KillRun(r)
  \/ KillServe \/ KillStarter \/ Reboot

Process ==
  \/ \E r \in Runs : RunStep(r)
  \/ \E r \in Runs : OrphanEnds(r)
  \/ ServeStep \/ StartProbed \/ StartSpawn \/ StartFails

Next == Environment \/ Process

Spec == Init /\ [][Next]_vars

-----------------------------------------------------------------------------
(* Properties *)

Holders == Runs \cup {Free, Serve, Starter}

RunRecords ==
  [pc : {"none", "lock", "begin", "command", "final", "unlock", "done", "skipped", "killed"},
   job : Jobs, mode : Modes, request : 0..MaxRequests, locked : BOOLEAN, prev : Seq(Runs)]

StateFiles == [running : BOOLEAN, run : Runs \cup {0}, history : Seq(Runs)]

Paths == [id : 0..MaxRequests, job : Jobs, mode : Modes]

ServeRecords ==
  [pc : {"sleep", "next", "probed", "handle", "remove"}, todo : SUBSET Paths,
   seen : SUBSET Jobs, started : 0..MaxSpawns, path : Paths]

Counters ==
  [cron : 0..MaxCron, requests : 0..MaxRequests, starts : 0..MaxStarts,
   kills : 0..MaxTroubles, faults : 0..MaxTroubles, unremoved : 0..MaxTroubles]

RunsOK == lock \in [Jobs -> Holders] /\ run \in [Runs -> RunRecords] /\ orphans \subseteq Runs

FilesOK ==
  /\ state \in [Jobs -> StateFiles] /\ requests \subseteq Paths
  /\ finished \in [Jobs -> Seq(Runs)]

DaemonsOK ==
  /\ triggerable \subseteq Jobs /\ serve \in ServeRecords
  /\ starter \in [pc : {"idle", "probed", "spawn"}, job : Jobs]
  /\ used \in Counters

(* Every variable keeps to the values the code gives it; a state file      *)
(* never lists more summaries than its cap, a tick starts at most          *)
(* MAX_SPAWNS_PER_TICK runs.                                               *)
TypeOK ==
  /\ RunsOK /\ FilesOK /\ DaemonsOK
  /\ \A j \in Jobs : Len(state[j].history) <= HistoryCap

(* The commands of two runs of a job overlap only when one has outlived    *)
(* its killed jobrun.py process or a lock file could not be opened.        *)
MutualExclusion ==
  \A r, s \in Runs :
    r # s /\ run[r].job = run[s].job /\ Executing(r) /\ Executing(s)
      => \E x \in {r, s} : x \in orphans \/ ~run[x].locked

(* No lost summary: a state file lists the newest completed runs, whoever  *)
(* started them and whoever was killed meanwhile.                          *)
HistoryComplete ==
  used.faults = 0 => \A j \in Jobs :
    /\ \A i \in DOMAIN state[j].history : state[j].history[i] = finished[j][i]
    /\ Len(state[j].history) < Len(finished[j]) => Len(state[j].history) = HistoryCap

(* The Jobs page shows a job as running while a command is in progress,    *)
(* and after that only when its run was killed before it could say so.     *)
RunningHonest ==
  used.faults = 0 => \A j \in Jobs :
    /\ (\E r \in Of(j) : run[r].pc \in {"command", "final"}) => state[j].running
    /\ state[j].running => run[state[j].run].pc \in {"command", "final", "killed"}

(* One run per accepted request, and another one at most for each time     *)
(* serve dies before it has removed the file, or cannot remove it: whoever *)
(* overlaps or races, no tick and no second daemon repeats it otherwise.   *)
OncePerRequest ==
  \A q \in 1..MaxRequests :
    Cardinality({r \in Runs : run[r].request = q}) <= 1 + used.kills + used.unremoved

(* Every request file is gone in the end (the directory is not a trap), if *)
(* only finitely many removals fail; how often one may is a bound of the   *)
(* model.                                                                  *)
RequestsLeave ==
  \A id \in 1..MaxRequests :
    (\E q \in requests : q.id = id) ~> (\A q \in requests : q.id # id)

(* No run waits for ever, and every lock becomes free again.               *)
LocksComeFree == \A j \in Jobs : lock[j] # Free ~> lock[j] = Free
=============================================================================
