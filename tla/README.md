# birdseye: a verification project

TLA+ models of birdseye, the sidecar and web UI for a NetBird management
server: what the code promises, checked by TLC on small instances and, where a
proof is worth it, proved by TLAPS for every size. Paths are relative to the
repository root; line numbers are of the commit this project was written for.
`PROJECT.json` maps each definition that models code to its lines.

- [The system](#the-system): its parts, their state, their hard behaviours
- [The modules](#the-modules): what is modelled and how it corresponds
- [The runs](#the-runs): bounds, fairness, what each shows
- [The proofs](#the-proofs)
- [Findings](#findings)
- [Not modelled, and the plan](#not-modelled-and-the-plan)

To repeat a check, in this directory: `tlc -config JobRun_jobs.cfg MCJobRun`,
`tlapm JobProofs.tla`.

## The system

Two containers share a few volumes. The `birdseye` container runs supervisord
with three programs: the event forwarder, cron, and `jobrun.py serve`. The
`birdseye-web` container runs one asyncio process. Everything else is a script
that cron or an operator starts. All of it talks to one NetBird server, which
other people and programs change at the same time.

```
 NetBird --audit log--> event_forwarder --> stdout, Mattermost, mail
    |                       | change_trigger
    |                       v
    |     cron --> jobrun.py run <job> <-- serve <-- requests/*.json <-- birdseye-web
    |                       |                                              |    ^
    |                       v                                              |    |
    +--GET/PUT--> scripts: config_history, allow_ping, clone, backup ...   |    |
    |                       |                                              |    |
    |                       +--> history/<stamp>/, state/<job>.json -------+----+
    +--GET/PUT------------------------------------------------------- (users' tokens)
```

| Component | State it keeps | Operations | Hard behaviours | Correct when |
|---|---|---|---|---|
| Event forwarder, `docker/event_forwarder.py` | `state.json` (last_id, outage), heartbeat file; in memory: backoff, digest buffer, notice of skipped events | poll, print, post, mail, save, alert, back off, wait | the process dies between two sends; sends fail or time out after delivery; the API is away for long, also while the process starts; a backlog larger than the catch-up cap | no event is lost or out of order, replays only after a crash, one alert per outage, skipped events are announced |
| Change trigger, `change_trigger.py` | `due`, in memory | note, tick | a busy job, a job that another run has just overtaken, a restart while due | every change is followed by a snapshot |
| Job runner, `jobrun.py` | a lock, a state file with a history per job, request files, `registry.json` | run, serve, start_job | runs started by cron, by requests and by the forwarder at once; probes that take the lock; killed processes with commands that go on; unwritable files | one run of a job at a time, complete history, honest status, requests handled once and always removed |
| Config history, `config_history.py`, `export_objects.py`, `birdseye_web/history.py`, `history_view.py` | `history/<stamp>/` | fetch, compare, rename into place, prune; status, diff | a change during a fetch, an endpoint that fails, a dry run, status made from runs that wrote nothing | the newest snapshot shows the configuration once it rests; "current" is never wrong |
| Snapshot cache, `birdseye_web/snapshot.py`, `context.py` | an entry and a lock per user | get (load), invalidate | loads in flight while others write; users with different rights; failed loads; lost answers | nothing crosses users, bounded staleness, a save shows on the next page |
| Sessions, `sessions.py`, `routes_auth.py`, `oidc.py` | sessions, pending logins | create, rotate, update, drop, refresh | two requests refresh one token; logout during a refresh; a callback that arrives twice; the cap of pending logins | a dropped session never comes back; a login changes the id |
| Web editors, `routes_*.py`, `payloads.py`, `quickedit.py` | none (NetBird's) | read, merge, PUT; several PUTs per save | PUT replaces whole objects; concurrent editors; one of several writes fails | a save changes what its user asked for and nothing else; a partial save is shown as one |
| Restore, `restore.py` | none | re-create or update from an old snapshot | references that no longer exist; the plan is older than the write | a policy never comes back granting something else |
| Access resolver and previews, `access.py`, `diff.py`, `drift.py`, `models.py` | none | pure functions over a snapshot | bidirectional rules, resources, disabled peers and policies | the preview equals the difference of the grants before and after |
| Standby clone, `clone_standby.py`, `remote.py` | staged copies and generations on a standby host | stage, install, verify, roll back, drill, failover | ssh that breaks between two steps; drill and failover during a clone | an install that exits 0 left one whole, verified copy; an empty primary never overwrites a standby; no second primary runs after a drill |
| Off-site backup, `backup_offsite.py`, `backup_common.py` | remote files | upload, rename, prune, compare | interruption, pruning before the comparison, keep=0 | at least one intact copy remains |
| Reconcilers, `allow_ping.py`, `manage_posture.py`, `netbird_maintenance.py` | none (managed policies and groups) | plan, apply | edits between read and write, partial application, two reconcilers on the same policies | they settle: a second run changes nothing, companions mirror their originals |
| Ephemeral cleanup, `cleanup_ephemeral.py` | none | list, delete | peers that come back between the list and the delete | an undisturbed run leaves none to delete |
| Entry point, weekly mails, notifications, read-only views, operator tools, demo | none or files written once | | none of their own | |

What the parts say to each other is what fails in ways that tests hardly
reach: the forwarder tells the trigger, the trigger starts a run, a run competes
for a lock with requests from the web UI, a snapshot is taken while the
configuration changes. The `hazards` of `PROJECT.json` list these places line
by line, with the properties that cover each.

## The modules

### AuditStream, the promise; Forwarder, the program

`AuditStream.tla` states what a reader of the forwarder's stdout may rely on:
every published id after the seed that passes the filter is emitted, in order;
after a restart (`Rewind`) from the committed id on again, never from further
back. It has the actions `Publish, Seed, Emit, Skip, Commit, Rewind`.

`Forwarder.tla` models the process, one action per step between which it can
die: `Boot`, `Seed`, `Poll`/`PollFails`/`PollDenied`, `PrintEvent` (one line of
stdout), `PostEvents`, `MailEvent`, `Save`, `Flush`, `SleepToPoll`/`SleepToDue`,
the outage branch `SendAlert`, `SaveAlerted`, `BackOff`, `SendRecovered`,
`ClearOutage`, and around it `Audit` and `ApiChanges` (NetBird), `Crash`, and
`Restart` (supervisord with startsecs and startretries). A variable that is both
in `state.json` and in memory is one variable, as every assignment is followed
at once by `save()`, which replaces the file atomically. Each send has three
outcomes: delivered, failed, delivered although the caller saw an error. Time is
relative and stops where the code stops telling ages apart. Event payloads are
left out: an id either passes a sink's filter or does not.

The change trigger's settle and retry times are in this module (`due`, ticked
by the waits); what a started snapshot does is in HistoryTrigger.

The notice of skipped events (`batch_notice`) is in memory only. The history
variables `unannounced` and `forgotten` hold the events that were skipped and not
announced yet, and those of them whose notice ended with a process or was
overwritten by a later one.

`ImplementsStream` is the refinement: with `Position` (how far the current
iteration has printed) the forwarder implements `AuditStream!Spec`.

### JobRun

`JobRun.tla` models runs (`Lock`, `Begin`, `CommandEnds`, `Final`, `Unlock`),
`serve` (`Tick`, `DropSurplus`, `Probe`, `ProbeDone`, `Handle`, `Remove`,
`SpawnFails`), `start_job` (`StartJob`, `StartProbed`, `StartSpawn`,
`StartFails`), the callers (`Cron`, `Request`), and what goes wrong: `KillRun`
(the process dies, its command goes on as an orphan), `KillServe`,
`KillStarter`, `Reboot`, a lock file that cannot be opened (the run goes on
unlocked, jobrun.py:136-141), a state file that cannot be written, a request
file that cannot be unlinked (`Removes`: it stays, and `used.unremoved` counts
how often it did), a spawn that fails. A probe takes the lock and gives it back, as `job_lock` does, so a run
that starts in that moment is skipped. The content of a state file is the number
of its run, the flag and the list of past runs.

### HistoryTrigger

`HistoryTrigger.tla` EXTENDS `JobRun` with one job, whose command is
config_history.py: `Fetch` reads one endpoint after the other, `Write` compares,
renames and prunes. `Change` is a change in NetBird, `Poll` the forwarder
noticing it, `TriggerStart`/`TriggerBusy`/`TriggerProbed`/`TriggerStarted` the
trigger's tick around `start_job`. `Status` is the banner of the History page.
The clock is the number of changes so far, which is all that stamps are compared
for.

### WebCache

`WebCache.tla` models `SnapshotCache` and the order of writes and
invalidations in the handlers. One action is what runs between two awaits:
`Start` (a page or a save arrives and waits at its user's lock), `Hit`, `Miss`,
`Read` (one endpoint answers; those of the second round, `networks/<id>/...`,
after the first), `Loaded`, `LoadFails`, `Render`, `Put` (a write takes effect
in NetBird), `PutAnswered` (invalidate and go on), `PutRefused` (the form again,
or, after a first write, invalidate and load a fresh snapshot, as
`_partial_failure` does), `PutLost` (no answer: an error that is not a
`NetBirdError`, so no handler invalidates). `StartToggle` is the policy toggle,
the one save that takes no snapshot. `Elsewhere` is a change made past birdseye,
`Tick` the clock. What an endpoint returns is the number of the last write to
it; an endpoint the user may not read returns nothing (`Hidden`). The queue of
a user stands for the asyncio lock, which is first come, first served. The
variable `told` and the field `late` are history variables for the properties.

Not in this model: the sessions (a request belongs to a user), the request
files written by `config_changed` (they are `Request` in JobRun), the third and
later writes of a save, which no handler separates by an invalidation; what is
read and written is in WebEdit.

### Access, Payloads, NetBird, WebEdit

Four modules for the editors, each EXTENDS the one before:

- `Access.tla`: the pure functions of access.py, diff.py, drift.py and peers.py:
  `Accesses` (what a snapshot grants: by group, by direct peer or resource, both
  ways if bidirectional, unless something is disabled), `Delta`, and the changed
  snapshots that previews compute (`WithPolicy`, `WithGroupMembers`,
  `WithUserAutoGroups`, `WithoutPeer`, `WithoutNetwork`, ...), drift and
  alignment.
- `Payloads.tla`: payloads.py, quickedit.py, restore.py and the merging helpers
  of the routes: what a form becomes, or `Bad` where the code raises
  `PayloadError`; `Edited` (added and removed against what the page showed),
  `CarryOver`, `Revoke`, `RestorePolicy`, `RestoreGroup`. Ports are ranges of
  numbers; names and descriptions are one opaque field.
- `NetBird.tla`: the account behind the API, external: what a GET shows (`Snap`),
  what a write does (`Applied`: PUT replaces the object, groups propagate to a
  user's peers if the account says so, deletions take references along) and
  which it refuses (`Accepts`). It is modelled from what the code and its tests
  expect of it.
- `WebEdit.tla`: the handlers. An edit is opened on a page (`Open`), previewed
  (`Preview`), sent (`Submit`); the handler works through its *jobs*, each of
  which reads NetBird again and makes bodies from what it read (`Work`), writes
  them one by one (`Save`), and fails at a refusal (`Refused`), at a read
  (`NoAnswer`) or at an answer that is lost (`AnswerLost`). The jobs of each
  editor, in their order, are `Jobs`; what one writes is `Writes`. The snapshot
  that a handler validates with may be as old as the page.

The history variables `alone` and `current` of an edit say whether another
editor has written since the page was opened, or since the job's read.

### Maintenance

`Maintenance.tla` models a run of netbird_maintenance.py, and runs by hand of
manage_posture.py, allow_ping.py and cleanup_ephemeral.py, as steps: `ListAccount`
reads once and plans (`AttachWrites`, `PingWrites`, `RemoveWrites`,
`SweepWrites`), `MakeWrite` makes the writes one by one, `CallFails` ends a step
early, `StepEnds` goes on to the next step whether or not it failed, `RunEnds`
reports. `UserActs` and `DeviceActs` change the account at any time. A policy is
its name, whether the name has the prefix, the markers in its description, its
checks and its rules, each at its place in the list. `--rule` gives a whole name,
prefix included (`Targets`). What tells drift is the signature of a policy: its
checks, its markers and how many rules of each kind it has, whatever their order.

### Sessions

`Sessions.tla` models the session store and the login pages, with the identity
provider: `Login`, `Redirected`, `Consents`, `Callback`, `Exchanged`, `SignsIn`;
`Visit` is the start of every other request (found, alive, fresh enough or to be
refreshed), `Granted` and `Refreshed` the two sides of the refresh, then `Served`,
`Unauthorized` or `Logout`, `LoggedOut`. `CallLost` is any call that fails,
`WebRestarts` loses the store, which is in memory. A request keeps the copy of
the session it got, as the handlers do, which is the interesting part. Refresh
tokens rotate.

### StandbyClone

`StandbyClone.tla` has one action per remote command: `StageClears`,
`StageStores`, `StageFiles`, `StageManifest`; `Ship` (part by part, the manifest
like any other file, so that an interrupted upload leaves a mixture);
`InstallChecks`, `InstallDown`, `KeepStores`, `KeepFiles`, `Put`, `AcmeStops`,
`AcmeMerges`, `InstallStarts`; `Verify`; `DrillUp`, `DrillVerifies`, `DrillDown`;
`Failover`; `RollbackChooses`, `RollbackDown`, `RollbackRestores`, `RollbackUp`;
`Report`. `CommandFails` and `ProcessDies` happen between any two. `Plan` is
the list of steps of a cycle (`run`, scheduled or by hand), of an install of all
targets (`installs`) or of the one command. `ComposeDown` is a
`docker compose down` whose failure the code passes over (`|| true`, or an exit
code nobody looks at): the stack then runs on, is in `leftUp` if a drill started
it, and in `stale`, as it may still have the stores open that are replaced under
it, so that `verify` may see either. Traefik may not stop either (`AcmeStops`).
What a part of a copy holds is the
generation of the primary it was read from, or `Absent`. `after` (what the last
command told its operator) and the field `others` (what other processes wrote
meanwhile) are history variables. A promise of an install names the state its
rollback would restore; it is dropped when a later install has begun to keep the
target's state, as rollback takes the latest snapshot.

### OffsiteBackup

`OffsiteBackup.tla`: `Pack`, `Push`, `PruneRemote` (checksum and pruning are one
remote script), `CompareSums`, `Breaks`, `Dies`, by processes that share the
work directory, which each clears at its start and end. An archive is its number
in the order of packing, the time that the pruning sorts by (`ls -1t`; rsync
keeps it). The history variable `risked` says that a run has pruned to no more
archives than were damaged.

### Which module composes which

```
 AuditStream <--implements-- Forwarder          JobRun <--EXTENDS-- HistoryTrigger
      ^                          ^                 ^                      ^
 AuditStreamProofs <-INSTANCE- ForwarderProofs  MCJobRun           JobProofs, MCHistoryTrigger
                             MCForwarder                         WebCache: ...Proofs, MC...

 Access <- Payloads <- NetBird <- WebEdit <--+
                          Maintenance     <--+-- MCWeb       StandbyClone  <--+
                          Sessions        <--+               OffsiteBackup <--+-- MCRecovery

 SaveProofs -> EditProofs -> WebEdit
 WebProofs -> EditProofs, MCWeb                RecoveryProofs -> MCRecovery
```

`MCWeb` and `MCRecovery` put parts that share no state into one run: a variable
chosen at the start (`part`, `job`) says which of them moves in a behaviour, so
that the run checks each of them alone, not their product.

Each module begins with *slips*: versions of its definitions as a plausible bug
would have them. The specification does not use them; replacing the definition
by its slip must make TLC report the property named in `PROJECT.json`
("mutants"), which shows that the property depends on that code.

## The runs

| Run | Model and bounds | Distinct states | What it shows |
|---|---|---|---|
| forwarder_delivery | 3 events, three different filters, catch-up cap 1, 1 crash, immediate mail | 558,000 | nothing below last_id is unaccounted for; replays only after crashes; skipped events are announced as long as the process lives; stdout implements AuditStream |
| forwarder_live | 2 events, digest, backoff 2 to 4, alert after 3, 1 crash, fairness | 89,000 | one alert per outage, backoff reset, honest heartbeat; events are printed and outages alerted in the end |
| forwarder_digest | violation | | see [Findings](#findings) |
| forwarder_resume | violation, no crash, startretries as configured | | see Findings |
| jobs | 1 job, cron, 2 requests, 1 start by the forwarder, history cap 2, 1 trouble | 2,013,000 | one command at a time, complete history, honest state file, requests run once but for a death or a file that stays |
| history_follows | 1 change, 2 endpoints, 1 request, 1 start by the trigger with its probe, real and dry runs, 1 trouble, fairness | 132,000 | snapshots follow changes (of real, undisturbed runs), status and list are honest, request files go away and locks come free in the end |
| history_dry_run | violation, no trouble at all | | see Findings |
| pages | admin and member, 2 requests, 2 writes, lifetime 1, load time 1, fairness | 232,000 | nothing crosses users, late loads are the only stale entries, bounded staleness, every request is answered |
| next_page | violation, 3 requests, 1 write | | see Findings |
| recovery | clone: 2 targets, 3 generations of the primary of which the last is empty, 1 cycle (scheduled or by hand), 1 other command of an operator, 1 failure or death, 1 snapshot kept; backup: 2 processes, 4 archives, 1 or 2 kept by each run, 1 damaged, 1 failure or death | 2,159,000 | an install or a cycle that says it worked left one whole copy, the row gate holds, no second primary runs but for the named reasons, an intact archive remains |
| web | editors: 2 edits out of 32, at once or in turn, over 4 groups, 3 users, 3 peers, 2 policies, 2 keys, a network, 1 refusal or lost answer; reconcilers: 2 runs out of 7 orders, 1 deed of a user or device, 1 failing call; sessions: 4 requests of a browser, lifetime 2, token 2, 1 pending login | 646,000 | saves keep what others did, previews and answers are true, the reconcilers settle, a dropped session stays dropped |
| web_members | violation, the bounds of web | | see Findings |

Why the bounds are enough. Each hazard needs few actors: an overlap of two runs
needs two starts, and a third (a probe, or a run that was killed) to interfere;
a skipped-events notice needs a backlog one larger than the cap and a second
poll; a stale entry needs one load, one save, and one page after it. Three
events reach every relation between the seed, the saved id, the position and the
top. One trouble at any step covers each crash point of the code; two at once
are not claimed. In `web`, two edits are enough for every way in which one can
come between another's page, read and writes; the account is small, but has each
kind of thing that an editor treats apart (the group All, one that the identity
provider writes, a service user, a peer that waits for approval, a rule with a
direct source, a revoked key). Four requests are a login, its callback, and two
that overlap. In `recovery`, two of the three generations have equal counts, so
that `verify` cannot tell them apart, and one is empty; three of four archives
can follow the first that is proven, one of them damaged, with either number
kept. Two cycles at once, one of them by hand (`MaxRuns` counts both kinds), and
an install of all targets beside a cycle (`installs`) have more states than a
run can visit and are covered by the proofs only. Counters that the code lets grow (events, runs, writes,
crashes) are bounded by the constants marked `bound`; when they are used up the
system may stop, which is why most configurations switch the deadlock check off
(nobody has to make another change). The proofs below drop all these bounds.

### What the properties say

`SkipWarned`: the count in the notice is that of the events skipped and not
announced, except for those forgotten: with the process that knew of them, or
because a second cap overwrote the notice. What is forgotten is recorded for good;
that it can happen is among the Findings.

`OncePerRequest`: a request is run at most once, and once more for each death and
for each time its file could not be removed.

`StatusHonest` and `SnapshotFollows` hold, and say so, as long as no trouble has
occurred and all runs of the history were real ones (`RealRuns`). What happens
without that is history_dry_run for the one, and among the Findings for the other.

`OthersKept` compares the account before and after every write, fact by fact:
each that changed must be one its editor changed on the page (`Asked`), if
nobody wrote between the handler's read and this write. `Asked` has two
exceptions, for what a form holds beyond its user's changes and the code
overwrites: who joined or left the edited group since its page was made
(`MovedSince`), and the switch, the checks and the rules of the edited policy.
The first contradicts a comment of the code, which `MembersKept` states and
web_members refutes; of the second the code says nothing, and it is among the
Findings.
`PreviewTrue` compares the difference that a preview showed with that of the
grants before and after, if nobody else wrote; it leaves out policies that have
a rule with a direct source, whose preview is made without it. `HonestAnswer`:
what was answered "saved" was made, "refused" wrote nothing, "saved, but not
every ..." wrote something. For peers the last is not claimed: "Peer saved" may
follow a save whose first write failed (routes_peers.py:213).

`Settles` holds after a run that nothing disturbed, by users, devices or another
run, and in which no call failed: the same run again writes nothing, and
originals and companions correspond, where names are unique, which NetBird does
not ask for (see Findings). No order of the run `web` names a companion.

`SignInsFinal`: an id becomes one of a signed-in session only in the step of the
callback that made it; no late refresh revives one that was dropped.

`TargetAsTold`, `RunHonest`: what the exit code 0 of an install, a rollback or a
whole cycle says is on the disks of the standby, unless another process wrote
there. `GateHolds`: stores below CLONE_MIN_ROWS do not reach the payload, unless
some process is under way in whose time another one wrote to the stage directory,
which all share. `NoSecondPrimary`: a stack without AUTOSTART runs within its own
drill; after a failover; after a drill of it that was cut off, or whose
`docker compose down` failed, until a `down` that works. The last of these is not
meant to happen (see Findings).
`ArchiveStays`: once an archive was proven, an intact one remains, as long as every
run pruned to more archives than were damaged there (`risked`; OFFSITE_KEEP=0
is always a risk). Without the condition it can be lost (see Findings).

### Fairness

- `Forwarder!FairSpec`: weak fairness of the process and of its restart.
  supervisord has autorestart=true, and every call of the process has a timeout.
  Nothing is assumed of the API, the sinks or the crashes; the liveness
  properties say in their own premises when the API is up or down for good and,
  where it matters, that supervisord has not given up.
- `HSpec`, for JobRun too: a process goes on as long as it is not killed,
  commands end, `serve` keeps ticking. For the history job, a run takes finitely
  many steps, so that fairness of the runs together implies that each goes on.
  Cron, users and changes in NetBird are never forced to act.
- `jobs`, `recovery` and `web` check safety only and assume no fairness: operators and
  users need not act, and NetBird, the standby and the identity provider may
  stay away for good.
- `WebCache!FairSpec`: the event loop runs what is ready, and every call to
  NetBird answers or times out (nbapi.py: 20 seconds). Nobody has to send a
  request. In `Tick`, no load lasts longer than `LoadLimit`: httpx limits each
  wait of a call, not the whole, so this is an assumption about NetBird, used by
  `StalenessBounded` only.

## The proofs

TLAPS proves these for every value of the constants that the modules' ASSUMEs
admit: any number of events, crashes, jobs, runs, users, endpoints, writes. A
theorem without a condition in the text has none beyond those ASSUMEs.

| Module | Theorems | Of the runs' properties |
|---|---|---|
| AuditStreamProofs | StreamPromise, StreamNoReplay | the promise that ImplementsStream refers to |
| ForwarderProofs | TypeCorrect, StreamImplemented, NoEventVanishes, BackoffIsReset, AlertsAreCounted, BeatsAreHonest, PostsAreBounded, SkipsAreAnnounced, DigestIsKept, RepeatsAreCrashes | all the safety of forwarder_delivery and forwarder_live |
| JobProofs | JobTypes, JobsExclude, HistoriesAreComplete, RunningIsHonest, RequestsRunOnce, SnapshotsDiffer, ChangesStayPending, StatusIsHonest | all the safety of jobs and history_follows; StatusHonest with its conditions (no trouble, real runs) |
| WebCacheProofs | CacheTypes, OnlyLateLoads, NeverShared, BoundedStaleness | all the safety of pages |
| RecoveryProofs | BackupTypesHold, IntactArchiveStays, CloneInvariant, TargetsAreAsTold, OnePrimary, ReportsAreHonest, GateIsKept, RecoveryTypes | all of recovery |
| EditProofs | AccountStaysValid | the editors' part of TypeOK of web |
| SaveProofs | SavesKeepOthers, AnswersAreHonest, PreviewsAreTrue | OthersKept, HonestAnswer and PreviewTrue of web |
| WebProofs | StoreTypes, SignInsAreFinal, ReconcilerTypes, WebTypesHold, ReconcilersSettle | SignInsFinal and TypeOK of web; Settles under two conditions, see below |

**AuditStreamProofs.** `StreamInv` is inductive: what lies between the seed and
the position is emitted, nothing else is, and each new entry exceeds all earlier
ones emitted since the last rewind; `Emit` needs the ordering of committed <=
position <= published.

**ForwarderProofs.** `TypeCorrect` needs, besides the types, that supervisord's
count is within its retries as long as it has not given up (`Counted`).
`StreamImplemented` proves the refinement: each action maps to a step of
AuditStream or a stutter. It needs `Cursors`, the order of last_id, printed,
fetched and top at each label of the loop; without it a step at `post` could
commit more than was printed. `NoEventVanishes` then takes the stdout part from
AuditStream's own theorem, through the refinement, and proves the sinks' part
with `Accounted`: at `mail` the post is booked up to `fetched`, and the mails up
to `mailed`. The others each rest on what the place in the loop says of the file:

- `BackoffIsReset`: `OutageKnown` (the labels of the failing branch are reached
  with an outage in the file, those of the working branch without one) and `Calm`
  (without an outage the wait is one poll interval).
- `AlertsAreCounted`: `Alerting` counts the alerts of an outage against the
  deaths since it began; a death between the post and the save is the only way to
  a second one. `BeatsAreHonest`: `Beating`, a beat that says the poll worked is
  left standing only in an outage that no wait has been through yet.
- `RepeatsAreCrashes`: `Counting`, an id at or below the position was printed in
  this life at most once, and once per death before; an exit that the code takes
  itself leaves the position at the cursor, and so repeats nothing.
- `PostsAreBounded`, `SkipsAreAnnounced`, `DigestIsKept`: what a post carries is
  cut before it is sent, and while the process lives both the notice and the
  digest are let go only in the branch of a confirmed send. A notice that ends with
  its process, or is overwritten by the next, moves its events to `forgotten`, and
  the theorem claims nothing of these. The first does not hold with MAX_CATCHUP=0
  and says so.

**JobProofs.** First the runs of jobs, from JobRun. `JobTypes`, with the caps of histories and ticks: `BelowLimit`
says that `serve` accepts a request only below its limit. `JobsExclude` from
`Holding`: a run that got its lock is the lock's holder until it unlocks or
dies, so two locked live runs of a job are the same. `HistoriesAreComplete` needs
to know what a run between its read and its write of the state file still holds
(`Recorded`): the holder of the lock has read what is there, and the histories
are initial parts of the list of completed runs (`Listing`). `RequestsRunOnce`
counts: `Filed` says that ids are used for one file, `Billed` that a request
whose file is still there has had a run only for each death and for each removal
that failed.

Then what HistoryTrigger adds. `SnapshotsDiffer` is about the list only: pruning takes
the oldest, and the head is compared before the rename. `ChangesStayPending`
needs `Owned` (a lock belongs to who says so) and `UpToDate`: once start_job has
seen the lock free, any run that gets it has begun after the change, so the run
that loses against it loses nothing. `StatusIsHonest` needs three parts of
`Honest`: what a run has fetched is the configuration if nothing changed since it
began (`Drafting`); the change a finished real run saw is shown (`LastRunShown`);
the newest snapshot is of the configuration if its stamp covers the last change
(`NewestShown`). The property's
conditions are needed: `snapshot_status` counts the start of a dry or a failed run,
which shows nothing; without them TLC finds the property violated.

**WebCacheProofs.** The properties speak of stored entries and rendered pages
only; the inductive invariant `Data` says the same of what a load has read so
far, endpoint by endpoint, with the age of the load in place of the age of the
entry. `Queued` (each request once at its user's lock, the one that loads in
front) makes the lock do its work: the request that leaves is the holder.

**RecoveryProofs.** `IntactArchiveStays`: the newest intact archive has only
damaged ones above it, so that a `--keep` larger than the number of damaged
archives there keeps it, whichever keeps the runs before were given; `StampsOwn`
and `Unshipped` keep an archive's number from being used twice. For the clone the invariant says what each process may
rely on *while no other process has written there* (the field `others`): of the
stage directory (`StageLocal`: what is about to be shipped passed the row gate
and is of this cycle), of the payload (`PayloadLocal`), of the targets a cycle is
done with (`DiskLocal`), of snapshots not made yet (`FreshLocal`), of a target in
the middle of its install or its rollback (`InstallLocal`, `RollLocal`: what is
not left to do is done, the snapshot it made is the latest). `Phases` ties the
label to the list of steps, of whichever plan. From it, `AfterOK`, `UpOK` and `IngressOK` give the
properties, and `GateIsKept` follows step by step. Looking for this invariant
corrected the model twice: `CLONE_TARGETS` must not name a target twice, and the
promise of an install about its rollback ends when a later install keeps the
target's state.

**EditProofs.** `AccountStaysValid`: after any interleaving of saves, refusals and
lost answers, groups, users, peers, policies, keys, networks and resources name
only what exists. The account alone is not inductive: a handler writes a body it
made earlier, perhaps from a page that others have made old. `EditInv` therefore
also says that the page of each edit is such an account, that each planned write
has the shape of its type, and that an edit has only jobs of its kind
(`ValidEdit`). `AppliedValid` is the lemma about NetBird: an accepted write of
that shape keeps the account valid, deletions with all that they take along.

**SaveProofs.** `SavesKeepOthers`: in every write that no other came between
since the handler read NetBird, each fact that changes is one the form asks for
or one of the two exceptions of `Asked`; for all 32 kinds of saves, any editors and any account. The argument has three
parts:

- `GroupPutChanges` to `NetworkGoneChanges`: which facts a write can change, by its type and
  method (an update of a group changes its members, its resources and, where the
  account propagates, what the users' peers are in; a deletion takes references
  along).
- `PostExplained` to `PolicyExplained`, a lemma for each kind of job: the writes that a job makes from a page, a
  snapshot and a fresh read change only what `Asked` admits. Here the merging
  helpers are needed for every input: what `Edited` adds and removes was chosen
  on the page, `UserGroupChanges` leaves groups alone that the form did not show,
  `CarryOver` and `Revoke` keep the rules they do not mean.
- `KeptInv`, the inductive invariant: as long as `current` holds, all that is left
  of the plan fits the account as it is now (`PlanFits`; the second of two writes
  must still fit after the first). Rules are told apart by their ids, so it also
  says that no two rules of a policy share one (`RulesApart`), that the ids a page
  or a plan mentions are NetBird's or of an edit that has written (`IdsOf`), and
  that an editor that has not written yet has no id of its own anywhere.

The ids of rules are where this is delicate: `CarryOver` matches by id, and a
body of which two rules shared an id would carry over the hidden fields of one
into the other.

`AnswersAreHonest`: a save that nobody came between did all that its user asked
for, and a refusal left nothing behind. `StepIs` first describes every action as
a relation between two records of an edit; then three invariants:

- `AllOrdered`: the first stage of a save is one job of at most one write, and the
  jobs that come after it (`Late`) answer "partial", so that a refusal finds nothing
  written.
- `Sound`: no user of the account, and no write of a plan, is the error `Bad`; a
  handler leaves a write out that would change nothing, and must not take an error
  for such a one.
- `Stands`: of an edit that is alone since its page was made, each thing asked for
  is done, or planned, or its job is still to be done; `GroupTask`, `PeerStands`,
  `UserStands` and `KeyStands` say it for each kind. It needs what a write
  of one thing leaves alone (the peers that a user's write moves in or out of
  groups, `Propagated`, are the delicate ones: the peers of a group are promised
  only as far as their user is not among those the form changes). When nothing is
  planned and no job is left, only "done" remains.

`PreviewsAreTrue`: who reaches what after a save, by the account, is what the page
computed from its snapshot before it, if nobody came between, for every kind of
edit that has a preview. The page recomputes by hand what NetBird does (members
that follow their users, references that go with a peer, a resource or a
network), so each kind needs an argument of its own:

- `PolicyForetold` to `GroupRestoreForetold`: for an edit of one write, that the
  account after the write grants what the snapshot of the preview grants. The two
  are not equal. A policy's rules get ids and their hidden fields back, and what
  is new has another id than the page gave it; no grant tells these apart.
- `SingleTold`: such an edit is before its write, with the account of the page;
  at it; or past it, with the access foretold. A job that leaves its write out
  because it would change nothing has foretold no change (`ResourceAsIs`).
- `PeerTold`, `UserTold`, `GroupSaveTold`: the edits of several writes, of which
  the first moves peers that the next one reads. Policies and the resources of
  groups stay (`Frame`); the peers of each group are as on the page or as
  foretold (for a peer), as the user's write left them or as foretold (for a
  user and the alignment of its devices), or as the form says but for the devices
  of the users written so far (for a group). The foretold peers are given as
  functions of the page (`PeerTarget`, `UserTarget`, `GroupTarget`), that the
  preview computes them are `PeerForetold`, `UserForetold` and `GroupForetold`.
- `Unmade`: an editor that has not written has nothing in the account that is
  named for it. A preview names a new policy or resource for its editor, and
  this is what makes the name free.

**WebProofs**, the sessions. `StoreTypes` includes the cap on pending logins.
`SignInsAreFinal` needs that a request's copy of a session that is still stored
agrees with it on when it was made and whether it is signed in (`CopiesOK`); only
`rotate` changes these, and it gives the session a new id. A late refresh then
updates a session that is there or does nothing.

`ReconcilersSettle`: the invariant (`Tracked`) speaks of a run that
nothing disturbed and no call failed in: what it has still to write is exactly
what its step would find if it listed the account now, and the steps it is past
would find nothing. The first half needs, for each of the four steps, that a
write takes itself off what the step finds and nothing else (`PingStep`,
`PostureStep`, `RemoveStep`, `SweepStep`); `PingWritesAre` describes the writes of
allow_ping.py by what is wrong with the account (`Lacks`, `Stray`, `Drifts`) for
that. The second needs that later steps do not undo earlier ones: a companion
gets no check that its original lacks, and drops none (`CompanionNotDue`,
`PostureKept`). `NothingToPing` is the reading of the end: where allow_ping.py has
nothing to write, companions mirror their originals; of rules with the same ends
the first is mirrored, so this needs the least element of a set of places
(`FirstPlace`). A run makes no second policy of a name (`NamesStay`).

The two conditions are hypotheses that the code does not establish: *a run begins
where names are unique* (of two companions of an original that is gone it deletes
only the last in the list), and *no `--rule` names a companion* (the check that
manage_posture.py puts on it is taken off by allow_ping.py in the same run, once
an hour). Both hold in every behaviour of the run `web`, the first although two
runs at once can create two companions there: they are disturbed then, and
nothing is claimed of them.

**Not provable here, and left to TLC.** Liveness and ENABLED (`EventuallyPrinted`,
`EventuallyAlerted`, `RequestsLeave`, `LocksComeFree`, `SnapshotFollows`,
`Answered`). What a recursive definition computes for every input, because the
library's induction theorems take an operator as parameter (a least element of a
set of numbers can be had from `WFMin`, which takes none). Facts about
`SelectSeq` and `FlattenSeq`, of which the library has no theorem; the modules
under a theorem use sets and functions in their place.

Of the safety properties that the passing runs check each has a theorem.

## Findings

These are the counterexamples of runs.

- **next_page**, `birdseye_web/snapshot.py:82`. A load that began before a save
  is stored after the save's invalidation. With two tabs, or a page that is
  still loading, the page after a save shows the old configuration for up to the
  lifetime of an entry. snapshot.py:5: "Every write path calls `invalidate()` so
  the next page shows the change." `LateLoadsOnly` and its proof show that a
  save that was answered is missed in no other way.
- **history_dry_run**, `jobrun.py:299`. `start_job` probes the lock, lets go of
  it and spawns the run. A dry run that takes the lock in between makes the run
  exit as SKIPPED, while the trigger was told "started" and forgets the change.
  change_trigger.py:56: "a change made during a running snapshot still gets its
  own".
- **forwarder_digest**, `docker/event_forwarder.py:509`. Mails waiting for the
  digest are in memory, and last_id is already past them: any restart loses up
  to EMAIL_DIGEST_MINUTES of mail. README.md:125: "No event loss across
  restarts".
- **forwarder_resume**, `docker/supervisord.conf:14`. A forwarder that starts
  while the API is away exits at once; after startretries=5 supervisord gives
  it up, and it stays down when the API is back.
- **web_members**, `birdseye_web/routes_groups.py:247`. "re-read now so resources
  and concurrent edits by others are not lost" (242) is true of resources only: the
  peers are those of the form, and one that another user added since the page was
  made is removed again.

The others were met while modelling. The models contain them, and a property
that one of them would break names it as an exception.

- **Notice lost**, `docker/event_forwarder.py:909`. The notice of skipped
  events survives a failed post in memory only, while last_id is saved past them:
  a restart in between, and they are never announced. CHANGELOG.md:412: "The
  skipped-events warning is preserved across retries until Mattermost actually
  acknowledges it."
- **Request run again**, `jobrun.py:342`. A request file that cannot be unlinked (a
  directory that became read-only) stays without an error and is run again at the
  next tick, every 3 seconds for a short job. jobrun.py:313: "always remove the
  file".
- **Current without a snapshot**, `birdseye_web/history_view.py:89`. The start of
  the last run counts as covering all changes before it, also of a dry run and of
  one that failed: "current" is shown while no snapshot has the change. Line 84
  means runs that found nothing new: "covers it even if it wrote nothing (unchanged)".
- **Drill passed, stack running**, `clone_standby.py:839`. The exit code of the
  drill's `docker compose down` is not used: when it fails, the drill passes, the
  cycle reports OK, and the stack with the primary's identity runs on. Line 6:
  "start the clone, verify it, stop it again". `NoSecondPrimary` names this case.
- **Pruning before comparing**, `backup_offsite.py:155`. The remote script prunes,
  and then its checksum is compared, though line 139 says "prove it arrived
  intact, then prune": uploads that arrive damaged push out the good ones, with
  keep=1 the only one. `ArchiveStays` has the condition under which one is left.
  With keep=0 the archive just sent is deleted too.
- **Redirect loop**, `birdseye_web/context.py:70`. When the identity provider
  refuses a refresh token, the page sends the browser to /login, but the session
  stays in the store. /login takes it for a working one (routes_auth.py:54-57)
  and redirects back to the page; /logout asks for the same session first. This
  goes on until `session_hours` have passed or the cookie is deleted.
- **Rollback**, `clone_standby.py:980`. It takes the newest snapshot. After an
  install that failed before its own (at the check, or while it stopped the
  stack) that is the one of the install before; retries that fail after it push
  the good ones out. Line 805 tells the operator to roll back.
- **Rules overwritten**, `routes_policies.py:300`. A save writes the rules of the
  form: a rule that somebody else added or took away since the page was made is
  removed or comes back, while users and groups of members are merged.
- **No snapshot after a partial save**, `routes_groups.py:220`, and in
  routes_users.py:223 and routes_peers.py:206. context.py:142: "After every
  write: drop cached snapshots (everyone sees the change) and ask for a config
  history snapshot."
- **Companions of direct rules**, `allow_ping.py:204`. The signature leaves out
  sourceResource and destinationResource, so that a companion whose original
  moved to another resource is never updated, against the docstring's "update
  ZPING companions when the original drifted (... sources, destinations ...)".

Smaller ones: with MAX_CATCHUP=0 the slice `[-0:]` posts the whole backlog
(event_forwarder.py:761); `outage_alerted` is set also when the alert's post
failed (722-727); a second cap overwrites the count of an undelivered notice,
whose events are then never announced (`forgotten`);
a due snapshot is forgotten when the forwarder restarts after the save (779);
an endpoint that fails is left out of a snapshot, and history.py shows its
objects as deleted; a write whose answer is lost invalidates nothing; a
policy's preview is made without `carry_over`, so that a rule with a direct
source shows as one without (routes_policies.py:282); "Peer saved" is also said
when nothing was (routes_peers.py:213); two policies of the same name get two
companions, of which one is no longer followed, and a companion renamed between
the list and the write is written nevertheless (allow_ping.py:177 checks the
name that was listed); the scheduled install or drill stops a clone that was
failed over to (clone_standby.py:839, 846); a `down` that fails is passed over by
install and rollback too (707, 993), which then replace stores that a running
stack has open; an ACME merge that fails leaves Traefik stopped; `verify`
compares counts only.

## Not modelled, and the plan

Left out of what is modelled, component by component:

- *Standby clone*: `status`, `verify` as a command of its own, prompts and dry
  runs (they change nothing), shared paths and image digests (copied like any
  other part), configuration errors (the process ends at once). An ssh connection
  that drops ends the remote script in the model; a remote `bash -s` can run on
  as an orphan for a while, beside the next command. Whether Traefik stops for the
  merge of certificates is modelled, what becomes of their file if it does not
  (Traefik writes its own back) is not.
- *Off-site backup*: what is packed, and the mail.
- *Editors*: names and descriptions as such, wording, users without the rights
  (NetBird refuses their writes: `Refused`), the creation of setup keys' secrets;
  the box that approves a waiting peer is never ticked (`SettingsWrites`; ticked,
  it adds one field to the same body, payloads.py:223).
- *Reconcilers*: listings, the wording of descriptions; the name and the action
  of a rule, which allow_ping.py mirrors and compares too (`MirrorRule`,
  `RuleSignature`).
- *Access*: the reasons shown for a grant, the content of posture checks.
- *Jobs page*: the forwarder's status; *jobs*: malformed request files and
  registry.json; *forwarder*: startup tests, an unreadable state.json (which
  nothing in the system writes).

Left out for good: weekly backup mails and `run_backup.sh` (sequential),
checkmk and mail output, the read-only views (stateless over a snapshot), the
operator's command line (one or two API calls each), demo, templates and
release scripting.

The composition of WebEdit with WebCache (content per write and the cache's
staleness in one model) is not made: the handlers read NetBird again before each
write, so that the cache reaches WebEdit only as a snapshot that may be as old as
the page (`Snapshots`), and WebCache shows how old that can be.

Nothing that the provers reach is left to prove of the properties that the runs
check; the two conditions of `ReconcilersSettle`, those of `StatusIsHonest` and
the one of `IntactArchiveStays` are what the code leaves open.
