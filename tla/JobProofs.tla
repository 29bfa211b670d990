------------------------------- MODULE JobProofs -------------------------------
(***************************************************************************)
(* Runs of jobs, for every set of jobs and every number of runs, requests  *)
(* and deaths: the type invariant, that two commands of a job overlap only *)
(* when one of them has outlived its jobrun.py process or ran without the  *)
(* lock, that no summary of a run is lost, that a job shown as running is  *)
(* running or was killed, and that a request is run once, and once more at *)
(* most for each death.                                                    *)
(*                                                                         *)
(* Above them, from a change to a snapshot, for every number of endpoints  *)
(* and changes: snapshots that follow each other differ, a change once     *)
(* noted stays on its way, and the History page says "current" only of a   *)
(* snapshot that shows the configuration.                                  *)
(***************************************************************************)
EXTENDS HistoryTrigger, SequenceTheorems, FiniteSetTheorems, TLAPS

(* serve accepts a request only below the limit of the tick.               *)
BelowLimit == serve.pc \in {"probed", "handle"} => serve.started < MaxSpawns

(* The lock of a run's job belongs to that run, and a run that is over     *)
(* holds none.                                                             *)
Holding ==
  \A r \in Runs : run[r].locked =>
    /\ lock[run[r].job] = r
    /\ run[r].pc \in {"begin", "command", "final", "unlock"}

-----------------------------------------------------------------------------
(* Operators *)

LEMMA AnyJobIs == AnyJob \in Jobs
  BY JobConstants DEF AnyJob

(* A run's number is never that of a daemon, nor that of a free lock.      *)
LEMMA RunIs ==
  ASSUME NEW r \in Runs
  PROVE  r \in Nat /\ r \in Holders /\ r \notin {Free, Serve, Starter}
<1>1. r \in Nat /\ r >= 1
  BY JobConstants DEF Runs
<1>. QED
  BY <1>1 DEF Holders, Free, Serve, Starter

LEMMA NoRunIs == NoRun \in RunRecords
<1>1. <<>> \in Seq(Runs)
  OBVIOUS
<1>2. 0 \in 0..MaxRequests /\ "run" \in Modes
  BY JobConstants DEF Modes
<1>. QED
  BY <1>1, <1>2, AnyJobIs DEF NoRun, RunRecords

(* The history written at the end of a run is a capped sequence of runs.   *)
LEMMA PastIs ==
  ASSUME NEW r \in Runs, run[r].prev \in Seq(Runs)
  PROVE  Past(r) \in Seq(Runs) /\ Len(Past(r)) <= HistoryCap
<1>. DEFINE all == <<r>> \o run[r].prev
            n == IF Len(all) < HistoryCap THEN Len(all) ELSE HistoryCap
<1>1. all \in Seq(Runs)
  <2>1. <<r>> \in Seq(Runs)
    OBVIOUS
  <2>. QED
    BY <2>1, ConcatProperties
<1>2. n \in Nat /\ n <= Len(all) /\ n <= HistoryCap
  BY <1>1, LenProperties, JobConstants
<1>3. SubSeq(all, 1, n) \in Seq(Runs) /\ Len(SubSeq(all, 1, n)) = n
  <2>. HIDE DEF all, n
  <2>. QED
    BY <1>1, <1>2, SubSeqProperties
<1>. QED
  BY <1>2, <1>3 DEF Past

(* Spawning picks a run that does not exist yet.                           *)
LEMMA SpawnIs ==
  ASSUME NEW j \in Jobs, NEW mode \in Modes, NEW q \in 0..MaxRequests, Spawn(j, mode, q),
         run \in [Runs -> RunRecords]
  PROVE  /\ run' \in [Runs -> RunRecords]
         /\ \A r \in Runs : run'[r] = run[r] \/ ~run'[r].locked
<1>1. NextRun \in Runs
  BY DEF Spawn, NextRun
<1>. DEFINE new == [NoRun EXCEPT !.pc = "lock", !.job = j, !.mode = mode, !.request = q]
<1>2. new \in RunRecords /\ ~new.locked
  BY NoRunIs DEF NoRun, RunRecords
<1>3. run' = [run EXCEPT ![NextRun] = new]
  BY DEF Spawn
<1>. QED
  BY <1>1, <1>2, <1>3

(* The counters of the bounded events keep to their bounds.                *)
LEMMA CountIs ==
  ASSUME used \in Counters
  PROVE  /\ used.cron < MaxCron /\ Count("cron") => used' \in Counters
         /\ used.requests < MaxRequests /\ Count("requests")
              => used' \in Counters /\ used'.requests \in 0..MaxRequests
         /\ TroublesLeft /\ (Count("kills") \/ Count("faults") \/ Count("unremoved"))
              => used' \in Counters
  BY JobConstants DEF Counters, Count, TroublesLeft

(* The file is gone, or its removal has failed once more.                  *)
LEMMA RemovesIs ==
  ASSUME NEW q, used \in Counters, Removes(q)
  PROVE  /\ used' \in Counters
         /\ \/ requests' = requests \ {q} /\ UNCHANGED used
            \/ UNCHANGED requests /\ Count("unremoved")
  BY CountIs DEF Removes, Without

LEMMA LockingIs ==
  ASSUME NEW j \in Jobs, NEW h \in Holders,
         lock \in [Jobs -> Holders], used \in Counters,
         Takes(j, h) \/ Held(j) \/ Unopened
  PROVE  lock' \in [Jobs -> Holders] /\ used' \in Counters
  BY CountIs DEF Takes, Held, Unopened

LEMMA ReleaseIs ==
  ASSUME NEW h, lock \in [Jobs -> Holders], Release(h)
  PROVE  lock' \in [Jobs -> Holders]
  BY DEF Release, Holders

LEMMA DeadIs ==
  ASSUME NEW r \in Runs, run[r] \in RunRecords
  PROVE  Dead(r) \in RunRecords /\ ~Dead(r).locked
<1>1. <<>> \in Seq(Runs)
  OBVIOUS
<1>. QED
  BY <1>1 DEF Dead, RunRecords

(* A state file is written as it should be, or not at all.                 *)
LEMMA RecordsIs ==
  ASSUME NEW j \in Jobs, NEW content \in StateFiles, Len(content.history) <= HistoryCap,
         Records(j, content), state \in [Jobs -> StateFiles], used \in Counters,
         \A i \in Jobs : Len(state[i].history) <= HistoryCap
  PROVE  /\ state' \in [Jobs -> StateFiles] /\ used' \in Counters
         /\ \A i \in Jobs : Len(state'[i].history) <= HistoryCap
<1>1. CASE state' = [state EXCEPT ![j] = content] /\ UNCHANGED used
  BY <1>1
<1>2. CASE TroublesLeft /\ Count("faults") /\ UNCHANGED state
  BY <1>2, CountIs
<1>. QED
  BY <1>1, <1>2 DEF Records

-----------------------------------------------------------------------------
(* Types *)

(* The parts of the type invariant, by the variables they are about.       *)
Capped == \A j \in Jobs : Len(state[j].history) <= HistoryCap

ServeOK == serve \in ServeRecords /\ BelowLimit

StarterOK == starter \in [pc : {"idle", "probed", "spawn"}, job : Jobs]

Parts ==
  /\ lock \in [Jobs -> Holders] /\ run \in [Runs -> RunRecords] /\ orphans \subseteq Runs
  /\ state \in [Jobs -> StateFiles] /\ Capped /\ requests \subseteq Paths
  /\ finished \in [Jobs -> Seq(Runs)]
  /\ triggerable \subseteq Jobs /\ ServeOK /\ StarterOK /\ used \in Counters

LEMMA PartsAreTypes == Parts => TypeOK
  BY DEF TypeOK, RunsOK, FilesOK, DaemonsOK, Parts, Capped, ServeOK, StarterOK

LEMMA IdleIs ==
  /\ Idle \in ServeRecords /\ Idle.pc = "sleep"
  /\ NoStart \in [pc : {"idle", "probed", "spawn"}, job : Jobs]
<1>1. NoPath \in Paths
  BY JobConstants, AnyJobIs DEF NoPath, Paths, Modes
<1>2. Idle \in ServeRecords
  BY <1>1, JobConstants DEF Idle, ServeRecords
<1>. QED
  BY <1>2, AnyJobIs DEF Idle, NoStart

LEMMA InitTypes == Init => Parts
<1>. SUFFICES ASSUME Init PROVE Parts
  OBVIOUS
<1>1. <<>> \in Seq(Runs) /\ Len(<<>>) = 0
  OBVIOUS
<1>2. lock \in [Jobs -> Holders] /\ run \in [Runs -> RunRecords] /\ orphans \subseteq Runs
  BY NoRunIs DEF Init, Holders
<1>3. state \in [Jobs -> StateFiles] /\ Capped /\ requests \subseteq Paths
  BY <1>1, JobConstants DEF Init, StateFiles, Capped
<1>4. finished \in [Jobs -> Seq(Runs)] /\ triggerable \subseteq Jobs
  BY <1>1 DEF Init
<1>5. ServeOK /\ StarterOK
  BY IdleIs DEF Init, ServeOK, StarterOK, BelowLimit
<1>6. used \in Counters
  BY JobConstants DEF Init, Counters
<1>. QED
  BY <1>2, <1>3, <1>4, <1>5, <1>6 DEF Parts

(* A step that leaves a variable alone keeps its type.                     *)
LEMMA Untouched ==
  ASSUME Parts
  PROVE  /\ UNCHANGED lock => lock' \in [Jobs -> Holders]
         /\ UNCHANGED run => run' \in [Runs -> RunRecords]
         /\ UNCHANGED orphans => orphans' \subseteq Runs
         /\ UNCHANGED state => state' \in [Jobs -> StateFiles] /\ Capped'
         /\ UNCHANGED requests => requests' \subseteq Paths
         /\ UNCHANGED finished => finished' \in [Jobs -> Seq(Runs)]
         /\ UNCHANGED triggerable => triggerable' \subseteq Jobs
         /\ UNCHANGED serve => ServeOK'
         /\ UNCHANGED starter => StarterOK'
         /\ UNCHANGED used => used' \in Counters
  BY DEF Parts, Capped, ServeOK, BelowLimit, StarterOK

LEMMA RunStepTypes ==
  ASSUME Parts, NEW r \in Runs, RunStep(r)
  PROVE  Parts'
<1>1. /\ lock \in [Jobs -> Holders] /\ run \in [Runs -> RunRecords]
      /\ state \in [Jobs -> StateFiles] /\ Capped /\ used \in Counters
      /\ finished \in [Jobs -> Seq(Runs)] /\ r \in Holders
  BY RunIs DEF Parts
<1>2. run[r].job \in Jobs /\ run[r].prev \in Seq(Runs) /\ <<>> \in Seq(Runs)
  BY <1>1 DEF RunRecords
<1>3. CASE Lock(r)
  <2>1. run' \in [Runs -> RunRecords]
    <3>1. CASE run' = [run EXCEPT ![r].pc = "begin", ![r].locked = TRUE]
      BY <1>1, <3>1 DEF RunRecords
    <3>2. CASE Moves(r, "skipped")
      BY <1>1, <3>2 DEF Moves, RunRecords
    <3>3. CASE Moves(r, "begin")
      BY <1>1, <3>3 DEF Moves, RunRecords
    <3>. QED
      BY <1>3, <3>1, <3>2, <3>3 DEF Lock
  <2>2. lock' \in [Jobs -> Holders] /\ used' \in Counters
    BY <1>1, <1>2, <1>3, LockingIs DEF Lock
  <2>. QED
    BY <1>3, <2>1, <2>2, Untouched DEF Lock, files, Parts
<1>4. CASE Begin(r)
  <2>1. state[run[r].job] \in StateFiles /\ Len(state[run[r].job].history) <= HistoryCap
    BY <1>1, <1>2 DEF Capped
  <2>2. run' \in [Runs -> RunRecords]
    <3>1. state[run[r].job].history \in Seq(Runs)
      BY <2>1 DEF StateFiles
    <3>2. run' = [run EXCEPT ![r].pc = "command", ![r].prev = state[run[r].job].history]
      BY <1>4 DEF Begin
    <3>. QED
      BY <1>1, <3>1, <3>2 DEF RunRecords
  <2>3. /\ Started(run[r].job, r) \in StateFiles
        /\ Len(Started(run[r].job, r).history) <= HistoryCap
    BY <2>1 DEF Started, StateFiles
  <2>4. state' \in [Jobs -> StateFiles] /\ used' \in Counters /\ Capped'
    BY <1>1, <1>2, <1>4, <2>3, RecordsIs DEF Begin, Capped
  <2>. QED
    BY <1>4, <2>2, <2>4, Untouched DEF Begin, Parts
<1>5. CASE CommandEnds(r)
  <2>1. run' \in [Runs -> RunRecords]
    BY <1>1, <1>5 DEF CommandEnds, Moves, RunRecords
  <2>. QED
    BY <1>5, <2>1, Untouched DEF CommandEnds, files, Parts
<1>6. CASE Final(r)
  <2>1. run' \in [Runs -> RunRecords]
    BY <1>1, <1>2, <1>6 DEF Final, RunRecords
  <2>2. Ended(r) \in StateFiles /\ Len(Ended(r).history) <= HistoryCap
    BY <1>2, PastIs DEF Ended, StateFiles
  <2>3. state' \in [Jobs -> StateFiles] /\ used' \in Counters /\ Capped'
    BY <1>1, <1>2, <1>6, <2>2, RecordsIs DEF Final, Capped
  <2>4. finished' \in [Jobs -> Seq(Runs)]
    <3>1. <<r>> \o finished[run[r].job] \in Seq(Runs)
      BY <1>1, <1>2, ConcatProperties
    <3>. QED
      BY <1>1, <1>6, <3>1 DEF Final
  <2>. QED
    BY <1>6, <2>1, <2>3, <2>4, Untouched DEF Final, Parts
<1>7. CASE Unlock(r)
  <2>1. run' \in [Runs -> RunRecords]
    BY <1>1, <1>7 DEF Unlock, RunRecords
  <2>2. lock' \in [Jobs -> Holders]
    BY <1>1, <1>7, ReleaseIs DEF Unlock
  <2>. QED
    BY <1>7, <2>1, <2>2, Untouched DEF Unlock, files, Parts
<1>. QED
  BY <1>3, <1>4, <1>5, <1>6, <1>7 DEF RunStep

(* What serve does to its own record.                                      *)
LEMMA ServeIs ==
  ASSUME ServeOK
  PROVE  /\ \A q \in serve.todo : q \in Paths /\ q.job \in Jobs
         /\ serve.path \in Paths /\ serve.path.job \in Jobs
         /\ \A q \in Paths : /\ [serve EXCEPT !.todo = @ \ {q}, !.pc = "next"] \in ServeRecords
                            /\ Next1(q) = [serve EXCEPT !.todo = @ \ {q}, !.pc = "next"]
         /\ \A j \in Jobs : Seen(j) \subseteq Jobs
  BY DEF ServeOK, ServeRecords, Paths, Next1, Seen

LEMMA ServeStepTypes ==
  ASSUME Parts, ServeStep
  PROVE  Parts'
<1>1. /\ lock \in [Jobs -> Holders] /\ run \in [Runs -> RunRecords]
      /\ requests \subseteq Paths /\ used \in Counters /\ ServeOK /\ Serve \in Holders
  BY DEF Parts, Holders
<1>2. CASE Tick
  <2>1. serve' \in ServeRecords /\ serve'.pc = "next"
    BY <1>1, <1>2, IdleIs DEF Tick, ServeRecords
  <2>. QED
    BY <1>2, <2>1, Untouched DEF Tick, files, Parts, ServeOK, BelowLimit
<1>3. CASE TickDone
  BY <1>3, IdleIs, Untouched DEF TickDone, files, Parts, ServeOK, BelowLimit
<1>4. CASE DropSurplus
  <2>1. requests' \subseteq Paths /\ used' \in Counters
    BY <1>1, <1>4, RemovesIs DEF DropSurplus
  <2>2. serve' \in ServeRecords /\ serve'.pc = "next"
    <3>1. PICK q \in serve.todo : serve' = Next1(q)
      BY <1>4 DEF DropSurplus
    <3>2. q \in Paths
      BY <1>1, ServeIs
    <3>3. serve \in ServeRecords
      BY <1>1 DEF ServeOK
    <3>. QED
      BY <3>1, <3>2, <3>3 DEF Next1, ServeRecords
  <2>. QED
    BY <1>4, <2>1, <2>2, Untouched DEF DropSurplus, Parts, ServeOK, BelowLimit
<1>5. CASE Probe
  <2>1. PICK q \in serve.todo :
          /\ q.job \notin serve.seen /\ serve.started < MaxSpawns
          /\ \/ /\ Takes(q.job, Serve)
                /\ serve' = [serve EXCEPT !.pc = "probed", !.path = q]
                /\ UNCHANGED requests
             \/ /\ Unopened
                /\ serve' = [serve EXCEPT !.pc = "handle", !.path = q]
                /\ UNCHANGED requests
             \/ /\ lock[q.job] # Free /\ UNCHANGED lock
                /\ Removes(q)
                /\ serve' = [Next1(q) EXCEPT !.seen = Seen(q.job)]
    BY <1>5 DEF Probe
  <2>2. q \in Paths /\ q.job \in Jobs
    BY <1>1, ServeIs
  <2>3. lock' \in [Jobs -> Holders] /\ used' \in Counters
    BY <1>1, <2>1, <2>2, LockingIs, RemovesIs
  <2>4. requests' \subseteq Paths
    BY <1>1, <2>1, RemovesIs
  <2>5. ServeOK'
    <3>1. CASE serve' = [serve EXCEPT !.pc = "probed", !.path = q]
      BY <1>1, <2>1, <2>2, <3>1 DEF ServeOK, BelowLimit, ServeRecords
    <3>2. CASE serve' = [serve EXCEPT !.pc = "handle", !.path = q]
      BY <1>1, <2>1, <2>2, <3>2 DEF ServeOK, BelowLimit, ServeRecords
    <3>3. CASE serve' = [Next1(q) EXCEPT !.seen = Seen(q.job)]
      BY <1>1, <2>2, <3>3, ServeIs DEF ServeOK, BelowLimit, ServeRecords
    <3>. QED
      BY <2>1, <3>1, <3>2, <3>3
  <2>. QED
    BY <1>5, <2>3, <2>4, <2>5, Untouched DEF Probe, Parts
<1>6. CASE ProbeDone
  <2>1. lock' \in [Jobs -> Holders]
    BY <1>1, <1>6, ReleaseIs DEF ProbeDone
  <2>2. ServeOK'
    BY <1>1, <1>6 DEF ProbeDone, ServeOK, BelowLimit, ServeRecords
  <2>. QED
    BY <1>6, <2>1, <2>2, Untouched DEF ProbeDone, files, Parts
<1>7. CASE Handle
  <2>1. /\ serve.path.job \in Jobs /\ serve.path.mode \in Modes
        /\ serve.path.id \in 0..MaxRequests
    BY <1>1, ServeIs DEF Paths
  <2>2. run' \in [Runs -> RunRecords]
    <3>1. CASE Spawn(serve.path.job, serve.path.mode, serve.path.id)
      BY <1>1, <2>1, <3>1, SpawnIs
    <3>2. CASE UNCHANGED run
      BY <1>1, <3>2
    <3>. QED
      BY <1>7, <3>1, <3>2 DEF Handle
  <2>3. ServeOK'
    <3>1. serve.started + 1 \in 0..MaxSpawns /\ serve \in ServeRecords
      BY <1>1, <1>7, JobConstants DEF Handle, ServeOK, BelowLimit, ServeRecords
    <3>2. \/ serve' = [serve EXCEPT !.pc = "remove", !.started = @ + 1]
          \/ serve' = [serve EXCEPT !.pc = "remove"]
      BY <1>7 DEF Handle
    <3>3. serve' \in ServeRecords /\ serve'.pc = "remove"
      BY <3>1, <3>2 DEF ServeRecords
    <3>. QED
      BY <3>3 DEF ServeOK, BelowLimit
  <2>. QED
    BY <1>7, <2>2, <2>3, Untouched DEF Handle, files, Parts
<1>8. CASE Remove
  <2>1. requests' \subseteq Paths /\ used' \in Counters
    BY <1>1, <1>8, RemovesIs DEF Remove
  <2>2. ServeOK'
    <3>1. Seen(serve.path.job) \subseteq Jobs /\ NoPath \in Paths
      BY <1>1, ServeIs, IdleIs DEF Idle, ServeRecords
    <3>. QED
      BY <1>1, <1>8, <3>1, ServeIs DEF Remove, ServeOK, BelowLimit, ServeRecords
  <2>. QED
    BY <1>8, <2>1, <2>2, Untouched DEF Remove, Parts
<1>9. CASE SpawnFails
  <2>1. requests' \subseteq Paths /\ used' \in Counters
    BY <1>1, <1>9, CountIs DEF SpawnFails, Without
  <2>2. ServeOK'
    <3>1. NoPath \in Paths
      BY IdleIs DEF Idle, ServeRecords
    <3>. QED
      BY <1>1, <1>9, <3>1, ServeIs DEF SpawnFails, ServeOK, BelowLimit, ServeRecords
  <2>. QED
    BY <1>9, <2>1, <2>2, Untouched DEF SpawnFails, Parts
<1>. QED
  BY <1>2, <1>3, <1>4, <1>5, <1>6, <1>7, <1>8, <1>9 DEF ServeStep

LEMMA StarterTypes ==
  ASSUME Parts,
         StartProbed \/ StartSpawn \/ StartFails \/ \E j \in Starters : StartJob(j)
  PROVE  Parts'
<1>1. /\ lock \in [Jobs -> Holders] /\ run \in [Runs -> RunRecords] /\ used \in Counters
      /\ StarterOK /\ Starter \in Holders /\ Starters \subseteq Jobs
  BY JobConstants DEF Parts, Holders
<1>2. CASE StartProbed
  <2>1. lock' \in [Jobs -> Holders] /\ StarterOK'
    BY <1>1, <1>2, ReleaseIs DEF StartProbed, StarterOK
  <2>. QED
    BY <1>2, <2>1, Untouched DEF StartProbed, files, Parts
<1>3. CASE StartSpawn
  <2>1. starter.job \in Jobs /\ "run" \in Modes /\ 0 \in 0..MaxRequests
    BY <1>1, JobConstants DEF StarterOK, Modes
  <2>2. run' \in [Runs -> RunRecords]
    BY <1>1, <1>3, <2>1, SpawnIs DEF StartSpawn
  <2>3. StarterOK'
    BY <1>3, IdleIs DEF StartSpawn, StarterOK
  <2>. QED
    BY <1>3, <2>2, <2>3, Untouched DEF StartSpawn, files, Parts
<1>4. CASE \E j \in Starters : StartJob(j)
  <2>1. PICK j \in Starters : StartJob(j)
    BY <1>4
  <2>2. StarterOK'
    BY <1>1, <2>1 DEF StartJob, StarterOK
  <2>3. lock' \in [Jobs -> Holders]
    BY <1>1, <2>1 DEF StartJob
  <2>4. used' \in Counters
    <3>1. used.starts + 1 \in 0..MaxStarts
      BY <1>1, <2>1, JobConstants DEF StartJob, Counters
    <3>2. CASE used' = [used EXCEPT !.starts = @ + 1]
      BY <1>1, <3>1, <3>2 DEF Counters
    <3>3. CASE TroublesLeft /\ used' = [used EXCEPT !.starts = @ + 1, !.faults = @ + 1]
      <4>1. used.faults + 1 \in 0..MaxTroubles
        BY <1>1, <3>3, JobConstants DEF TroublesLeft, Counters
      <4>. QED
        BY <1>1, <3>1, <3>3, <4>1 DEF Counters
    <3>. QED
      BY <2>1, <3>2, <3>3 DEF StartJob
  <2>. QED
    BY <2>1, <2>2, <2>3, <2>4, Untouched DEF StartJob, files, Parts
<1>5. CASE StartFails
  <2>1. used' \in Counters /\ StarterOK'
    BY <1>1, <1>5, CountIs, IdleIs DEF StartFails, StarterOK
  <2>. QED
    BY <1>5, <2>1, Untouched DEF StartFails, files, Parts
<1>. QED
  BY <1>2, <1>3, <1>4, <1>5

LEMMA EventTypes ==
  ASSUME Parts,
         \/ \E j \in Jobs : Cron(j)
         \/ \E j \in Jobs, mode \in Modes : Request(j, mode)
         \/ \E r \in Runs : OrphanEnds(r)
  PROVE  Parts'
<1>1. run \in [Runs -> RunRecords] /\ used \in Counters /\ requests \subseteq Paths
  BY DEF Parts
<1>2. CASE \E j \in Jobs : Cron(j)
  <2>1. PICK j \in Jobs : Cron(j)
    BY <1>2
  <2>2. run' \in [Runs -> RunRecords]
    BY <1>1, <2>1, SpawnIs, JobConstants DEF Cron, Modes
  <2>3. used' \in Counters
    BY <1>1, <2>1, CountIs DEF Cron
  <2>. QED
    BY <2>1, <2>2, <2>3, Untouched DEF Cron, files, Parts
<1>3. CASE \E j \in Jobs, mode \in Modes : Request(j, mode)
  <2>1. PICK j \in Jobs, mode \in Modes : Request(j, mode)
    BY <1>3
  <2>2. used' \in Counters /\ used'.requests \in 0..MaxRequests
    BY <1>1, <2>1, CountIs DEF Request
  <2>3. requests' \subseteq Paths
    BY <1>1, <2>1, <2>2 DEF Request, Paths
  <2>. QED
    BY <2>1, <2>2, <2>3, Untouched DEF Request, Parts
<1>4. CASE \E r \in Runs : OrphanEnds(r)
  <2>1. orphans' \subseteq Runs
    BY <1>4 DEF OrphanEnds, Parts
  <2>. QED
    BY <1>4, <2>1, Untouched DEF OrphanEnds, files, Parts
<1>. QED
  BY <1>2, <1>3, <1>4

LEMMA DeathTypes ==
  ASSUME Parts, KillServe \/ KillStarter \/ Reboot \/ \E r \in Runs : KillRun(r)
  PROVE  Parts'
<1>1. /\ lock \in [Jobs -> Holders] /\ run \in [Runs -> RunRecords]
      /\ orphans \subseteq Runs /\ used \in Counters
  BY DEF Parts
<1>2. used' \in Counters
  BY <1>1, CountIs DEF KillServe, KillStarter, Reboot, KillRun
<1>3. /\ serve' = Idle => ServeOK'
      /\ starter' = NoStart => StarterOK'
  BY IdleIs DEF ServeOK, BelowLimit, StarterOK
<1>4. CASE KillServe
  <2>1. lock' \in [Jobs -> Holders]
    BY <1>1, <1>4, ReleaseIs DEF KillServe
  <2>. QED
    BY <1>2, <1>3, <1>4, <2>1, Untouched DEF KillServe, files, Parts
<1>5. CASE KillStarter
  <2>1. lock' \in [Jobs -> Holders]
    BY <1>1, <1>5, ReleaseIs DEF KillStarter
  <2>. QED
    BY <1>2, <1>3, <1>5, <2>1, Untouched DEF KillStarter, files, Parts
<1>6. CASE Reboot
  <2>1. lock' \in [Jobs -> Holders] /\ orphans' \subseteq Runs /\ triggerable' \subseteq Jobs
    BY <1>6 DEF Reboot, Holders
  <2>2. run' \in [Runs -> RunRecords]
    BY <1>1, <1>6, DeadIs DEF Reboot
  <2>. QED
    BY <1>2, <1>3, <1>6, <2>1, <2>2, Untouched DEF Reboot, files, Parts
<1>7. CASE \E r \in Runs : KillRun(r)
  <2>1. PICK r \in Runs : KillRun(r)
    BY <1>7
  <2>2. lock' \in [Jobs -> Holders] /\ orphans' \subseteq Runs
    BY <1>1, <2>1, ReleaseIs DEF KillRun
  <2>3. run' \in [Runs -> RunRecords]
    BY <1>1, <2>1, DeadIs DEF KillRun
  <2>. QED
    BY <1>2, <2>1, <2>2, <2>3, Untouched DEF KillRun, files, Parts
<1>. QED
  BY <1>4, <1>5, <1>6, <1>7

LEMMA StepTypes == Parts /\ [Next]_vars => Parts'
<1>. SUFFICES ASSUME Parts, [Next]_vars PROVE Parts'
  OBVIOUS
<1>1. CASE Process
  <2>1. CASE \E r \in Runs : RunStep(r)
    BY <2>1, RunStepTypes
  <2>2. CASE ServeStep
    BY <2>2, ServeStepTypes
  <2>3. CASE StartProbed \/ StartSpawn \/ StartFails
    BY <2>3, StarterTypes
  <2>4. CASE \E r \in Runs : OrphanEnds(r)
    BY <2>4, EventTypes
  <2>. QED
    BY <1>1, <2>1, <2>2, <2>3, <2>4 DEF Process
<1>2. CASE Environment
  <2>1. CASE \E j \in Starters : StartJob(j)
    BY <2>1, StarterTypes
  <2>2. CASE \/ \E j \in Jobs : Cron(j)
             \/ \E j \in Jobs, mode \in Modes : Request(j, mode)
    BY <2>2, EventTypes
  <2>3. CASE KillServe \/ KillStarter \/ Reboot \/ \E r \in Runs : KillRun(r)
    BY <2>3, DeathTypes
  <2>. QED
    BY <1>2, <2>1, <2>2, <2>3 DEF Environment
<1>3. CASE UNCHANGED vars
  BY <1>3, Untouched DEF vars, files, Parts
<1>. QED
  BY <1>1, <1>2, <1>3 DEF Next

(* Whatever the number of jobs, runs and deaths, every variable keeps to   *)
(* the values jobrun.py gives it: no state file exceeds its cap, no tick   *)
(* its limit.                                                              *)
THEOREM JobTypes == Spec => []TypeOK
<1>1. Parts => TypeOK
  BY PartsAreTypes
<1>. QED
  BY <1>1, InitTypes, StepTypes, PTL DEF Spec

-----------------------------------------------------------------------------
(* Mutual exclusion *)

LEMMA InitHolding == Init => Holding
  BY DEF Init, Holding, NoRun

(* A lock taken was free, so that no run was holding it.                   *)
LEMMA TakesHolding ==
  ASSUME Parts, Holding, NEW j \in Jobs, NEW h, CanLock(j), lock' = [lock EXCEPT ![j] = h]
  PROVE  \A r \in Runs : run[r].locked => lock'[run[r].job] = r
<1>1. \A r \in Runs : run[r].job \in Jobs /\ r # Free
  BY RunIs DEF Parts, RunRecords
<1>2. \A r \in Runs : run[r].locked => run[r].job # j
  BY <1>1 DEF CanLock, Holding
<1>. QED
  BY <1>1, <1>2 DEF Holding, Parts

(* A holder that lets go of its locks takes none away from a run.          *)
LEMMA ReleaseHolding ==
  ASSUME Parts, Holding, NEW h, Release(h)
  PROVE  \A r \in Runs : run[r].locked /\ r # h => lock'[run[r].job] = r
<1>1. \A r \in Runs : run[r].job \in Jobs
  BY DEF Parts, RunRecords
<1>. QED
  BY <1>1 DEF Release, Holding

LEMMA RunStepHolding ==
  ASSUME Parts, Holding, NEW r \in Runs, RunStep(r)
  PROVE  Holding'
<1>1. /\ lock \in [Jobs -> Holders] /\ run \in [Runs -> RunRecords] /\ run[r].job \in Jobs
  BY DEF Parts, RunRecords
<1>2. /\ run' \in [Runs -> RunRecords]
      /\ \A s \in Runs \ {r} : run'[s] = run[s]
  BY <1>1, RunStepTypes DEF RunStep, Lock, Begin, CommandEnds, Final, Unlock, Moves, Parts
<1>3. CASE Lock(r)
  <2>1. CASE Takes(run[r].job, r) /\ run' = [run EXCEPT ![r].pc = "begin", ![r].locked = TRUE]
    <3>1. \A s \in Runs : run[s].locked => lock'[run[s].job] = s
      BY <1>1, <2>1, TakesHolding DEF Takes
    <3>2. run'[r].job = run[r].job /\ run'[r].pc = "begin" /\ lock'[run[r].job] = r
      BY <1>1, <2>1 DEF Takes, RunRecords
    <3>. QED
      BY <1>2, <3>1, <3>2 DEF Holding
  <2>2. CASE Held(run[r].job) /\ Moves(r, "skipped")
    BY <1>1, <1>2, <1>3, <2>2 DEF Held, Moves, Holding, Lock, RunRecords
  <2>3. CASE Unopened /\ Moves(r, "begin")
    BY <1>1, <1>2, <1>3, <2>3 DEF Unopened, Moves, Holding, RunRecords
  <2>. QED
    BY <1>3, <2>1, <2>2, <2>3 DEF Lock
<1>4. CASE Begin(r) \/ CommandEnds(r) \/ Final(r)
  <2>1. /\ run'[r].locked = run[r].locked /\ run'[r].job = run[r].job
        /\ run'[r].pc \in {"command", "final", "unlock"} /\ lock' = lock
    BY <1>1, <1>4 DEF Begin, CommandEnds, Final, Moves, RunRecords
  <2>. QED
    BY <1>2, <2>1 DEF Holding
<1>5. CASE Unlock(r)
  <2>1. ~run'[r].locked
    BY <1>1, <1>5 DEF Unlock, RunRecords
  <2>2. \A s \in Runs : run[s].locked /\ s # r => lock'[run[s].job] = s
    BY <1>5, ReleaseHolding DEF Unlock
  <2>. QED
    BY <1>2, <2>1, <2>2 DEF Holding
<1>. QED
  BY <1>3, <1>4, <1>5 DEF RunStep

(* A run comes into being without a lock.                                  *)
LEMMA SpawnHolding ==
  ASSUME Parts, Holding, NEW j \in Jobs, NEW mode \in Modes, NEW q \in 0..MaxRequests,
         Spawn(j, mode, q), UNCHANGED lock
  PROVE  Holding'
<1>1. \A r \in Runs : run'[r] = run[r] \/ ~run'[r].locked
  BY SpawnIs DEF Parts
<1>. QED
  BY <1>1 DEF Holding

(* serve and the forwarder take a lock only to probe it.                   *)
LEMMA DaemonHolding ==
  ASSUME Parts, Holding,
         \/ ServeStep \/ StartProbed \/ StartSpawn \/ StartFails
         \/ \E j \in Starters : StartJob(j)
  PROVE  Holding'
<1>1. \A h \in {Serve, Starter} : Release(h) /\ UNCHANGED run => Holding'
  <2>. SUFFICES ASSUME NEW h \in {Serve, Starter}, Release(h), UNCHANGED run PROVE Holding'
    OBVIOUS
  <2>1. \A r \in Runs : run[r].locked => lock'[run[r].job] = r
    BY ReleaseHolding, RunIs
  <2>. QED
    BY <2>1 DEF Holding
<1>2. \A j \in Jobs, h \in {Serve, Starter} :
        CanLock(j) /\ lock' = [lock EXCEPT ![j] = h] /\ UNCHANGED run => Holding'
  <2>. SUFFICES ASSUME NEW j \in Jobs, NEW h \in {Serve, Starter}, CanLock(j),
                       lock' = [lock EXCEPT ![j] = h], UNCHANGED run
                PROVE  Holding'
    OBVIOUS
  <2>1. \A r \in Runs : run[r].locked => lock'[run[r].job] = r
    BY TakesHolding
  <2>. QED
    BY <2>1 DEF Holding
<1>3. UNCHANGED <<lock, run>> => Holding'
  BY DEF Holding
<1>4. CASE Tick \/ TickDone \/ DropSurplus \/ Remove \/ SpawnFails \/ StartFails
  BY <1>3, <1>4 DEF Tick, TickDone, DropSurplus, Remove, SpawnFails, StartFails
<1>5. CASE Probe
  <2>1. PICK q \in serve.todo :
          Takes(q.job, Serve) \/ Held(q.job) \/ UNCHANGED lock
    BY <1>5 DEF Probe, Unopened
  <2>2. q.job \in Jobs /\ UNCHANGED run
    BY <1>5, ServeIs DEF Parts, Probe
  <2>. QED
    BY <1>2, <1>3, <2>1, <2>2 DEF Takes, Held
<1>6. CASE ProbeDone \/ StartProbed
  BY <1>1, <1>6 DEF ProbeDone, StartProbed
<1>7. CASE Handle
  <2>1. /\ serve.path.job \in Jobs /\ serve.path.mode \in Modes
        /\ serve.path.id \in 0..MaxRequests
    BY ServeIs DEF Parts, Paths
  <2>. QED
    BY <1>3, <1>7, <2>1, SpawnHolding DEF Handle
<1>8. CASE StartSpawn
  <2>1. starter.job \in Jobs /\ "run" \in Modes /\ 0 \in 0..MaxRequests
    BY JobConstants DEF Parts, StarterOK, Modes
  <2>. QED
    BY <1>8, <2>1, SpawnHolding DEF StartSpawn
<1>9. CASE \E j \in Starters : StartJob(j)
  BY <1>2, <1>3, <1>9, JobConstants DEF StartJob
<1>. QED
  BY <1>4, <1>5, <1>6, <1>7, <1>8, <1>9 DEF ServeStep

(* Death takes the lock from nobody but the dead.                          *)
LEMMA DeathHolding ==
  ASSUME Parts, Holding, KillServe \/ KillStarter \/ Reboot \/ \E r \in Runs : KillRun(r)
  PROVE  Holding'
<1>1. run \in [Runs -> RunRecords] /\ \A r \in Runs : ~Dead(r).locked
  BY DeadIs DEF Parts
<1>2. CASE KillServe
  <2>1. \A r \in Runs : run[r].locked => lock'[run[r].job] = r
    BY <1>2, ReleaseHolding, RunIs DEF KillServe
  <2>. QED
    BY <1>2, <2>1 DEF KillServe, Holding
<1>3. CASE KillStarter
  <2>1. \A r \in Runs : run[r].locked => lock'[run[r].job] = r
    BY <1>3, ReleaseHolding, RunIs DEF KillStarter
  <2>. QED
    BY <1>3, <2>1 DEF KillStarter, Holding
<1>4. CASE Reboot
  <2>1. \A r \in Runs : ~run'[r].locked
    BY <1>1, <1>4 DEF Reboot, Alive, Holding
  <2>. QED
    BY <2>1 DEF Holding
<1>5. CASE \E r \in Runs : KillRun(r)
  <2>1. PICK r \in Runs : KillRun(r)
    BY <1>5
  <2>2. ~run'[r].locked /\ \A s \in Runs \ {r} : run'[s] = run[s]
    BY <1>1, <2>1 DEF KillRun
  <2>3. \A s \in Runs : run[s].locked /\ s # r => lock'[run[s].job] = s
    BY <2>1, ReleaseHolding DEF KillRun
  <2>. QED
    BY <2>2, <2>3 DEF Holding
<1>. QED
  BY <1>2, <1>3, <1>4, <1>5

LEMMA StepHolding == Parts /\ Holding /\ [Next]_vars => Holding'
<1>. SUFFICES ASSUME Parts, Holding, [Next]_vars PROVE Holding'
  OBVIOUS
<1>1. CASE \E r \in Runs : RunStep(r)
  BY <1>1, RunStepHolding
<1>2. CASE \/ ServeStep \/ StartProbed \/ StartSpawn \/ StartFails
           \/ \E j \in Starters : StartJob(j)
  BY <1>2, DaemonHolding
<1>3. CASE KillServe \/ KillStarter \/ Reboot \/ \E r \in Runs : KillRun(r)
  BY <1>3, DeathHolding
<1>4. CASE \E j \in Jobs : Cron(j)
  BY <1>4, SpawnHolding, JobConstants DEF Cron, Modes
<1>5. CASE \/ \E j \in Jobs, mode \in Modes : Request(j, mode)
           \/ \E r \in Runs : OrphanEnds(r)
           \/ UNCHANGED vars
  BY <1>5 DEF Request, OrphanEnds, vars, Holding
<1>. QED
  BY <1>1, <1>2, <1>3, <1>4, <1>5 DEF Next, Environment, Process

(* Whatever the number of jobs, runs, requests and deaths: two commands of *)
(* a job overlap only when one has outlived its jobrun.py process or ran   *)
(* unlocked (job_lock).                                                    *)
THEOREM JobsExclude == Spec => []MutualExclusion
<1>1. Holding => MutualExclusion
  BY DEF Holding, MutualExclusion, Executing
<1>. QED
  BY <1>1, InitTypes, StepTypes, InitHolding, StepHolding, PTL DEF Spec

-----------------------------------------------------------------------------
(* Summaries and request files *)

(* What a run that has the lock relies on while nothing fails but          *)
(* processes: nobody else begins or ends a run of its job meanwhile.       *)
Locking ==
  \A r \in Runs : run[r].pc \in {"begin", "command", "final", "unlock"} => run[r].locked

Reading ==
  \A r \in Runs : run[r].pc \in {"command", "final"} =>
    /\ run[r].prev = state[run[r].job].history
    /\ state[run[r].job].running /\ state[run[r].job].run = r

Claimed(j) ==
  /\ state[j].run \in Runs /\ run[state[j].run].job = j
  /\ run[state[j].run].pc \in {"command", "final", "killed"}

Claims == \A j \in Jobs : state[j].running => Claimed(j)

(* A history is the beginning of the list of completed runs, and all of it *)
(* until the cap is reached.                                               *)
Lists(history, all) ==
  /\ Len(history) <= Len(all)
  /\ \A i \in 1..Len(history) : history[i] = all[i]
  /\ Len(history) < Len(all) => Len(history) = HistoryCap

Listing == \A j \in Jobs : Lists(state[j].history, finished[j])

Recorded == used.faults = 0 => Locking /\ Reading /\ Claims /\ Listing

LEMMA ListsMore ==
  ASSUME NEW r \in Runs, NEW history \in Seq(Runs), NEW all \in Seq(Runs),
         Lists(history, all), Len(history) <= HistoryCap,
         NEW longer, longer = <<r>> \o history,
         NEW n, n = IF Len(longer) < HistoryCap THEN Len(longer) ELSE HistoryCap
  PROVE  Lists(SubSeq(longer, 1, n), <<r>> \o all)
<1>. DEFINE entire == <<r>> \o all
            short == SubSeq(longer, 1, n)
<1>1. /\ Len(history) \in Nat /\ Len(all) \in Nat
      /\ HistoryCap \in Nat /\ HistoryCap >= 1
  BY LenProperties, JobConstants
<1>2. /\ longer \in Seq(Runs) /\ Len(longer) = Len(history) + 1
      /\ \A i \in 1..Len(longer) : longer[i] = IF i = 1 THEN r ELSE history[i - 1]
  <2>1. <<r>> \in Seq(Runs) /\ Len(<<r>>) = 1 /\ <<r>>[1] = r
    OBVIOUS
  <2>. QED
    BY <1>1, <2>1, ConcatProperties, Z3
<1>3. /\ entire \in Seq(Runs) /\ Len(entire) = Len(all) + 1
      /\ \A i \in 1..Len(entire) : entire[i] = IF i = 1 THEN r ELSE all[i - 1]
  <2>1. <<r>> \in Seq(Runs) /\ Len(<<r>>) = 1 /\ <<r>>[1] = r
    OBVIOUS
  <2>. QED
    BY <1>1, <2>1, ConcatProperties, Z3
<1>4. /\ n \in Nat /\ n >= 1 /\ n <= Len(history) + 1 /\ n <= HistoryCap
      /\ n = Len(history) + 1 \/ n = HistoryCap
  BY <1>1, <1>2
<1>5. Len(short) = n /\ \A i \in 1..n : short[i] = longer[i]
  BY <1>1, <1>2, <1>4, SubSeqProperties
<1>. HIDE DEF entire, short
<1>6. Len(short) <= Len(entire)
  BY <1>1, <1>3, <1>4, <1>5 DEF Lists
<1>7. ASSUME NEW i \in 1..Len(short) PROVE short[i] = entire[i]
  <2>1. i \in 1..Len(longer) /\ i \in 1..Len(entire) /\ short[i] = longer[i]
    BY <1>1, <1>2, <1>3, <1>4, <1>5, <1>6
  <2>2. CASE i = 1
    BY <1>2, <1>3, <2>1, <2>2
  <2>3. CASE i # 1
    <3>1. i - 1 \in 1..Len(history)
      BY <1>1, <1>2, <2>1, <2>3
    <3>2. history[i - 1] = all[i - 1]
      BY <3>1 DEF Lists
    <3>. QED
      BY <1>2, <1>3, <2>1, <2>3, <3>2
  <2>. QED
    BY <2>2, <2>3
<1>8. Len(short) < Len(entire) => Len(short) = HistoryCap
  BY <1>1, <1>3, <1>4, <1>5 DEF Lists
<1>. QED
  BY <1>6, <1>7, <1>8 DEF Lists, entire, short

(* No event is ever taken back.                                            *)
Grown(before, after) ==
  /\ after.faults = 0 => before.faults = 0
  /\ after.kills >= before.kills /\ after.requests >= before.requests
  /\ after.unremoved >= before.unremoved

LEMMA CountersGrow ==
  ASSUME Parts, [Next]_vars
  PROVE  Grown(used, used')
<1>1. used \in Counters
  BY DEF Parts
<1>2. UNCHANGED used => Grown(used, used')
  BY <1>1 DEF Counters, Grown
<1>3. \A what \in {"cron", "requests", "kills", "faults", "unremoved"} :
        Count(what) => Grown(used, used')
  <2>. SUFFICES ASSUME NEW what \in {"cron", "requests", "kills", "faults", "unremoved"},
                       Count(what)
                PROVE  Grown(used, used')
    OBVIOUS
  <2>1. /\ used.faults \in Nat /\ used.kills \in Nat /\ used.requests \in Nat
        /\ used.faults + 1 # 0 /\ used.unremoved \in Nat
    BY <1>1, JobConstants DEF Counters
  <2>2. CASE what = "cron"
    BY <1>1, <2>1, <2>2 DEF Count, Counters, Grown
  <2>3. CASE what = "requests"
    BY <1>1, <2>1, <2>3 DEF Count, Counters, Grown
  <2>4. CASE what = "kills"
    BY <1>1, <2>1, <2>4 DEF Count, Counters, Grown
  <2>5. CASE what = "faults"
    BY <1>1, <2>1, <2>5 DEF Count, Counters, Grown
  <2>6. CASE what = "unremoved"
    BY <1>1, <2>1, <2>6 DEF Count, Counters, Grown
  <2>. QED
    BY <2>2, <2>3, <2>4, <2>5, <2>6
<1>4. CASE \E j \in Starters : StartJob(j)
  <2>1. /\ used.faults \in Nat /\ used.kills \in Nat /\ used.requests \in Nat
        /\ used.faults + 1 # 0 /\ used.unremoved \in Nat
    BY <1>1, JobConstants DEF Counters
  <2>2. \/ used' = [used EXCEPT !.starts = @ + 1]
        \/ used' = [used EXCEPT !.starts = @ + 1, !.faults = @ + 1]
    BY <1>4 DEF StartJob
  <2>3. /\ used'.kills = used.kills /\ used'.requests = used.requests
        /\ used'.unremoved = used.unremoved
    BY <1>1, <2>2 DEF Counters
  <2>4. used'.faults = used.faults \/ used'.faults = used.faults + 1
    BY <1>1, <2>2 DEF Counters
  <2>. QED
    BY <2>1, <2>3, <2>4 DEF Grown
<1>5. CASE \E r \in Runs : RunStep(r)
  <2>1. PICK r \in Runs : RunStep(r)
    BY <1>5
  <2>. QED
    BY <1>2, <1>3, <2>1
    DEF RunStep, Lock, Begin, CommandEnds, Final, Unlock, Takes, Held, Unopened, Records
<1>6. CASE ServeStep
  <2>1. CASE Probe
    <3>1. UNCHANGED used \/ Count("faults") \/ Count("unremoved")
      BY <2>1 DEF Probe, Takes, Unopened, Removes
    <3>. QED
      BY <1>2, <1>3, <3>1
  <2>. QED
    BY <1>2, <1>3, <1>6, <2>1
    DEF ServeStep, Tick, TickDone, DropSurplus, ProbeDone, Handle, Remove, SpawnFails,
        Removes
<1>7. CASE StartProbed \/ StartSpawn \/ StartFails \/ \E r \in Runs : OrphanEnds(r)
  BY <1>2, <1>3, <1>7 DEF StartProbed, StartSpawn, StartFails, OrphanEnds
<1>8. CASE \/ \E j \in Jobs : Cron(j)
           \/ \E j \in Jobs, mode \in Modes : Request(j, mode)
           \/ \E r \in Runs : KillRun(r)
           \/ KillServe \/ KillStarter \/ Reboot
  BY <1>3, <1>8 DEF Cron, Request, KillRun, KillServe, KillStarter, Reboot
<1>9. CASE UNCHANGED vars
  BY <1>2, <1>9 DEF vars
<1>. QED
  BY <1>4, <1>5, <1>6, <1>7, <1>8, <1>9 DEF Next, Environment, Process

(* A run that comes into being did not exist before; nobody else's record  *)
(* changes.                                                                *)
LEMMA SpawnMoves ==
  ASSUME run \in [Runs -> RunRecords], NEW j, NEW mode, NEW q, Spawn(j, mode, q)
  PROVE  \A r \in Runs :
           \/ run'[r] = run[r]
           \/ run[r].pc = "none" /\ run'[r].pc = "lock" /\ run'[r].request = q
<1>1. NextRun \in Runs /\ run[NextRun].pc = "none"
  BY DEF Spawn, NextRun
<1>2. run' = [run EXCEPT ![NextRun] = [NoRun EXCEPT !.pc = "lock", !.job = j, !.mode = mode,
                                                    !.request = q]]
  BY DEF Spawn
<1>. QED
  BY <1>1, <1>2 DEF NoRun

(* Runs that do not begin, execute or end a command leave the records true.*)
Aside ==
  \A r \in Runs :
    \/ run'[r] = run[r]
    \/ run[r].pc \in {"none", "lock", "unlock"} /\ run'[r].pc \in {"lock", "skipped", "done"}
    \/ run'[r].pc = "killed" /\ run'[r].job = run[r].job

LEMMA AsideRecorded ==
  ASSUME Parts, Recorded, used'.faults = 0 => used.faults = 0, UNCHANGED <<state, finished>>,
         Aside
  PROVE  Recorded'
<1>. SUFFICES ASSUME used'.faults = 0 PROVE (Locking /\ Reading /\ Claims /\ Listing)'
  BY DEF Recorded
<1>1. Locking /\ Reading /\ Claims /\ Listing
  BY DEF Recorded
<1>2. Locking'
  BY <1>1 DEF Locking, Aside
<1>3. Reading'
  BY <1>1 DEF Reading, Aside
<1>4. Claims'
  BY <1>1 DEF Claims, Claimed, Aside
<1>5. Listing'
  BY <1>1 DEF Listing
<1>. QED
  BY <1>2, <1>3, <1>4, <1>5

LEMMA RunStepRecorded ==
  ASSUME Parts, Holding, Recorded, NEW r \in Runs, RunStep(r),
         used'.faults = 0 => used.faults = 0
  PROVE  Recorded'
<1>. SUFFICES ASSUME used'.faults = 0 PROVE Recorded'
  BY DEF Recorded
<1>. DEFINE j == run[r].job
<1>1. /\ run \in [Runs -> RunRecords] /\ state \in [Jobs -> StateFiles] /\ Capped
      /\ finished \in [Jobs -> Seq(Runs)] /\ used \in Counters /\ j \in Jobs
  BY DEF Parts, RunRecords
<1>2. Locking /\ Reading /\ Claims /\ Listing
  BY DEF Recorded
<1>3. ~Count("faults")
  BY <1>1, JobConstants DEF Count, Counters
<1>4. ASSUME run[r].pc \in {"begin", "command", "final"}, NEW s \in Runs,
             s # r, run[s].pc \in {"begin", "command", "final", "unlock"}
      PROVE  run[s].job # j
  BY <1>2, <1>4 DEF Locking, Holding
<1>5. CASE Lock(r)
  <2>1. CASE Held(j) /\ Moves(r, "skipped")
    <3>1. Aside
      BY <1>1, <1>5, <2>1 DEF Lock, Moves, Aside, RunRecords
    <3>. QED
      BY <1>5, <3>1, AsideRecorded DEF Lock, files
  <2>2. CASE run' = [run EXCEPT ![r].pc = "begin", ![r].locked = TRUE]
    <3>1. /\ run'[r].pc = "begin" /\ run'[r].locked /\ run[r].pc = "lock"
          /\ \A s \in Runs \ {r} : run'[s] = run[s]
      BY <1>1, <1>5, <2>2 DEF Lock, RunRecords
    <3>2. UNCHANGED <<state, finished>>
      BY <1>5 DEF Lock, files
    <3>3. Locking' /\ Reading' /\ Claims' /\ Listing'
      BY <1>2, <3>1, <3>2 DEF Locking, Reading, Claims, Claimed, Listing
    <3>. QED
      BY <3>3 DEF Recorded
  <2>. QED
    BY <1>3, <1>5, <2>1, <2>2 DEF Lock, Unopened
<1>6. CASE Begin(r)
  <2>1. /\ run'[r].pc = "command" /\ run'[r].job = j /\ run'[r].locked = run[r].locked
        /\ run'[r].prev = state[j].history /\ run[r].pc = "begin"
        /\ \A s \in Runs \ {r} : run'[s] = run[s]
    BY <1>1, <1>6 DEF Begin, RunRecords
  <2>2. state' = [state EXCEPT ![j] = Started(j, r)] /\ UNCHANGED finished
    BY <1>3, <1>6 DEF Begin, Records
  <2>3. /\ state'[j].running /\ state'[j].run = r /\ state'[j].history = state[j].history
        /\ \A i \in Jobs \ {j} : state'[i] = state[i]
    BY <1>1, <2>2 DEF Started, StateFiles
  <2>4. Locking'
    BY <1>2, <2>1 DEF Locking
  <2>5. Reading'
    <3>. SUFFICES ASSUME NEW s \in Runs, run'[s].pc \in {"command", "final"}
                  PROVE  /\ run'[s].prev = state'[run'[s].job].history
                         /\ state'[run'[s].job].running /\ state'[run'[s].job].run = s
      BY DEF Reading
    <3>1. CASE s = r
      BY <2>1, <2>3, <3>1
    <3>2. CASE s # r
      <4>1. run'[s] = run[s] /\ run[s].job # j /\ run[s].job \in Jobs
        BY <1>1, <1>4, <2>1, <3>2 DEF RunRecords
      <4>. QED
        BY <1>2, <2>3, <4>1 DEF Reading
    <3>. QED
      BY <3>1, <3>2
  <2>6. Claims'
    <3>. SUFFICES ASSUME NEW i \in Jobs, state'[i].running PROVE Claimed(i)'
      BY DEF Claims
    <3>1. CASE i = j
      BY <2>1, <2>3, <3>1 DEF Claimed
    <3>2. CASE i # j
      <4>1. state'[i] = state[i] /\ Claimed(i) /\ state[i].run # r
        BY <1>2, <2>3, <3>2 DEF Claims, Claimed
      <4>. QED
        BY <2>1, <4>1 DEF Claimed
    <3>. QED
      BY <3>1, <3>2
  <2>7. Listing'
    BY <1>2, <2>2, <2>3 DEF Listing
  <2>. QED
    BY <2>4, <2>5, <2>6, <2>7 DEF Recorded
<1>7. CASE CommandEnds(r)
  <2>1. /\ run'[r].pc = "final" /\ run'[r].job = j /\ run'[r].locked = run[r].locked
        /\ run'[r].prev = run[r].prev /\ run[r].pc = "command"
        /\ \A s \in Runs \ {r} : run'[s] = run[s]
    BY <1>1, <1>7 DEF CommandEnds, Moves, RunRecords
  <2>2. UNCHANGED <<state, finished>>
    BY <1>7 DEF CommandEnds, files
  <2>3. Locking'
    BY <1>2, <2>1 DEF Locking
  <2>4. Reading'
    BY <1>2, <2>1, <2>2 DEF Reading
  <2>5. Claims'
    BY <1>2, <2>1, <2>2 DEF Claims, Claimed
  <2>6. Listing'
    BY <1>2, <2>2 DEF Listing
  <2>. QED
    BY <2>3, <2>4, <2>5, <2>6 DEF Recorded
<1>8. CASE Final(r)
  <2>1. /\ run'[r].pc = "unlock" /\ run'[r].job = j /\ run'[r].locked = run[r].locked
        /\ run[r].pc = "final" /\ \A s \in Runs \ {r} : run'[s] = run[s]
    BY <1>1, <1>8 DEF Final, RunRecords
  <2>2. state' = [state EXCEPT ![j] = Ended(r)]
    BY <1>3, <1>8 DEF Final, Records
  <2>3. /\ ~state'[j].running /\ state'[j].history = Past(r)
        /\ \A i \in Jobs \ {j} : state'[i] = state[i]
    BY <1>1, <2>2 DEF Ended
  <2>4. finished'[j] = <<r>> \o finished[j] /\ \A i \in Jobs \ {j} : finished'[i] = finished[i]
    BY <1>1, <1>8 DEF Final
  <2>5. Locking'
    BY <1>2, <2>1 DEF Locking
  <2>6. Reading'
    <3>. SUFFICES ASSUME NEW s \in Runs, run'[s].pc \in {"command", "final"}
                  PROVE  /\ run'[s].prev = state'[run'[s].job].history
                         /\ state'[run'[s].job].running /\ state'[run'[s].job].run = s
      BY DEF Reading
    <3>1. s # r /\ run'[s] = run[s]
      BY <2>1
    <3>2. run[s].job # j /\ run[s].job \in Jobs
      BY <1>1, <1>4, <2>1, <3>1 DEF RunRecords
    <3>. QED
      BY <1>2, <2>3, <3>1, <3>2 DEF Reading
  <2>7. Claims'
    <3>. SUFFICES ASSUME NEW i \in Jobs, state'[i].running PROVE Claimed(i)'
      BY DEF Claims
    <3>1. i # j /\ state'[i] = state[i] /\ Claimed(i)
      BY <1>2, <2>3 DEF Claims
    <3>2. state[i].run # r
      BY <3>1 DEF Claimed
    <3>. QED
      BY <2>1, <3>1, <3>2 DEF Claimed
  <2>8. Listing'
    <3>1. /\ state[j].history \in Seq(Runs) /\ finished[j] \in Seq(Runs)
          /\ Len(state[j].history) <= HistoryCap
      BY <1>1 DEF StateFiles, Capped
    <3>2. run[r].prev = state[j].history /\ Lists(state[j].history, finished[j])
      BY <1>1, <1>2, <2>1 DEF Reading, Listing
    <3>3. Lists(Past(r), <<r>> \o finished[j])
      BY <3>1, <3>2, ListsMore DEF Past
    <3>. QED
      BY <1>2, <2>3, <2>4, <3>3 DEF Listing
  <2>. QED
    BY <2>5, <2>6, <2>7, <2>8 DEF Recorded
<1>9. CASE Unlock(r)
  <2>1. Aside
    BY <1>1, <1>9 DEF Unlock, Aside, RunRecords
  <2>. QED
    BY <1>9, <2>1, AsideRecorded DEF Unlock, files
<1>. QED
  BY <1>5, <1>6, <1>7, <1>8, <1>9 DEF RunStep

LEMMA InitRecorded == Init => Recorded
<1>. SUFFICES ASSUME Init PROVE Locking /\ Reading /\ Claims /\ Listing
  BY DEF Recorded
<1>1. Locking /\ Reading /\ Claims
  BY DEF Init, Locking, Reading, Claims, NoRun
<1>2. \A j \in Jobs : state[j].history = <<>> /\ finished[j] = <<>>
  BY DEF Init
<1>3. Lists(<<>>, <<>>)
  BY DEF Lists
<1>. QED
  BY <1>1, <1>2, <1>3 DEF Listing

LEMMA StepRecorded == Parts /\ Holding /\ Recorded /\ [Next]_vars => Recorded'
<1>. SUFFICES ASSUME Parts, Holding, Recorded, [Next]_vars PROVE Recorded'
  OBVIOUS
<1>1. used'.faults = 0 => used.faults = 0
  BY CountersGrow DEF Grown
<1>2. run \in [Runs -> RunRecords]
  BY DEF Parts
<1>3. UNCHANGED <<run, state, finished>> => Recorded'
  BY <1>1, AsideRecorded DEF Aside
<1>4. ASSUME NEW k, NEW mode, NEW q, Spawn(k, mode, q), UNCHANGED <<state, finished>>
      PROVE  Recorded'
  <2>1. Aside
    BY <1>2, <1>4, SpawnMoves DEF Aside
  <2>. QED
    BY <1>1, <1>4, <2>1, AsideRecorded
<1>5. CASE \E r \in Runs : RunStep(r)
  BY <1>1, <1>5, RunStepRecorded
<1>6. CASE \E r \in Runs : OrphanEnds(r)
  BY <1>3, <1>6 DEF OrphanEnds, files
<1>7. CASE ServeStep
  <2>1. CASE Handle
    <3>1. UNCHANGED <<state, finished>>
      BY <2>1 DEF Handle, files
    <3>. QED
      BY <1>3, <1>4, <2>1, <3>1 DEF Handle
  <2>. QED
    BY <1>3, <1>7, <2>1
    DEF ServeStep, Tick, TickDone, DropSurplus, Probe, ProbeDone, Remove, SpawnFails, files
<1>8. CASE StartProbed \/ StartFails \/ \E j \in Starters : StartJob(j)
  BY <1>3, <1>8 DEF StartProbed, StartFails, StartJob, files
<1>9. CASE StartSpawn
  BY <1>4, <1>9 DEF StartSpawn, files
<1>10. CASE \E j \in Jobs : Cron(j)
  BY <1>4, <1>10 DEF Cron, files
<1>11. CASE \E j \in Jobs, mode \in Modes : Request(j, mode)
  BY <1>3, <1>11 DEF Request
<1>12. CASE KillServe \/ KillStarter
  BY <1>3, <1>12 DEF KillServe, KillStarter, files
<1>13. CASE (\E r \in Runs : KillRun(r)) \/ Reboot
  <2>1. \A r \in Runs : Dead(r).pc = "killed" /\ Dead(r).job = run[r].job
    BY <1>2 DEF Dead, RunRecords
  <2>2. Aside
    BY <1>2, <1>13, <2>1 DEF KillRun, Reboot, Aside
  <2>. QED
    BY <1>1, <1>13, <2>2, AsideRecorded DEF KillRun, Reboot, files
<1>14. CASE UNCHANGED vars
  BY <1>3, <1>14 DEF vars, files
<1>. QED
  BY <1>5, <1>6, <1>7, <1>8, <1>9, <1>10, <1>11, <1>12, <1>13, <1>14
  DEF Next, Environment, Process

(* No lost summary (_record, run_job): while only processes die, a state   *)
(* file lists the newest completed runs, for every number of jobs, runs    *)
(* and deaths and every cap.                                               *)
THEOREM HistoriesAreComplete == Spec => []HistoryComplete
<1>1. Parts /\ Recorded => HistoryComplete
  <2>. SUFFICES ASSUME Parts, Recorded, used.faults = 0, NEW j \in Jobs
                PROVE  /\ \A i \in DOMAIN state[j].history :
                            state[j].history[i] = finished[j][i]
                       /\ Len(state[j].history) < Len(finished[j])
                            => Len(state[j].history) = HistoryCap
    BY DEF HistoryComplete
  <2>1. Lists(state[j].history, finished[j]) /\ state[j].history \in Seq(Runs)
    BY DEF Parts, StateFiles, Recorded, Listing
  <2>2. DOMAIN state[j].history = 1..Len(state[j].history)
    BY <2>1, LenProperties
  <2>. QED
    BY <2>1, <2>2 DEF Lists
<1>. QED
  BY <1>1, InitTypes, StepTypes, InitHolding, StepHolding, InitRecorded, StepRecorded, PTL
  DEF Spec

(* The Jobs page shows a job as running while its command is in progress,  *)
(* and after that only when its run was killed before it could say so      *)
(* (run_job).                                                              *)
THEOREM RunningIsHonest == Spec => []RunningHonest
<1>1. Parts /\ Recorded => RunningHonest
  <2>. SUFFICES ASSUME Parts, Recorded, used.faults = 0, NEW j \in Jobs
                PROVE  /\ (\E r \in Of(j) : run[r].pc \in {"command", "final"})
                            => state[j].running
                       /\ state[j].running
                            => run[state[j].run].pc \in {"command", "final", "killed"}
    BY DEF RunningHonest
  <2>1. Reading /\ Claims
    BY DEF Recorded
  <2>. QED
    BY <2>1 DEF Reading, Claims, Claimed, Of
<1>. QED
  BY <1>1, InitTypes, StepTypes, InitHolding, StepHolding, InitRecorded, StepRecorded, PTL
  DEF Spec

-----------------------------------------------------------------------------
(* Runs per request *)

Spawned(runs, q) == {r \in Runs : runs[r].request = q}

(* serve works on files that are there, and an id is used for one file.    *)
Filed ==
  /\ serve.todo \subseteq requests
  /\ serve.pc \in {"probed", "handle", "remove"} => serve.path \in requests
  /\ \A p \in requests : p.id >= 1 /\ p.id <= used.requests
  /\ \A p, o \in requests : p.id = o.id => p = o
  /\ \A r \in Runs : run[r].request <= used.requests

(* The file of a request is there, and serve has not just spawned for it.  *)
Open(q) == \E p \in requests : p.id = q /\ ~(serve.pc = "remove" /\ serve.path = p)

(* What may have repeated a request: a death, a removal that failed.       *)
Repeats(counted) == counted.kills + counted.unremoved

(* A request whose file is there has had a run only for each of them.      *)
Billed ==
  \A q \in 1..MaxRequests :
    Cardinality(Spawned(run, q)) <= Repeats(used) + (IF Open(q) THEN 0 ELSE 1)

LEMMA RepeatsAre ==
  ASSUME used \in Counters
  PROVE  /\ Repeats(used) \in Nat
         /\ Count("unremoved") =>
              Repeats(used') > Repeats(used) /\ used'.requests = used.requests
  BY JobConstants DEF Repeats, Counters, Count

LEMMA RepeatsGrow ==
  ASSUME used \in Counters, used' \in Counters, Grown(used, used')
  PROVE  /\ Repeats(used) \in Nat /\ Repeats(used') \in Nat
         /\ Repeats(used') >= Repeats(used)
         /\ used'.kills > used.kills => Repeats(used') > Repeats(used)
<1>1. /\ used.kills \in Nat /\ used'.kills \in Nat
      /\ used.unremoved \in Nat /\ used'.unremoved \in Nat
  BY JobConstants DEF Counters
<1>. QED
  BY <1>1 DEF Repeats, Grown

LEMMA SpawnedIs ==
  ASSUME NEW runs, NEW q
  PROVE  IsFiniteSet(Spawned(runs, q)) /\ Cardinality(Spawned(runs, q)) \in Nat
<1>1. IsFiniteSet(Runs)
  <2>1. 1 \in Int /\ MaxCron + MaxRequests + MaxStarts + MaxTroubles \in Int
    BY JobConstants
  <2>. QED
    BY <2>1, FS_Interval DEF Runs
<1>2. IsFiniteSet(Spawned(runs, q))
  BY <1>1, FS_Subset DEF Spawned
<1>. QED
  BY <1>2, FS_CardinalityType

LEMMA SpawnedLess ==
  ASSUME NEW before, NEW after, NEW q,
         \A r \in Runs : after[r].request = q => before[r].request = q
  PROVE  Cardinality(Spawned(after, q)) <= Cardinality(Spawned(before, q))
<1>1. Spawned(after, q) \subseteq Spawned(before, q)
  BY DEF Spawned
<1>. QED
  BY <1>1, SpawnedIs, FS_Subset

LEMMA SpawnedOne ==
  ASSUME NEW before, NEW after, NEW q, NEW s \in Runs,
         \A r \in Runs \ {s} : after[r].request = q => before[r].request = q
  PROVE  Cardinality(Spawned(after, q)) <= Cardinality(Spawned(before, q)) + 1
<1>. DEFINE old == Spawned(before, q)
            new == Spawned(after, q)
<1>1. new \subseteq old \cup {s}
  BY DEF Spawned
<1>2. /\ IsFiniteSet(old) /\ Cardinality(old) \in Nat
      /\ Cardinality(new) \in Nat
  BY SpawnedIs
<1>. HIDE DEF old, new
<1>3. /\ IsFiniteSet(old \cup {s})
      /\ Cardinality(old \cup {s}) = IF s \in old THEN Cardinality(old) ELSE Cardinality(old) + 1
  BY <1>2, FS_AddElement
<1>4. Cardinality(new) <= Cardinality(old \cup {s})
  BY <1>1, <1>3, FS_Subset
<1>5. Cardinality(new) <= Cardinality(old) + 1
  BY <1>2, <1>3, <1>4
<1>. QED
  BY <1>5 DEF old, new

(* Files only disappear, and the one just spawned for stays that until it  *)
(* does.                                                                   *)
LEMMA Closing ==
  ASSUME requests' \subseteq requests,
         serve.pc = "remove" => serve' = serve \/ serve.path \notin requests',
         NEW q, Open(q)'
  PROVE  Open(q)
  BY DEF Open

LEMMA NoneBilled ==
  ASSUME Parts, Parts', Billed, Grown(used, used'),
         \A r \in Runs : run'[r].request = run[r].request \/ run'[r].request = 0,
         Repeats(used') > Repeats(used) \/ \A q \in 1..MaxRequests : Open(q)' => Open(q)
  PROVE  Billed'
<1>. SUFFICES ASSUME NEW q \in 1..MaxRequests
              PROVE  Cardinality(Spawned(run', q))
                       <= Repeats(used') + (IF Open(q)' THEN 0 ELSE 1)
  BY DEF Billed
<1>1. /\ Repeats(used) \in Nat /\ Repeats(used') \in Nat
      /\ Repeats(used') >= Repeats(used)
  BY RepeatsGrow DEF Parts
<1>2. Cardinality(Spawned(run, q)) \in Nat /\ Cardinality(Spawned(run', q)) \in Nat
  BY SpawnedIs
<1>3. Cardinality(Spawned(run', q)) <= Cardinality(Spawned(run, q))
  <2>1. \A r \in Runs : run'[r].request = q => run[r].request = q
    OBVIOUS
  <2>. QED
    BY <2>1, SpawnedLess
<1>4. Cardinality(Spawned(run, q)) <= Repeats(used) + (IF Open(q) THEN 0 ELSE 1)
  BY DEF Billed
<1>5. CASE Repeats(used') > Repeats(used)
  BY <1>1, <1>2, <1>3, <1>4, <1>5
<1>6. CASE Open(q)' => Open(q)
  BY <1>1, <1>2, <1>3, <1>4, <1>6
<1>. QED
  BY <1>5, <1>6

(* A step that neither files nor handles a request.                        *)
LEMMA Elsewhere ==
  ASSUME Parts, Parts', Filed, Billed, Grown(used, used'), UNCHANGED requests,
         UNCHANGED serve \/ (used'.kills > used.kills /\ serve' = Idle),
         \A r \in Runs : run'[r].request = run[r].request \/ run'[r].request = 0
  PROVE  Filed' /\ Billed'
<1>1. used.requests \in Nat /\ used'.requests \in Nat /\ used'.requests >= used.requests
  BY JobConstants DEF Parts, Counters, Grown
<1>2. Filed'
  <2>1. serve'.todo \subseteq requests'
    BY DEF Filed, Idle
  <2>2. serve'.pc \in {"probed", "handle", "remove"} => serve'.path \in requests'
    BY DEF Filed, Idle
  <2>3. \A p \in requests' : p.id >= 1 /\ p.id <= used'.requests
    BY <1>1 DEF Filed, Parts, Paths
  <2>4. \A r \in Runs : run'[r].request <= used'.requests
    <3>1. \A r \in Runs : run[r].request \in Nat /\ run[r].request <= used.requests
      BY JobConstants DEF Filed, Parts, RunRecords
    <3>. QED
      BY <1>1, <3>1
  <2>5. \A p, o \in requests' : p.id = o.id => p = o
    BY DEF Filed
  <2>. QED
    BY <2>1, <2>2, <2>3, <2>4, <2>5 DEF Filed
<1>3. used'.kills > used.kills \/ \A q \in 1..MaxRequests : Open(q)' => Open(q)
  BY DEF Open
<1>. QED
  BY <1>2, <1>3, NoneBilled, RepeatsGrow DEF Parts

(* A step of serve that spawns nothing.                                    *)
LEMMA ServeElsewhere ==
  ASSUME Parts, Parts', Filed, Billed, Grown(used, used'), UNCHANGED run,
         requests' \subseteq requests, used'.requests = used.requests,
         \/ serve.pc = "remove" => serve.path \notin requests'
         \/ Repeats(used') > Repeats(used),
         serve'.todo \subseteq requests',
         serve'.pc \in {"probed", "handle", "remove"} => serve'.path \in requests'
  PROVE  Filed' /\ Billed'
<1>1. Filed'
  BY DEF Filed
<1>2. \/ \A q \in 1..MaxRequests : Open(q)' => Open(q)
      \/ Repeats(used') > Repeats(used)
  BY Closing
<1>. QED
  BY <1>1, <1>2, NoneBilled

LEMMA ServeStepBilled ==
  ASSUME Parts, Parts', Filed, Billed, ServeStep, Grown(used, used')
  PROVE  Filed' /\ Billed'
<1>1. /\ run \in [Runs -> RunRecords] /\ used \in Counters /\ serve \in ServeRecords
      /\ serve.todo \subseteq requests
      /\ serve.pc \in {"probed", "handle", "remove"} => serve.path \in requests
  BY DEF Parts, ServeOK, Filed
<1>2. /\ UNCHANGED used \/ Count("faults") => used'.requests = used.requests
      /\ Count("unremoved") =>
           Repeats(used') > Repeats(used) /\ used'.requests = used.requests
  BY <1>1, RepeatsAre DEF Count, Counters
<1>3. CASE Tick \/ TickDone
  <2>1. /\ UNCHANGED <<run, requests, used>> /\ serve.pc # "remove"
        /\ serve'.todo \subseteq requests /\ serve'.pc \in {"sleep", "next"}
    <3>1. CASE Tick
      BY <3>1 DEF Tick, Idle, files
    <3>2. CASE TickDone
      BY <3>2 DEF TickDone, Idle, files
    <3>. QED
      BY <1>3, <3>1, <3>2
  <2>. QED
    BY <2>1, ServeElsewhere
<1>4. CASE DropSurplus
  <2>1. PICK q \in serve.todo :
          /\ serve' = Next1(q)
          /\ \/ requests' = requests \ {q} /\ UNCHANGED used
             \/ UNCHANGED requests /\ Count("unremoved")
    BY <1>1, <1>4, RemovesIs DEF DropSurplus
  <2>2. serve'.todo = serve.todo \ {q} /\ serve'.pc = "next"
    BY <1>1, <2>1 DEF Next1, ServeRecords
  <2>3. /\ UNCHANGED run /\ serve.pc # "remove" /\ used'.requests = used.requests
        /\ serve'.todo \subseteq requests'
    BY <1>1, <1>2, <1>4, <2>1, <2>2 DEF DropSurplus
  <2>. QED
    BY <2>1, <2>2, <2>3, ServeElsewhere
<1>5. CASE Probe
  <2>1. PICK q \in serve.todo :
          \/ /\ serve' = [serve EXCEPT !.pc = "probed", !.path = q]
             /\ UNCHANGED requests
          \/ /\ serve' = [serve EXCEPT !.pc = "handle", !.path = q]
             /\ UNCHANGED requests
          \/ /\ requests' = requests \ {q} \/ UNCHANGED requests
             /\ serve' = [Next1(q) EXCEPT !.seen = Seen(q.job)]
    BY <1>5 DEF Probe, Removes, Without
  <2>2. UNCHANGED run /\ serve.pc # "remove" /\ used'.requests = used.requests
    <3>1. UNCHANGED used \/ Count("faults") \/ Count("unremoved")
      BY <1>5 DEF Probe, Takes, Unopened, Removes
    <3>. QED
      BY <1>2, <1>5, <3>1 DEF Probe
  <2>3. q \in requests
    BY <1>1
  <2>4. /\ requests' \subseteq requests /\ serve'.todo \subseteq requests'
        /\ serve'.pc \in {"probed", "handle", "remove"} => serve'.path \in requests'
    <3>1. CASE UNCHANGED requests /\ serve' = [serve EXCEPT !.pc = "probed", !.path = q]
      BY <1>1, <2>3, <3>1 DEF ServeRecords
    <3>2. CASE UNCHANGED requests /\ serve' = [serve EXCEPT !.pc = "handle", !.path = q]
      BY <1>1, <2>3, <3>2 DEF ServeRecords
    <3>3. CASE /\ requests' = requests \ {q} \/ UNCHANGED requests
               /\ serve' = [Next1(q) EXCEPT !.seen = Seen(q.job)]
      <4>1. serve'.todo = serve.todo \ {q} /\ serve'.pc = "next"
        BY <1>1, <3>3 DEF Next1, ServeRecords
      <4>. QED
        BY <1>1, <3>3, <4>1
    <3>. QED
      BY <2>1, <3>1, <3>2, <3>3
  <2>. QED
    BY <2>2, <2>4, ServeElsewhere
<1>6. CASE ProbeDone
  <2>1. /\ UNCHANGED <<run, requests, used>> /\ serve.pc = "probed"
        /\ serve'.todo = serve.todo /\ serve'.path = serve.path
    BY <1>1, <1>6 DEF ProbeDone, files, ServeRecords
  <2>. QED
    BY <1>1, <2>1, ServeElsewhere
<1>7. CASE Remove
  <2>1. /\ UNCHANGED run
        /\ serve'.todo = serve.todo \ {serve.path} /\ serve'.pc = "next"
    BY <1>1, <1>7 DEF Remove, Next1, ServeRecords
  <2>2. \/ requests' = requests \ {serve.path} /\ UNCHANGED used
        \/ UNCHANGED requests /\ Count("unremoved")
    BY <1>1, <1>7, RemovesIs DEF Remove
  <2>3. CASE requests' = requests \ {serve.path} /\ UNCHANGED used
    BY <1>1, <2>1, <2>3, ServeElsewhere
  <2>4. CASE UNCHANGED requests /\ Count("unremoved")
    BY <1>1, <1>2, <2>1, <2>4, ServeElsewhere
  <2>. QED
    BY <2>2, <2>3, <2>4
<1>8. CASE SpawnFails
  <2>1. /\ UNCHANGED run /\ Count("faults")
        /\ requests' = requests \/ requests' = requests \ {serve.path}
        /\ serve'.todo = serve.todo \ {serve.path} /\ serve'.pc = "next"
        /\ serve.pc = "handle"
    BY <1>1, <1>8 DEF SpawnFails, Without, Next1, ServeRecords
  <2>. QED
    BY <1>1, <1>2, <2>1, ServeElsewhere
<1>9. CASE Handle
  <2>1. /\ UNCHANGED <<requests, used>> /\ serve.pc = "handle" /\ serve.path \in requests
        /\ serve'.todo = serve.todo /\ serve'.path = serve.path /\ serve'.pc = "remove"
    BY <1>1, <1>9 DEF Handle, files, ServeRecords
  <2>2. CASE UNCHANGED run
    BY <1>1, <2>1, <2>2, ServeElsewhere
  <2>3. CASE Spawn(serve.path.job, serve.path.mode, serve.path.id)
    <3>. DEFINE id == serve.path.id
    <3>1. /\ NextRun \in Runs /\ run'[NextRun].request = id
          /\ \A r \in Runs \ {NextRun} : run'[r] = run[r]
      BY <1>1, <2>3 DEF Spawn, NextRun, NoRun
    <3>2. /\ Repeats(used) \in Nat
          /\ id \in 1..MaxRequests /\ id <= used.requests
      BY <1>1, <2>1, RepeatsAre, JobConstants DEF Filed, Parts, Paths, Counters
    <3>3. Filed'
      BY <1>1, <2>1, <3>1, <3>2 DEF Filed
    <3>4. ~Open(id)' /\ Open(id)
      BY <2>1 DEF Open, Filed
    <3>5. ASSUME NEW q \in 1..MaxRequests
          PROVE  Cardinality(Spawned(run', q))
                   <= Repeats(used') + (IF Open(q)' THEN 0 ELSE 1)
      <4>1. /\ Cardinality(Spawned(run, q)) \in Nat /\ Cardinality(Spawned(run', q)) \in Nat
            /\ Cardinality(Spawned(run, q)) <= Repeats(used) + (IF Open(q) THEN 0 ELSE 1)
        BY SpawnedIs DEF Billed
      <4>2. CASE q = id
        <5>1. Cardinality(Spawned(run', q)) <= Cardinality(Spawned(run, q)) + 1
          BY <3>1, SpawnedOne
        <5>. QED
          BY <2>1, <3>2, <3>4, <4>1, <4>2, <5>1
      <4>3. CASE q # id
        <5>1. Cardinality(Spawned(run', q)) <= Cardinality(Spawned(run, q))
          BY <3>1, <4>3, SpawnedLess
        <5>2. Open(q)' => Open(q)
          BY <2>1, Closing
        <5>. QED
          BY <2>1, <3>2, <4>1, <5>1, <5>2
      <4>. QED
        BY <4>2, <4>3
    <3>. QED
      BY <3>3, <3>5 DEF Billed
  <2>. QED
    BY <1>9, <2>2, <2>3 DEF Handle
<1>. QED
  BY <1>3, <1>4, <1>5, <1>6, <1>7, <1>8, <1>9 DEF ServeStep

(* A new request has an id of its own, and no run yet.                     *)
LEMMA RequestBilled ==
  ASSUME Parts, Parts', Filed, Billed, NEW j \in Jobs, NEW mode \in Modes, Request(j, mode)
  PROVE  Filed' /\ Billed'
<1>. DEFINE id == used'.requests
            path == [id |-> id, job |-> j, mode |-> mode]
<1>1. /\ used.requests \in Nat /\ Repeats(used) \in Nat
      /\ id = used.requests + 1 /\ Repeats(used') = Repeats(used)
  BY RepeatsAre, JobConstants DEF Parts, Counters, Request, Count, Repeats
<1>2. /\ UNCHANGED <<run, serve>> /\ requests' = requests \cup {path}
      /\ path.id = id
  BY DEF Request
<1>3. /\ requests \subseteq Paths /\ \A p \in requests : p.id \in Nat
      /\ \A r \in Runs : run[r].request \in Nat
  BY JobConstants DEF Parts, Paths, RunRecords
<1>. HIDE DEF path
<1>4. Filed'
  <2>1. \A p \in requests : p.id # id /\ p.id <= id
    BY <1>1, <1>3 DEF Filed
  <2>2. \A p \in requests' : p.id >= 1 /\ p.id <= used'.requests
    BY <1>1, <1>2, <2>1 DEF Filed
  <2>3. \A p, o \in requests' : p.id = o.id => p = o
    BY <1>2, <2>1 DEF Filed
  <2>4. \A r \in Runs : run'[r].request <= used'.requests
    BY <1>1, <1>2, <1>3 DEF Filed
  <2>. QED
    BY <1>2, <2>2, <2>3, <2>4 DEF Filed
<1>5. ASSUME NEW q \in 1..MaxRequests
      PROVE  Cardinality(Spawned(run', q)) <= Repeats(used') + (IF Open(q)' THEN 0 ELSE 1)
  <2>1. CASE q = id
    <3>1. \A r \in Runs : run[r].request # id
      BY <1>1, <1>3 DEF Filed
    <3>2. Spawned(run', q) = {}
      BY <1>2, <2>1, <3>1 DEF Spawned
    <3>. QED
      BY <1>1, <3>2, FS_EmptySet
  <2>2. CASE q # id
    <3>1. Open(q)' => Open(q)
      BY <1>2, <2>2 DEF Open
    <3>. QED
      BY <1>1, <1>2, <3>1, SpawnedIs DEF Billed
  <2>. QED
    BY <2>1, <2>2
<1>. QED
  BY <1>4, <1>5 DEF Billed

LEMMA InitBilled == Init => Filed /\ Billed
<1>. SUFFICES ASSUME Init PROVE Filed /\ Billed
  OBVIOUS
<1>1. Filed
  BY DEF Init, Filed, Idle, NoRun
<1>2. ASSUME NEW q \in 1..MaxRequests PROVE Cardinality(Spawned(run, q)) <= Repeats(used) + 1
  <2>1. Spawned(run, q) = {}
    BY DEF Init, Spawned, NoRun
  <2>2. Cardinality(Spawned(run, q)) = 0
    BY <2>1, FS_EmptySet
  <2>3. Repeats(used) = 0
    BY DEF Init, Repeats
  <2>. QED
    BY <2>2, <2>3
<1>3. \A q : ~Open(q)
  BY DEF Init, Open
<1>. QED
  BY <1>1, <1>2, <1>3 DEF Billed

LEMMA StepBilled == Parts /\ Filed /\ Billed /\ [Next]_vars => Filed' /\ Billed'
<1>. SUFFICES ASSUME Parts, Filed, Billed, [Next]_vars PROVE Filed' /\ Billed'
  OBVIOUS
<1>1. Parts' /\ Grown(used, used') /\ run \in [Runs -> RunRecords] /\ used \in Counters
  BY StepTypes, CountersGrow DEF Parts
<1>2. Count("kills") => used'.kills > used.kills
  BY <1>1 DEF Count, Counters
<1>3. UNCHANGED <<run, requests, serve>> => Filed' /\ Billed'
  BY <1>1, Elsewhere
<1>4. ASSUME NEW j, NEW mode, Spawn(j, mode, 0), UNCHANGED <<requests, serve>>
      PROVE  Filed' /\ Billed'
  <2>1. \A r \in Runs : run'[r].request = run[r].request \/ run'[r].request = 0
    BY <1>1, <1>4, SpawnMoves
  <2>. QED
    BY <1>1, <1>4, <2>1, Elsewhere
<1>5. CASE \E r \in Runs : RunStep(r)
  <2>1. PICK r \in Runs : RunStep(r)
    BY <1>5
  <2>2. UNCHANGED <<requests, serve>>
    BY <2>1 DEF RunStep, Lock, Begin, CommandEnds, Final, Unlock, files
  <2>3. run'[r].request = run[r].request /\ \A s \in Runs \ {r} : run'[s] = run[s]
    BY <1>1, <2>1 DEF RunStep, Lock, Begin, CommandEnds, Final, Unlock, Moves, RunRecords
  <2>. QED
    BY <1>1, <2>2, <2>3, Elsewhere
<1>6. CASE \E r \in Runs : OrphanEnds(r)
  BY <1>3, <1>6 DEF OrphanEnds, files
<1>7. CASE ServeStep
  BY <1>1, <1>7, ServeStepBilled
<1>8. CASE StartProbed \/ StartFails \/ \E j \in Starters : StartJob(j)
  BY <1>3, <1>8 DEF StartProbed, StartFails, StartJob, files
<1>9. CASE StartSpawn
  BY <1>4, <1>9 DEF StartSpawn, files
<1>10. CASE \E j \in Jobs : Cron(j)
  BY <1>4, <1>10 DEF Cron, files
<1>11. CASE \E j \in Jobs, mode \in Modes : Request(j, mode)
  BY <1>1, <1>11, RequestBilled
<1>12. CASE KillServe
  <2>1. UNCHANGED <<run, requests>> /\ serve' = Idle /\ used'.kills > used.kills
    BY <1>2, <1>12 DEF KillServe, files
  <2>. QED
    BY <1>1, <2>1, Elsewhere
<1>13. CASE KillStarter
  BY <1>3, <1>13 DEF KillStarter, files
<1>14. CASE (\E r \in Runs : KillRun(r)) \/ Reboot
  <2>1. \A r \in Runs : Dead(r).request = run[r].request
    BY <1>1 DEF Dead, RunRecords
  <2>2. \A r \in Runs : run'[r].request = run[r].request
    BY <1>1, <1>14, <2>1 DEF KillRun, Reboot
  <2>3. /\ UNCHANGED requests
        /\ UNCHANGED serve \/ (used'.kills > used.kills /\ serve' = Idle)
    BY <1>2, <1>14 DEF KillRun, Reboot, files
  <2>. QED
    BY <1>1, <2>2, <2>3, Elsewhere
<1>15. CASE UNCHANGED vars
  BY <1>3, <1>15 DEF vars, files
<1>. QED
  BY <1>5, <1>6, <1>7, <1>8, <1>9, <1>10, <1>11, <1>12, <1>13, <1>14, <1>15
  DEF Next, Environment, Process

(* One run per accepted request, and another one at most for each death    *)
(* before serve has removed the file (serve_tick, handle_request) and for  *)
(* each removal that failed, for any number of requests, deaths and files  *)
(* that cannot be removed.                                                 *)
THEOREM RequestsRunOnce == Spec => []OncePerRequest
<1>1. Parts /\ Billed => OncePerRequest
  <2>. SUFFICES ASSUME Parts, Billed, NEW q \in 1..MaxRequests
                PROVE  Cardinality({r \in Runs : run[r].request = q})
                         <= 1 + used.kills + used.unremoved
    BY DEF OncePerRequest
  <2>1. /\ Cardinality(Spawned(run, q)) <= Repeats(used) + (IF Open(q) THEN 0 ELSE 1)
        /\ Cardinality(Spawned(run, q)) \in Nat /\ Repeats(used) \in Nat
        /\ used.kills \in Nat /\ used.unremoved \in Nat
    BY SpawnedIs, RepeatsAre, JobConstants DEF Billed, Parts, Counters
  <2>2. Cardinality(Spawned(run, q)) <= 1 + used.kills + used.unremoved
    BY <2>1 DEF Repeats
  <2>. QED
    BY <2>2 DEF Spawned
<1>. QED
  BY <1>1, InitTypes, StepTypes, InitBilled, StepBilled, PTL DEF Spec

-----------------------------------------------------------------------------
(* The runs of jobs, as HistoryTrigger's steps take them                   *)

(* A lock is held by the run or the daemon that says so.                   *)
Owned ==
  \A j \in Jobs : lock[j] # Free =>
    \/ lock[j] \in Runs /\ run[lock[j]].locked /\ run[lock[j]].job = j
    \/ lock[j] = Serve /\ serve.pc = "probed"
    \/ lock[j] = Starter /\ starter.pc = "probed"

(* The two steps of this module that JobRun does not know: a command that  *)
(* meets an error, and a forwarder that dies outside start_job.            *)
Mishap ==
  /\ TroublesLeft /\ Count("faults")
  /\ UNCHANGED <<lock, files, run, orphans, triggerable, serve, starter, finished>>

Death ==
  /\ TroublesLeft /\ Count("kills")
  /\ Release(Starter) /\ starter' = NoStart
  /\ UNCHANGED <<files, run, orphans, triggerable, serve, finished>>

Below == [Next]_vars \/ Mishap \/ Death

Base == Parts /\ Holding /\ Recorded /\ Owned

LEMMA StepIsBelow == [HNext]_hvars => Below
<1>. SUFFICES ASSUME [HNext]_hvars PROVE Below
  OBVIOUS
<1>1. Job \in Jobs /\ Job \in Starters
  BY HistoryConstants, JobConstants
<1>2. CASE Change \/ Poll \/ TriggerBusy \/ UNCHANGED hvars
  BY <1>2 DEF Change, Poll, TriggerBusy, hvars, Below
<1>3. CASE TriggerStart \/ TriggerProbed \/ TriggerStarted \/ TriggerFails
  BY <1>1, <1>3
  DEF TriggerStart, TriggerProbed, TriggerStarted, TriggerFails, Next, Environment, Process,
      Below
<1>4. CASE ForwarderDies
  BY <1>4 DEF ForwarderDies, Death, Below
<1>5. CASE HServe \/ HReboot
  BY <1>5 DEF HServe, HReboot, Next, Environment, Process, Below
<1>6. CASE Others
  BY <1>1, <1>6 DEF Others, Next, Environment, Below
<1>7. CASE \E r \in Runs : HRun(r)
  <2>1. PICK r \in Runs : HRun(r)
    BY <1>7
  <2>2. CASE HBegin(r)
    BY <2>2 DEF HBegin, RunStep, Next, Process, Below
  <2>3. CASE Fetch(r)
    BY <2>3 DEF Fetch, Mishap, Below, vars, files
  <2>4. CASE Write(r)
    BY <2>4 DEF Write, Below
  <2>5. CASE Lock(r) \/ Final(r) \/ Unlock(r) \/ CommandEnds(r) \/ OrphanEnds(r)
    BY <2>5 DEF RunStep, Next, Process, Below
  <2>. QED
    BY <2>1, <2>2, <2>3, <2>4, <2>5 DEF HRun
<1>8. CASE \E r \in Runs : Fails(r)
  BY <1>8 DEF Fails, Mishap, Below
<1>. QED
  BY <1>2, <1>3, <1>4, <1>5, <1>6, <1>7, <1>8 DEF HNext, Forwarder

LEMMA InitBase == Init => Base
<1>1. Init => Owned
  BY DEF Init, Owned
<1>. QED
  BY <1>1, InitTypes, InitHolding, InitRecorded DEF Base

(* Who holds a lock after a step that takes one, and after one that lets   *)
(* go of one.                                                              *)
LEMMA TakesOwned ==
  ASSUME Parts, Owned, NEW j \in Jobs, NEW h, lock' = [lock EXCEPT ![j] = h],
         \/ h \in Runs /\ run'[h].locked /\ run'[h].job = j
         \/ h = Serve /\ serve'.pc = "probed"
         \/ h = Starter /\ starter'.pc = "probed",
         \A r \in Runs : run[r].locked => run'[r].locked /\ run'[r].job = run[r].job,
         serve.pc = "probed" => serve'.pc = "probed",
         starter.pc = "probed" => starter'.pc = "probed"
  PROVE  Owned'
<1>1. lock'[j] = h /\ \A i \in Jobs \ {j} : lock'[i] = lock[i]
  BY DEF Parts
<1>. QED
  BY <1>1 DEF Owned

LEMMA KeepsOwned ==
  ASSUME Owned, UNCHANGED lock,
         \A r \in Runs : run[r].locked => run'[r].locked /\ run'[r].job = run[r].job,
         serve.pc = "probed" => serve'.pc = "probed",
         starter.pc = "probed" => starter'.pc = "probed"
  PROVE  Owned'
  BY DEF Owned

LEMMA ReleaseOwned ==
  ASSUME Parts, Owned, NEW h, Release(h),
         \A r \in Runs : r # h /\ run[r].locked => run'[r].locked /\ run'[r].job = run[r].job,
         h # Serve => (serve.pc = "probed" => serve'.pc = "probed"),
         h # Starter => (starter.pc = "probed" => starter'.pc = "probed")
  PROVE  Owned'
<1>1. \A j \in Jobs : lock'[j] # Free => lock'[j] = lock[j] /\ lock[j] # h
  BY DEF Release
<1>. QED
  BY <1>1 DEF Owned

LEMMA RunStepOwned ==
  ASSUME Parts, Holding, Owned, NEW r \in Runs, RunStep(r)
  PROVE  Owned'
<1>1. /\ run \in [Runs -> RunRecords] /\ run[r].job \in Jobs
      /\ \A s \in Runs \ {r} : run'[s] = run[s]
      /\ run'[r].job = run[r].job
  BY DEF Parts, RunRecords, RunStep, Lock, Begin, CommandEnds, Final, Unlock, Moves
<1>2. UNCHANGED <<serve, starter>>
  BY DEF RunStep, Lock, Begin, CommandEnds, Final, Unlock
<1>3. CASE Lock(r)
  <2>1. ~run[r].locked
    BY <1>3 DEF Lock, Holding
  <2>2. CASE Takes(run[r].job, r) /\ run' = [run EXCEPT ![r].pc = "begin", ![r].locked = TRUE]
    <3>1. run'[r].locked
      BY <1>1, <2>2 DEF RunRecords
    <3>. QED
      BY <1>1, <1>2, <2>1, <2>2, <3>1, TakesOwned DEF Takes
  <2>3. CASE UNCHANGED lock
    BY <1>1, <1>2, <2>1, <2>3, KeepsOwned
  <2>. QED
    BY <1>3, <2>2, <2>3 DEF Lock, Held, Unopened
<1>4. CASE Begin(r) \/ CommandEnds(r) \/ Final(r)
  <2>1. run'[r].locked = run[r].locked /\ UNCHANGED lock
    BY <1>1, <1>4 DEF Begin, CommandEnds, Final, Moves, RunRecords
  <2>. QED
    BY <1>1, <1>2, <2>1, KeepsOwned
<1>5. CASE Unlock(r)
  BY <1>1, <1>2, <1>5, ReleaseOwned DEF Unlock
<1>. QED
  BY <1>3, <1>4, <1>5 DEF RunStep

LEMMA SpawnOwned ==
  ASSUME Parts, Holding, Owned, NEW j, NEW mode, NEW q, Spawn(j, mode, q), UNCHANGED lock,
         serve.pc = "probed" => serve'.pc = "probed",
         starter.pc = "probed" => starter'.pc = "probed"
  PROVE  Owned'
<1>1. \A r \in Runs : run[r].locked => run'[r] = run[r]
  BY SpawnMoves DEF Parts, Holding
<1>. QED
  BY <1>1, KeepsOwned

LEMMA DaemonOwned ==
  ASSUME Parts, Holding, Owned,
         \/ ServeStep \/ StartProbed \/ StartSpawn \/ StartFails
         \/ \E j \in Starters : StartJob(j)
  PROVE  Owned'
<1>1. CASE Tick \/ TickDone \/ DropSurplus \/ Remove \/ SpawnFails \/ StartFails
  <2>1. /\ UNCHANGED <<lock, run>>
        /\ serve.pc = "probed" => serve'.pc = "probed"
        /\ starter.pc = "probed" => starter'.pc = "probed"
    BY <1>1 DEF Tick, TickDone, DropSurplus, Remove, SpawnFails, StartFails
  <2>. QED
    BY <2>1, KeepsOwned
<1>2. CASE Probe
  <2>1. UNCHANGED <<run, starter>> /\ serve.pc = "next"
    BY <1>2 DEF Probe
  <2>2. PICK q \in serve.todo :
          \/ Takes(q.job, Serve) /\ serve' = [serve EXCEPT !.pc = "probed", !.path = q]
          \/ UNCHANGED lock
    BY <1>2 DEF Probe, Unopened, Held
  <2>3. q.job \in Jobs /\ serve \in ServeRecords
    BY ServeIs DEF Parts, ServeOK
  <2>4. CASE Takes(q.job, Serve) /\ serve' = [serve EXCEPT !.pc = "probed", !.path = q]
    <3>1. serve'.pc = "probed"
      BY <2>3, <2>4 DEF ServeRecords
    <3>. QED
      BY <2>1, <2>3, <2>4, <3>1, TakesOwned DEF Takes
  <2>5. CASE UNCHANGED lock
    BY <2>1, <2>5, KeepsOwned
  <2>. QED
    BY <2>2, <2>4, <2>5
<1>3. CASE ProbeDone
  BY <1>3, ReleaseOwned DEF ProbeDone
<1>4. CASE StartProbed
  BY <1>4, ReleaseOwned DEF StartProbed
<1>5. CASE Handle
  <2>1. UNCHANGED <<lock, starter>> /\ serve.pc = "handle"
    BY <1>5 DEF Handle
  <2>2. CASE UNCHANGED run
    BY <2>1, <2>2, KeepsOwned
  <2>. QED
    BY <1>5, <2>1, <2>2, SpawnOwned DEF Handle
<1>6. CASE StartSpawn
  BY <1>6, SpawnOwned DEF StartSpawn
<1>7. CASE \E j \in Starters : StartJob(j)
  <2>1. PICK j \in Starters : StartJob(j)
    BY <1>7
  <2>2. UNCHANGED <<run, serve>> /\ starter.pc = "idle" /\ j \in Jobs
    BY <2>1, JobConstants DEF StartJob
  <2>3. CASE lock' = [lock EXCEPT ![j] = Starter] /\ starter' = [pc |-> "probed", job |-> j]
    BY <2>2, <2>3, TakesOwned
  <2>4. CASE UNCHANGED lock
    BY <2>2, <2>4, KeepsOwned
  <2>. QED
    BY <2>1, <2>3, <2>4 DEF StartJob
<1>. QED
  BY <1>1, <1>2, <1>3, <1>4, <1>5, <1>6, <1>7 DEF ServeStep

LEMMA DeathOwned ==
  ASSUME Parts, Holding, Owned,
         KillServe \/ KillStarter \/ Reboot \/ Death \/ \E r \in Runs : KillRun(r)
  PROVE  Owned'
<1>1. CASE KillServe
  BY <1>1, ReleaseOwned DEF KillServe
<1>2. CASE KillStarter \/ Death
  BY <1>2, ReleaseOwned DEF KillStarter, Death
<1>3. CASE Reboot
  BY <1>3 DEF Reboot, Owned
<1>4. CASE \E r \in Runs : KillRun(r)
  <2>1. PICK r \in Runs : KillRun(r)
    BY <1>4
  <2>2. \A s \in Runs : s # r => run'[s] = run[s]
    BY <2>1 DEF KillRun, Parts
  <2>. QED
    BY <2>1, <2>2, ReleaseOwned DEF KillRun
<1>. QED
  BY <1>1, <1>2, <1>3, <1>4

LEMMA StepOwned == Parts /\ Holding /\ Owned /\ ([Next]_vars \/ Mishap \/ Death) => Owned'
<1>. SUFFICES ASSUME Parts, Holding, Owned, [Next]_vars \/ Mishap \/ Death PROVE Owned'
  OBVIOUS
<1>1. UNCHANGED <<lock, run, serve, starter>> => Owned'
  BY KeepsOwned
<1>2. CASE \E r \in Runs : RunStep(r)
  BY <1>2, RunStepOwned
<1>3. CASE \/ ServeStep \/ StartProbed \/ StartSpawn \/ StartFails
           \/ \E j \in Starters : StartJob(j)
  BY <1>3, DaemonOwned
<1>4. CASE KillServe \/ KillStarter \/ Reboot \/ Death \/ \E r \in Runs : KillRun(r)
  BY <1>4, DeathOwned
<1>5. CASE \E j \in Jobs : Cron(j)
  BY <1>5, SpawnOwned DEF Cron
<1>6. CASE \/ \E j \in Jobs, mode \in Modes : Request(j, mode)
           \/ \E r \in Runs : OrphanEnds(r)
           \/ UNCHANGED vars \/ Mishap
  BY <1>1, <1>6 DEF Request, OrphanEnds, vars, Mishap
<1>. QED
  BY <1>2, <1>3, <1>4, <1>5, <1>6 DEF Next, Environment, Process

(* What holds of the runs of jobs holds of them here, step by step; no     *)
(* trouble is ever forgotten.                                              *)
LEMMA StepBase == Base /\ Below => Base' /\ Grown(used, used')
<1>. SUFFICES ASSUME Base, Below PROVE Base' /\ Grown(used, used')
  OBVIOUS
<1>1. Parts /\ Holding /\ Recorded /\ Owned /\ used \in Counters
  BY DEF Base, Parts
<1>2. Owned'
  BY <1>1, StepOwned DEF Below
<1>3. CASE [Next]_vars
  BY <1>1, <1>2, <1>3, StepTypes, StepHolding, StepRecorded, CountersGrow DEF Base
<1>4. CASE Mishap \/ Death
  <2>1. Grown(used, used') /\ used' \in Counters
    <3>1. Count("faults") \/ Count("kills")
      BY <1>4 DEF Mishap, Death
    <3>2. /\ used.faults \in Nat /\ used.kills \in Nat /\ used.requests \in Nat
          /\ used.unremoved \in Nat
          /\ used'.requests = used.requests /\ used'.unremoved = used.unremoved
          /\ used'.faults = used.faults \/ used'.faults = used.faults + 1
          /\ used'.kills = used.kills \/ used'.kills = used.kills + 1
      BY <1>1, <3>1, JobConstants DEF Count, Counters
    <3>3. used' \in Counters
      BY <1>1, <1>4, CountIs DEF Mishap, Death
    <3>. QED
      BY <3>2, <3>3 DEF Grown
  <2>2. UNCHANGED <<run, state, finished, orphans, requests, triggerable, serve>>
    BY <1>4 DEF Mishap, Death, files
  <2>3. Parts'
    <3>1. lock' \in [Jobs -> Holders]
      BY <1>1, <1>4, ReleaseIs DEF Mishap, Death, Parts
    <3>2. StarterOK'
      BY <1>1, <1>4, IdleIs, Untouched DEF Mishap, Death, StarterOK
    <3>. QED
      BY <1>1, <2>1, <2>2, <3>1, <3>2, Untouched DEF Parts
  <2>4. Holding'
    <3>1. CASE Mishap
      BY <1>1, <3>1 DEF Mishap, Holding
    <3>2. CASE Death
      <4>1. \A r \in Runs : run[r].locked => lock'[run[r].job] = r
        BY <1>1, <3>2, ReleaseHolding, RunIs DEF Death
      <4>. QED
        BY <1>1, <2>2, <4>1 DEF Holding
    <3>. QED
      BY <1>4, <3>1, <3>2
  <2>5. Recorded'
    BY <1>1, <2>1, <2>2, AsideRecorded DEF Grown, Aside
  <2>. QED
    BY <1>2, <2>1, <2>3, <2>4, <2>5 DEF Base
<1>. QED
  BY <1>3, <1>4 DEF Below

-----------------------------------------------------------------------------
(* Types *)

Values == {0, 1, Missing}

Data == Seq(Values)

Stamped == [stamp : Nat, data : Data]

FetchesOK ==
  /\ begun \in [Runs -> Nat] /\ taken \in [Runs -> Nat] /\ draft \in [Runs -> Data]
  /\ script \in [Runs -> {"fetch", "write", "end"}]

(* An endpoint is left for a run that is fetching; nothing is older than   *)
(* it says.                                                                *)
Left == \A r \in Runs : script[r] = "fetch" => Len(draft[r]) < Endpoints

Dated == \A r \in Runs : begun[r] <= top /\ taken[r] <= top

HTypes ==
  /\ config \in [1..Endpoints -> {0, 1}] /\ top \in Nat /\ last_id \in Nat /\ last_id <= top
  /\ FetchesOK /\ Left /\ Dated /\ snapshots \in Seq(Stamped)

(* The snapshots that stay are the newest ones, two of them at least.      *)
LEMMA PrunedIs ==
  ASSUME NEW S, NEW all \in Seq(S), NEW rest \in Pruned(all)
  PROVE  /\ rest \in Seq(S) /\ Len(rest) <= Len(all)
         /\ \A i \in 1..Len(rest) : rest[i] = all[i + (Len(all) - Len(rest))]
         /\ all # <<>> => rest # <<>> /\ rest[Len(rest)] = all[Len(all)]
<1>1. Len(all) \in Nat
  BY LenProperties
<1>2. CASE rest = all
  <2>1. all # <<>> => Len(all) # 0
    BY EmptySeq
  <2>. QED
    BY <1>1, <1>2, <2>1
<1>3. CASE \E n \in 0..(Len(all) - KEEP_MIN) : rest = SubSeq(all, n + 1, Len(all))
  <2>1. PICK n \in 0..(Len(all) - KEEP_MIN) : rest = SubSeq(all, n + 1, Len(all))
    BY <1>3
  <2>2. n \in Nat /\ n + 2 <= Len(all)
    BY <1>1, <2>1 DEF KEEP_MIN
  <2>3. /\ rest \in Seq(S) /\ Len(rest) = Len(all) - n
        /\ \A i \in 1..(Len(all) - n) : rest[i] = all[n + i]
    <3>1. n + 1 \in 1..(Len(all) + 1) /\ Len(all) \in n..Len(all)
      BY <1>1, <2>2
    <3>. QED
      BY <1>1, <2>1, <2>2, <3>1, SubSeqProperties
  <2>4. rest # <<>>
    BY <1>1, <2>2, <2>3, EmptySeq
  <2>. QED
    BY <1>1, <2>2, <2>3, <2>4
<1>. QED
  BY <1>2, <1>3 DEF Pruned

(* What is written: a snapshot after those that are there.                 *)
LEMMA AppendedIs ==
  ASSUME NEW S, NEW seq \in Seq(S), NEW e \in S
  PROVE  /\ Append(seq, e) \in Seq(S) /\ Len(Append(seq, e)) = Len(seq) + 1
         /\ \A i \in 1..Len(seq) : Append(seq, e)[i] = seq[i]
         /\ Append(seq, e)[Len(seq) + 1] = e /\ Append(seq, e) # <<>>
<1>1. Len(seq) \in Nat
  BY LenProperties
<1>2. /\ Append(seq, e) \in Seq(S) /\ Len(Append(seq, e)) = Len(seq) + 1
      /\ \A i \in 1..Len(seq) : Append(seq, e)[i] = seq[i]
      /\ Append(seq, e)[Len(seq) + 1] = e
  BY AppendProperties
<1>3. Append(seq, e) # <<>>
  BY <1>1, <1>2, EmptySeq
<1>. QED
  BY <1>2, <1>3

(* What a step of the fetch may do to the draft of its run.                *)
LEMMA FetchIs ==
  ASSUME HTypes, NEW r \in Runs, Fetch(r)
  PROVE  \E v \in Values :
           /\ v = config[Len(draft[r]) + 1] \/ (v = Missing /\ Count("faults"))
           /\ Len(draft[r]) + 1 \in 1..Endpoints
           /\ draft' = [draft EXCEPT ![r] = Append(draft[r], v)]
           /\ draft'[r] = Append(draft[r], v)
<1>1. draft[r] \in Data /\ Len(draft[r]) < Endpoints /\ Len(draft[r]) \in Nat
  BY LenProperties DEF HTypes, FetchesOK, Left, Fetch, Data
<1>2. Len(draft[r]) + 1 \in 1..Endpoints
  BY <1>1, HistoryConstants
<1>3. config[Len(draft[r]) + 1] \in Values /\ Missing \in Values
  BY <1>2 DEF HTypes, Values
<1>4. draft \in [Runs -> Data]
  BY DEF HTypes, FetchesOK
<1>. QED
  BY <1>2, <1>3, <1>4 DEF Fetch

LEMMA FetchTypes ==
  ASSUME HTypes, NEW r \in Runs, Fetch(r)
  PROVE  HTypes'
<1>1. /\ draft \in [Runs -> Data] /\ begun \in [Runs -> Nat] /\ taken \in [Runs -> Nat]
      /\ script \in [Runs -> {"fetch", "write", "end"}] /\ top \in Nat
  BY DEF HTypes, FetchesOK
<1>2. PICK v \in Values : draft' = [draft EXCEPT ![r] = Append(draft[r], v)]
  BY FetchIs
<1>3. Append(draft[r], v) \in Data /\ draft[r] \in Data
  BY <1>1, AppendedIs DEF Data
<1>4. UNCHANGED <<config, top, last_id, begun, snapshots>>
  BY DEF Fetch, trigger
<1>5. taken' \in [Runs -> Nat] /\ \A s \in Runs : taken'[s] = taken[s] \/ taken'[s] = top
  BY <1>1 DEF Fetch
<1>6. script' \in [Runs -> {"fetch", "write", "end"}]
  BY <1>1 DEF Fetch
<1>7. Left'
  <2>. SUFFICES ASSUME NEW s \in Runs, script'[s] = "fetch" PROVE Len(draft'[s]) < Endpoints
    BY DEF Left
  <2>1. CASE s = r
    BY <1>1, <2>1 DEF Fetch
  <2>2. CASE s # r
    <3>1. script'[s] = script[s] /\ draft'[s] = draft[s]
      BY <1>1, <1>2, <2>2 DEF Fetch
    <3>. QED
      BY <3>1 DEF HTypes, Left
  <2>. QED
    BY <2>1, <2>2
<1>8. Dated'
  <2>1. \A s \in Runs : begun[s] <= top /\ taken[s] <= top
    BY DEF HTypes, Dated
  <2>2. \A s \in Runs : taken'[s] <= top
    BY <1>1, <1>5, <2>1
  <2>. QED
    BY <1>4, <2>1, <2>2 DEF Dated
<1>. QED
  BY <1>1, <1>2, <1>3, <1>4, <1>5, <1>6, <1>7, <1>8 DEF HTypes, FetchesOK

(* What a step of a run leaves in the directory.                           *)
Entry(r) == [stamp |-> taken[r], data |-> draft[r]]

Pile(r) == IF Differs(r) THEN Append(snapshots, Entry(r)) ELSE snapshots

LEMMA WriteIs ==
  ASSUME HTypes, NEW r \in Runs, Write(r)
  PROVE  /\ Entry(r) \in Stamped /\ Pile(r) \in Seq(Stamped)
         /\ snapshots' \in Pruned(Pile(r)) /\ snapshots' \in Seq(Stamped)
         /\ Pile(r) # <<>> /\ snapshots' # <<>> /\ Newest' = Pile(r)[Len(Pile(r))]
<1>1. Entry(r) \in Stamped /\ snapshots \in Seq(Stamped)
  BY DEF HTypes, FetchesOK, Entry, Stamped
<1>2. Append(snapshots, Entry(r)) \in Seq(Stamped) /\ Append(snapshots, Entry(r)) # <<>>
  BY <1>1, AppendedIs
<1>3. Pile(r) \in Seq(Stamped)
  BY <1>1, <1>2 DEF Pile
<1>4. Pile(r) # <<>>
  BY <1>2 DEF Pile, Differs
<1>5. snapshots' \in Pruned(Pile(r))
  BY DEF Write, Pile, Entry
<1>6. /\ snapshots' \in Seq(Stamped) /\ snapshots' # <<>>
      /\ snapshots'[Len(snapshots')] = Pile(r)[Len(Pile(r))]
  BY <1>3, <1>4, <1>5, PrunedIs
<1>. QED
  BY <1>1, <1>3, <1>4, <1>5, <1>6 DEF Newest

LEMMA WriteTypes ==
  ASSUME HTypes, NEW r \in Runs, Write(r)
  PROVE  HTypes'
<1>1. /\ draft \in [Runs -> Data] /\ begun \in [Runs -> Nat] /\ taken \in [Runs -> Nat]
      /\ script \in [Runs -> {"fetch", "write", "end"}] /\ top \in Nat
  BY DEF HTypes, FetchesOK
<1>2. UNCHANGED <<config, top, last_id, begun>>
  BY DEF Write, trigger
<1>3. /\ script' = [script EXCEPT ![r] = "end"] /\ taken' = [taken EXCEPT ![r] = 0]
      /\ draft' = [draft EXCEPT ![r] = <<>>] /\ <<>> \in Data
  BY DEF Write, Data
<1>4. snapshots' \in Seq(Stamped)
  BY WriteIs
<1>5. Left'
  BY <1>1, <1>3 DEF HTypes, Left
<1>6. Dated'
  BY <1>1, <1>2, <1>3 DEF HTypes, Dated
<1>7. FetchesOK'
  BY <1>1, <1>2, <1>3 DEF FetchesOK
<1>. QED
  BY <1>2, <1>4, <1>5, <1>6, <1>7 DEF HTypes

LEMMA InitHTypes == HInit => HTypes
<1>. SUFFICES ASSUME HInit PROVE HTypes
  OBVIOUS
<1>1. <<>> \in Data /\ <<>> \in Seq(Stamped) /\ Len(<<>>) = 0 /\ Endpoints \in Nat \ {0}
  BY HistoryConstants DEF Data
<1>2. FetchesOK /\ snapshots \in Seq(Stamped)
  BY <1>1 DEF HInit, FetchesOK
<1>3. Left /\ Dated
  BY <1>1 DEF HInit, Left, Dated
<1>. QED
  BY <1>2, <1>3 DEF HInit, HTypes

LEMMA HistoryUnchanged ==
  ASSUME HTypes, UNCHANGED <<config, top, last_id, begun, draft, taken, script, snapshots>>
  PROVE  HTypes'
  BY DEF HTypes, FetchesOK, Left, Dated

LEMMA StepHTypes == HTypes /\ [HNext]_hvars => HTypes'
<1>. SUFFICES ASSUME HTypes, [HNext]_hvars PROVE HTypes'
  OBVIOUS
<1>1. /\ config \in [1..Endpoints -> {0, 1}] /\ top \in Nat /\ last_id \in Nat
      /\ last_id <= top /\ begun \in [Runs -> Nat] /\ taken \in [Runs -> Nat]
      /\ script \in [Runs -> {"fetch", "write", "end"}]
      /\ draft \in [Runs -> Data] /\ Left /\ Dated
  BY DEF HTypes, FetchesOK
<1>2. CASE Change
  <2>1. /\ top' = top + 1 /\ config' \in [1..Endpoints -> {0, 1}]
        /\ UNCHANGED <<last_id, begun, draft, taken, script, snapshots>>
    <3>1. PICK e \in 1..Endpoints : config' = [config EXCEPT ![e] = 1 - @]
      BY <1>2 DEF Change
    <3>2. 1 - config[e] \in {0, 1}
      BY <1>1
    <3>. QED
      BY <1>1, <1>2, <3>1, <3>2 DEF Change, trigger, history_dir
  <2>2. Dated'
    BY <1>1, <2>1 DEF Dated
  <2>. QED
    BY <1>1, <2>1, <2>2 DEF HTypes, FetchesOK, Left
<1>3. CASE Poll
  <2>1. last_id' = top /\ UNCHANGED <<config, top, begun, draft, taken, script, snapshots>>
    BY <1>3 DEF Poll, history_dir
  <2>. QED
    BY <1>1, <2>1 DEF HTypes, FetchesOK, Left, Dated
<1>4. CASE TriggerBusy \/ TriggerStart \/ TriggerProbed \/ TriggerStarted \/ TriggerFails
           \/ ForwarderDies \/ HReboot \/ HServe \/ Others \/ UNCHANGED hvars
  BY <1>4, HistoryUnchanged
  DEF TriggerBusy, TriggerStart, TriggerProbed, TriggerStarted, TriggerFails, ForwarderDies,
      HReboot, HServe, Others, hvars, trigger, history_dir
<1>5. CASE \E r \in Runs : HRun(r)
  <2>1. PICK r \in Runs : HRun(r)
    BY <1>5
  <2>2. CASE HBegin(r)
    <3>1. /\ begun' = [begun EXCEPT ![r] = top]
          /\ UNCHANGED <<config, top, last_id, draft, taken, script, snapshots>>
      BY <2>2 DEF HBegin, trigger
    <3>2. Dated' /\ FetchesOK'
      BY <1>1, <3>1 DEF Dated, FetchesOK
    <3>. QED
      BY <3>1, <3>2 DEF HTypes, Left
  <2>3. CASE UNCHANGED <<config, top, trigger, history_dir>>
    BY <2>3, HistoryUnchanged DEF trigger, history_dir
  <2>. QED
    BY <2>1, <2>2, <2>3, FetchTypes, WriteTypes DEF HRun
<1>6. CASE \E r \in Runs : Fails(r)
  <2>1. PICK r \in Runs : Fails(r)
    BY <1>6
  <2>2. /\ script' = [script EXCEPT ![r] = "end"]
        /\ UNCHANGED <<config, top, last_id, begun, draft, taken, snapshots>>
    BY <2>1 DEF Fails, trigger
  <2>3. FetchesOK' /\ Left' /\ Dated'
    BY <1>1, <2>2 DEF FetchesOK, Left, Dated
  <2>. QED
    BY <2>2, <2>3 DEF HTypes
<1>. QED
  BY <1>2, <1>3, <1>4, <1>5, <1>6 DEF HNext, Forwarder

-----------------------------------------------------------------------------
(* Snapshots that follow each other *)

Twinless == \A i \in 1..(Len(snapshots) - 1) : snapshots[i].data # snapshots[i + 1].data

LEMMA WriteTwinless ==
  ASSUME HTypes, Twinless, NEW r \in Runs, Write(r)
  PROVE  Twinless'
<1>. DEFINE all == Pile(r)
            rest == snapshots'
<1>1. snapshots \in Seq(Stamped) /\ Len(snapshots) \in Nat /\ Entry(r) \in Stamped
  BY WriteIs, LenProperties DEF HTypes
<1>2. all \in Seq(Stamped) /\ Len(all) \in Nat /\ rest \in Pruned(all)
  BY WriteIs, LenProperties
<1>3. \A i \in 1..(Len(all) - 1) : all[i].data # all[i + 1].data
  <2>1. CASE Differs(r)
    <3>1. /\ Len(all) = Len(snapshots) + 1 /\ all[Len(snapshots) + 1] = Entry(r)
          /\ \A i \in 1..Len(snapshots) : all[i] = snapshots[i]
      BY <1>1, <2>1, AppendedIs DEF Pile
    <3>. SUFFICES ASSUME NEW i \in 1..Len(snapshots) PROVE all[i].data # all[i + 1].data
      BY <1>1, <3>1
    <3>2. CASE i = Len(snapshots)
      <4>1. snapshots # <<>>
        BY <1>1, <3>2
      <4>2. Newest.data # draft[r]
        BY <2>1, <4>1 DEF Differs
      <4>. QED
        BY <1>1, <3>1, <3>2, <4>2 DEF Newest, Entry
    <3>3. CASE i # Len(snapshots)
      <4>1. i \in 1..(Len(snapshots) - 1) /\ i + 1 \in 1..Len(snapshots)
        BY <1>1, <3>3
      <4>. QED
        BY <3>1, <4>1 DEF Twinless
    <3>. QED
      BY <3>2, <3>3
  <2>2. CASE ~Differs(r)
    BY <2>2 DEF Pile, Twinless
  <2>. QED
    BY <2>1, <2>2
<1>4. /\ rest \in Seq(Stamped) /\ Len(rest) \in Nat /\ Len(rest) <= Len(all)
      /\ \A i \in 1..Len(rest) : rest[i] = all[i + (Len(all) - Len(rest))]
  BY <1>2, PrunedIs, LenProperties
<1>. HIDE DEF all, rest
<1>5. ASSUME NEW i \in 1..(Len(rest) - 1) PROVE rest[i].data # rest[i + 1].data
  <2>1. /\ rest[i] = all[i + (Len(all) - Len(rest))]
        /\ rest[i + 1] = all[(i + (Len(all) - Len(rest))) + 1]
    <3>1. i \in 1..Len(rest) /\ i + 1 \in 1..Len(rest)
      BY <1>4
    <3>2. (i + 1) + (Len(all) - Len(rest)) = (i + (Len(all) - Len(rest))) + 1
      BY <1>2, <1>4
    <3>. QED
      BY <1>4, <3>1, <3>2
  <2>2. i + (Len(all) - Len(rest)) \in 1..(Len(all) - 1)
    BY <1>2, <1>4
  <2>. QED
    BY <1>3, <2>1, <2>2
<1>. QED
  BY <1>5 DEF Twinless, rest

LEMMA StepTwinless == HTypes /\ Twinless /\ [HNext]_hvars => Twinless'
<1>. SUFFICES ASSUME HTypes, Twinless, [HNext]_hvars PROVE Twinless'
  OBVIOUS
<1>1. CASE \E r \in Runs : Write(r)
  BY <1>1, WriteTwinless
<1>2. CASE UNCHANGED snapshots
  BY <1>2 DEF Twinless
<1>. QED
  BY <1>1, <1>2
  DEF HNext, Forwarder, Change, Poll, TriggerBusy, TriggerStart, TriggerProbed, TriggerStarted,
      TriggerFails, ForwarderDies, HReboot, HServe, Others, HRun, HBegin, Fetch, Fails, hvars,
      history_dir

(* Snapshots that follow each other differ (config_history.py, same_config *)
(* and prune_plan), however many of them are written and deleted.          *)
THEOREM SnapshotsDiffer == HSpec => []NoTwins
<1>1. HInit => HTypes /\ Twinless
  BY InitHTypes DEF HInit, Twinless
<1>2. Twinless => NoTwins
  BY DEF Twinless, NoTwins
<1>. QED
  BY <1>1, <1>2, StepHTypes, StepTwinless, PTL DEF HSpec

-----------------------------------------------------------------------------
(* A change on its way *)

Fresh(r) == run[r].pc \in {"none", "lock", "begin", "skipped"}

Begun(r) == run[r].pc \in {"command", "final", "unlock"}

Serving == serve.pc \in {"probed", "handle"}

Waiting(r) == run[r].pc \in {"lock", "begin"}

Reads(r) == run[r].pc \notin {"none", "skipped"} /\ begun[r] >= last_id

Coming == (\E r \in Runs : Waiting(r)) \/ Serving \/ \E r \in Runs : Reads(r)

(* Once start_job has seen the lock free, or nothing is due any more, a    *)
(* run that has the lock has begun after the change: a run that loses      *)
(* against it loses nothing.                                               *)
UpToDate == \A r \in Runs : Begun(r) => begun[r] >= last_id

Pend ==
  /\ triggerable = Jobs /\ orphans = {}
  /\ starter.pc # "idle" => due
  /\ starter.pc # "idle" \/ ~due => UpToDate
  /\ \A r \in Runs : Fresh(r) => begun[r] = 0
  /\ last_id > 0 => due \/ Coming

(* A step that leaves no trouble behind had none before it.                *)
LEMMA CalmIs ==
  ASSUME Base, Below, Troubles' = 0
  PROVE  Troubles = 0 /\ used.faults = 0 /\ used'.faults = 0 /\ ~Count("kills") /\ ~Count("faults")
<1>1. Grown(used, used') /\ used \in Counters /\ used' \in Counters
  BY StepBase DEF Base, Parts
<1>2. /\ used.kills \in Nat /\ used.faults \in Nat /\ used'.kills \in Nat /\ used'.faults \in Nat
      /\ used'.kills >= used.kills
      /\ used'.faults = 0 => used.faults = 0
  BY <1>1 DEF Grown, Counters
<1>3. used'.kills = 0 /\ used'.faults = 0
  BY <1>2 DEF Troubles
<1>4. used.kills = 0 /\ used.faults = 0
  BY <1>2, <1>3
<1>5. ~Count("kills") /\ ~Count("faults")
  BY <1>1, <1>3, <1>4 DEF Count, Counters
<1>. QED
  BY <1>3, <1>4, <1>5 DEF Troubles

(* A step of runs, none of which loses or gets the lock.                   *)
LEMMA PendKept ==
  ASSUME HTypes, Pend, UNCHANGED <<last_id, begun, starter, triggerable, orphans>>, due => due',
         \A r \in Runs :
           \/ run'[r] = run[r]
           \/ run[r].pc = "none" /\ run'[r].pc = "lock"
           \/ Begun(r) /\ run'[r].pc \in {"final", "unlock", "done"},
         Serving => Serving' \/ \E r \in Runs : run'[r].pc = "lock"
  PROVE  Pend'
<1>1. /\ last_id \in Nat /\ begun \in [Runs -> Nat]
  BY DEF HTypes, FetchesOK
<1>2. \A r \in Runs : Begun(r)' => Begun(r)
  BY DEF Begun
<1>3. \A r \in Runs : Fresh(r)' => Fresh(r)
  BY DEF Fresh, Begun
<1>4. \A r \in Runs : Waiting(r) => Waiting(r)'
  BY DEF Waiting, Begun
<1>5. last_id > 0 => \A r \in Runs : Reads(r) => Reads(r)'
  BY DEF Reads, Begun
<1>6. last_id > 0 /\ Coming => Coming'
  <2>1. \A r \in Runs : run'[r].pc = "lock" => Waiting(r)'
    BY DEF Waiting
  <2>. QED
    BY <1>4, <1>5, <2>1 DEF Coming
<1>7. UpToDate => UpToDate'
  BY <1>2 DEF UpToDate
<1>. QED
  BY <1>3, <1>6, <1>7 DEF Pend

LEMMA SpawnPend ==
  ASSUME HTypes, Base, Pend, NEW j, NEW mode, NEW q, Spawn(j, mode, q),
         UNCHANGED <<last_id, due, begun, starter, triggerable, orphans>>
  PROVE  Pend'
<1>1. run \in [Runs -> RunRecords]
  BY DEF Base, Parts
<1>2. \A r \in Runs : run'[r] = run[r] \/ (run[r].pc = "none" /\ run'[r].pc = "lock")
  BY <1>1, SpawnMoves
<1>3. \E r \in Runs : run'[r].pc = "lock"
  BY <1>1 DEF Spawn, NextRun, NoRun
<1>. QED
  BY <1>2, <1>3, PendKept

LEMMA ForwarderPend ==
  ASSUME HTypes, Base, Pend, Below, Troubles' = 0,
         Poll \/ TriggerBusy \/ TriggerStart \/ TriggerProbed \/ TriggerStarted
  PROVE  Pend'
<1>1. /\ run \in [Runs -> RunRecords] /\ Job \in Jobs /\ Jobs = {Job}
      /\ \A r \in Runs : run[r].job \in Jobs
  BY HistoryConstants DEF Base, Parts, RunRecords
<1>2. CASE Poll
  BY <1>2 DEF Poll, Noted, Pend, vars, history_dir, Fresh
<1>3. CASE TriggerBusy
  <2>1. UNCHANGED <<last_id, begun, starter, triggerable, orphans, run, serve>> /\ due'
    BY <1>3 DEF TriggerBusy, StillDue, vars, history_dir
  <2>. QED
    BY <2>1, PendKept DEF Serving
<1>4. CASE TriggerStart
  <2>1. /\ lock[Job] = Free /\ starter'.pc # "idle" /\ due
        /\ UNCHANGED <<last_id, due, begun, triggerable, orphans, run, serve>>
    <3>1. used \in Counters /\ used.faults = 0 /\ used'.faults = 0
      BY CalmIs DEF Base, Parts
    <3>2. ~(used' = [used EXCEPT !.starts = @ + 1, !.faults = @ + 1])
      <4>. SUFFICES ASSUME used' = [used EXCEPT !.starts = @ + 1, !.faults = @ + 1]
                    PROVE  FALSE
        OBVIOUS
      <4>1. used'.faults = used.faults + 1
        BY <3>1 DEF Counters
      <4>. QED
        BY <3>1, <4>1
    <3>3. StartJob(Job) /\ due /\ UNCHANGED <<last_id, due, begun>>
      BY <1>4 DEF TriggerStart, trigger, history_dir
    <3>4. UNCHANGED <<triggerable, orphans, run, serve>>
      BY <3>3 DEF StartJob
    <3>5. CanLock(Job) /\ starter' = [pc |-> "probed", job |-> Job]
      BY <3>2, <3>3 DEF StartJob
    <3>. QED
      BY <3>3, <3>4, <3>5 DEF CanLock
  <2>2. \A r \in Runs : ~Begun(r)
    <3>1. \A r \in Runs : Begun(r) => run[r].locked
      BY CalmIs DEF Base, Recorded, Locking, Begun
    <3>2. \A r \in Runs : run[r].locked => lock[Job] = r /\ r # Free
      BY <1>1, RunIs DEF Base, Holding
    <3>. QED
      BY <2>1, <3>1, <3>2
  <2>. QED
    BY <2>1, <2>2 DEF Pend, UpToDate, Begun, Fresh
<1>5. CASE TriggerProbed
  <2>1. /\ starter.pc = "probed" /\ UNCHANGED <<last_id, due, begun, triggerable, orphans, run>>
    BY <1>5 DEF TriggerProbed, StartProbed, trigger, history_dir
  <2>. QED
    BY <2>1 DEF Pend, UpToDate, Begun, Fresh
<1>6. CASE TriggerStarted
  <2>1. /\ starter.pc = "spawn" /\ starter'.pc = "idle" /\ Spawn(starter.job, "run", 0)
        /\ UNCHANGED <<last_id, begun, triggerable, orphans>>
    BY <1>6 DEF TriggerStarted, StartSpawn, history_dir, NoStart
  <2>2. \A r \in Runs : run'[r] = run[r] \/ (run[r].pc = "none" /\ run'[r].pc = "lock")
    BY <1>1, <2>1, SpawnMoves
  <2>3. \E r \in Runs : Waiting(r)'
    BY <1>1, <2>1 DEF Spawn, NextRun, NoRun, Waiting
  <2>4. UpToDate'
    BY <2>1, <2>2 DEF Pend, UpToDate, Begun
  <2>5. \A r \in Runs : Fresh(r)' => begun'[r] = 0
    BY <2>1, <2>2 DEF Pend, Fresh
  <2>. QED
    BY <2>1, <2>3, <2>4, <2>5 DEF Pend, Coming
<1>. QED
  BY <1>2, <1>3, <1>4, <1>5, <1>6

LEMMA RunPend ==
  ASSUME HTypes, Base, Pend, Below, Troubles' = 0, NEW r \in Runs, HRun(r)
  PROVE  Pend'
<1>1. /\ run \in [Runs -> RunRecords] /\ begun \in [Runs -> Nat] /\ top \in Nat
      /\ last_id \in Nat /\ last_id <= top /\ run[r].job = Job
  BY HistoryConstants DEF Base, Parts, HTypes, FetchesOK, RunRecords
<1>2. CASE HBegin(r)
  <2>1. /\ run[r].pc = "begin" /\ run'[r].pc = "command"
        /\ \A s \in Runs \ {r} : run'[s] = run[s]
    BY <1>1, <1>2 DEF HBegin, Begin, RunRecords
  <2>2. /\ begun' = [begun EXCEPT ![r] = top]
        /\ UNCHANGED <<last_id, due, starter, triggerable, orphans>>
    BY <1>2 DEF HBegin, Begin, trigger
  <2>3. UpToDate => UpToDate'
    BY <1>1, <2>1, <2>2 DEF UpToDate, Begun
  <2>4. \A s \in Runs : Fresh(s)' => begun'[s] = 0
    BY <1>1, <2>1, <2>2 DEF Fresh, Pend
  <2>5. Reads(r)'
    BY <1>1, <2>1, <2>2 DEF Reads
  <2>. QED
    BY <2>2, <2>3, <2>4, <2>5 DEF Pend, Coming
<1>3. CASE Fetch(r) \/ Write(r)
  <2>1. UNCHANGED <<last_id, due, begun, starter, triggerable, orphans, run, serve>>
    BY <1>3 DEF Fetch, Write, trigger, vars
  <2>. QED
    BY <2>1, PendKept DEF Serving
<1>4. CASE Lock(r) /\ UNCHANGED <<config, top, trigger, history_dir>>
  <2>1. /\ UNCHANGED <<last_id, due, begun, starter, triggerable, orphans, serve>>
        /\ run[r].pc = "lock"
    BY <1>4 DEF Lock, trigger, history_dir
  <2>2. CASE run' = [run EXCEPT ![r].pc = "begin", ![r].locked = TRUE]
    <3>1. run'[r].pc = "begin" /\ \A s \in Runs \ {r} : run'[s] = run[s]
      BY <1>1, <2>2 DEF RunRecords
    <3>2. UpToDate => UpToDate'
      BY <2>1, <3>1 DEF UpToDate, Begun
    <3>3. Waiting(r)'
      BY <3>1 DEF Waiting
    <3>4. \A s \in Runs : Fresh(s)' => begun'[s] = 0
      BY <2>1, <3>1 DEF Pend, Fresh
    <3>. QED
      BY <2>1, <3>2, <3>3, <3>4 DEF Pend, Coming
  <2>3. CASE Held(Job) /\ Moves(r, "skipped")
    <3>1. run'[r].pc = "skipped" /\ \A s \in Runs \ {r} : run'[s] = run[s]
      BY <1>1, <2>3 DEF Moves, RunRecords
    <3>2. UpToDate => UpToDate'
      BY <2>1, <3>1 DEF UpToDate, Begun
    <3>3. \A s \in Runs : Fresh(s)' => begun'[s] = 0
      BY <2>1, <3>1 DEF Pend, Fresh
    <3>4. due \/ Coming'
      <4>. SUFFICES ASSUME ~due PROVE Coming'
        OBVIOUS
      <4>1. CASE lock[Job] = Serve /\ serve.pc = "probed"
        BY <2>1, <4>1 DEF Coming, Serving
      <4>2. CASE lock[Job] \in Runs /\ run[lock[Job]].locked
        <5>. PICK s \in Runs : s = lock[Job]
          BY <4>2
        <5>1. s # r /\ run[s].pc \in {"begin", "command", "final", "unlock"}
          BY <2>1, <4>2 DEF Base, Holding
        <5>2. run'[s] = run[s]
          BY <3>1, <4>2, <5>1
        <5>3. CASE run[s].pc = "begin"
          BY <4>2, <5>2, <5>3 DEF Coming, Waiting
        <5>4. CASE Begun(s)
          <6>1. begun[s] >= last_id
            BY <4>2, <5>4 DEF Pend, UpToDate
          <6>2. Reads(s)'
            BY <2>1, <5>1, <5>2, <6>1 DEF Reads
          <6>. QED
            BY <4>2, <6>2 DEF Coming
        <5>. QED
          BY <5>1, <5>3, <5>4 DEF Begun
      <4>3. starter.pc # "probed"
        BY DEF Pend
      <4>4. Job \in Jobs /\ lock[Job] # Free
        BY <2>3, HistoryConstants DEF Held
      <4>. QED
        BY <4>1, <4>2, <4>3, <4>4 DEF Base, Owned
    <3>. QED
      BY <2>1, <3>2, <3>3, <3>4 DEF Pend
  <2>. QED
    BY <1>1, <1>4, <2>2, <2>3, CalmIs DEF Lock, Unopened
<1>5. CASE /\ Final(r) \/ Unlock(r) \/ CommandEnds(r)
           /\ UNCHANGED <<config, top, trigger, history_dir>>
  <2>1. UNCHANGED <<last_id, due, begun, starter, triggerable, orphans, serve>>
    BY <1>5 DEF Final, Unlock, CommandEnds, trigger, history_dir
  <2>2. /\ Begun(r) /\ run'[r].pc \in {"final", "unlock", "done"}
        /\ \A s \in Runs \ {r} : run'[s] = run[s]
    BY <1>1, <1>5 DEF Final, Unlock, CommandEnds, Moves, Begun, RunRecords
  <2>. QED
    BY <2>1, <2>2, PendKept DEF Serving
<1>6. ~OrphanEnds(r)
  BY DEF OrphanEnds, Pend
<1>. QED
  BY <1>2, <1>3, <1>4, <1>5, <1>6 DEF HRun

LEMMA StepPend ==
  ASSUME HTypes, Base, Troubles = 0 => Pend, [HNext]_hvars, Troubles' = 0
  PROVE  Pend'
<1>1. Below /\ Pend /\ ~Count("kills") /\ ~Count("faults")
  BY StepIsBelow, CalmIs
<1>2. CASE Change \/ UNCHANGED hvars
  <2>1. UNCHANGED <<last_id, due, begun, starter, triggerable, orphans, run, serve>>
    BY <1>2 DEF Change, hvars, vars, trigger, history_dir
  <2>. QED
    BY <1>1, <2>1, PendKept DEF Serving
<1>3. CASE Forwarder \/ TriggerBusy
  BY <1>1, <1>3, ForwarderPend DEF Forwarder
<1>4. CASE \E r \in Runs : HRun(r)
  BY <1>1, <1>4, RunPend
<1>5. ~TriggerFails /\ ~ForwarderDies /\ ~HReboot /\ ~KillServe /\ \A r \in Runs : ~Fails(r)
                                                                       /\ ~KillRun(r)
  BY <1>1 DEF TriggerFails, StartFails, ForwarderDies, HReboot, Reboot, Fails, KillServe, KillRun
<1>6. CASE HServe
  <2>1. UNCHANGED <<last_id, due, begun, starter, triggerable, orphans>>
    BY <1>6
    DEF HServe, ServeStep, Tick, TickDone, DropSurplus, Probe, ProbeDone, Handle, Remove,
        SpawnFails, trigger, history_dir
  <2>2. CASE Handle
    <3>1. serve.path.job \in triggerable
      BY <1>1, ServeIs DEF Base, Parts, Pend
    <3>2. Spawn(serve.path.job, serve.path.mode, serve.path.id)
      BY <2>2, <3>1 DEF Handle
    <3>. QED
      BY <1>1, <2>1, <3>2, SpawnPend
  <2>3. CASE Tick \/ TickDone \/ DropSurplus \/ Probe \/ Remove
    <3>1. UNCHANGED run /\ ~Serving
      BY <2>3 DEF Tick, TickDone, DropSurplus, Probe, Remove, Serving
    <3>. QED
      BY <1>1, <2>1, <3>1, PendKept
  <2>4. CASE ProbeDone
    <3>1. UNCHANGED run /\ Serving'
      BY <2>4 DEF ProbeDone, Serving, Base, Parts, ServeOK, ServeRecords
    <3>. QED
      BY <1>1, <2>1, <3>1, PendKept
  <2>5. ~SpawnFails
    BY <1>1 DEF SpawnFails
  <2>. QED
    BY <1>6, <2>2, <2>3, <2>4, <2>5 DEF HServe, ServeStep
<1>7. CASE Others
  <2>1. UNCHANGED <<last_id, due, begun>>
    BY <1>7 DEF Others, trigger, history_dir
  <2>2. CASE Cron(Job)
    <3>1. UNCHANGED <<starter, triggerable, orphans>> /\ Spawn(Job, "run", 0)
      BY <2>2 DEF Cron
    <3>. QED
      BY <1>1, <2>1, <3>1, SpawnPend
  <2>3. CASE \E mode \in Modes : Request(Job, mode)
    <3>1. UNCHANGED <<starter, triggerable, orphans, run, serve>>
      BY <2>3 DEF Request
    <3>. QED
      BY <1>1, <2>1, <3>1, PendKept DEF Serving
  <2>. QED
    BY <1>5, <1>7, <2>2, <2>3 DEF Others
<1>. QED
  BY <1>2, <1>3, <1>4, <1>5, <1>6, <1>7 DEF HNext

LEMMA InitPend == HInit => Pend
  BY DEF HInit, Init, Pend, NoStart, UpToDate, Begun, NoRun

(* A change noted is never forgotten while the forwarder lives             *)
(* (change_trigger.py): until a run begun after it reads the endpoints,    *)
(* something is on its way, whoever else takes the lock meanwhile.         *)
THEOREM ChangesStayPending == HSpec => []ChangePending
<1>. DEFINE Inv == HTypes /\ Base /\ (Troubles = 0 => Pend)
<1>1. HInit => Inv
  BY InitHTypes, InitBase, InitPend DEF HInit
<1>2. Inv /\ [HNext]_hvars => Inv'
  BY StepHTypes, StepIsBelow, StepBase, StepPend
<1>3. Inv => ChangePending
  BY DEF ChangePending, Pend, Coming, Waiting, Serving, Reads
<1>. QED
  BY <1>1, <1>2, <1>3, PTL DEF HSpec

-----------------------------------------------------------------------------
(* What the History page says *)

(* Whoever started at time n, before the last change or after it: in the   *)
(* second case the newest snapshot shows the configuration.                *)
Shown(n) == n = top /\ top > 0 => snapshots # <<>> /\ Newest.data = config

(* A draft that was begun after the last change is a copy so far.          *)
Copies(r) ==
  /\ begun[r] <= taken[r]
  /\ taken[r] = top => \A i \in 1..Len(draft[r]) : draft[r][i] = config[i]

Progress(r) ==
  /\ script[r] = "write" => Len(draft[r]) = Endpoints
  /\ script[r] # "end" /\ draft[r] # <<>> => Copies(r)
  /\ script[r] = "end" /\ run[r].mode = "run" => Shown(begun[r])

Drafting ==
  /\ \A r \in Runs : Fresh(r) => script[r] = "fetch" /\ draft[r] = <<>>
  /\ \A r \in Runs : run[r].pc \in {"command", "final"} => Progress(r)
  /\ \A r \in Runs : run[r].pc = "final" => script[r] = "end"

LastRunShown ==
  LET r == state[Job].run
  IN r \in Runs /\ ~state[Job].running /\ run[r].mode = "run" => Shown(begun[r])

NewestShown ==
  snapshots # <<>> => Newest.stamp <= top /\ (Newest.stamp = top => Newest.data = config)

Honest == Drafting /\ LastRunShown /\ NewestShown

(* A step of a run that touches neither its files nor the directory.       *)
LEMMA HonestKept ==
  ASSUME HTypes, Pend', Honest,
         UNCHANGED <<config, top, begun, draft, taken, script, snapshots, state>>,
         \A r \in Runs :
           \/ run'[r] = run[r]
           \/ run[r].pc = "none" /\ run'[r].pc = "lock"
           \/ /\ run'[r].mode = run[r].mode
              /\ \/ run[r].pc = "lock" /\ run'[r].pc \in {"begin", "skipped"}
                 \/ run[r].pc = "command" /\ run'[r].pc = "final" /\ script[r] = "end"
                 \/ run'[r].pc = "done"
  PROVE  Honest'
<1>1. Drafting /\ LastRunShown /\ NewestShown /\ top \in Nat
  BY DEF Honest, HTypes
<1>2. ASSUME NEW r \in Runs, Fresh(r)' PROVE script'[r] = "fetch" /\ draft'[r] = <<>>
  <2>1. Fresh(r)
    BY <1>2 DEF Fresh
  <2>. QED
    BY <1>1, <2>1 DEF Drafting
<1>3. ASSUME NEW r \in Runs, run'[r].pc \in {"command", "final"} PROVE Progress(r)'
  <2>1. run[r].pc \in {"command", "final"} /\ run'[r].mode = run[r].mode
    BY <1>3
  <2>2. Progress(r)
    BY <1>1, <2>1 DEF Drafting
  <2>. QED
    BY <2>1, <2>2 DEF Progress, Copies, Shown, Newest
<1>4. ASSUME NEW r \in Runs, run'[r].pc = "final" PROVE script'[r] = "end"
  BY <1>1, <1>4 DEF Drafting
<1>5. LastRunShown'
  <2>. SUFFICES ASSUME NEW r \in Runs, r = state[Job].run, ~state[Job].running,
                       run'[r].mode = "run"
                PROVE  Shown(begun[r])'
    BY DEF LastRunShown
  <2>1. CASE run[r].mode = "run"
    BY <1>1, <2>1 DEF LastRunShown, Shown, Newest
  <2>2. CASE run'[r].pc = "lock"
    <3>1. begun'[r] = 0
      BY <2>2 DEF Pend, Fresh
    <3>. QED
      BY <1>1, <3>1 DEF Shown
  <2>. QED
    BY <2>1, <2>2
<1>6. NewestShown'
  BY <1>1 DEF NewestShown, Newest
<1>. QED
  BY <1>2, <1>3, <1>4, <1>5, <1>6 DEF Honest, Drafting

(* After a change, nothing that began before it is up to date.             *)
LEMMA ChangeHonest ==
  ASSUME HTypes, Honest, Change
  PROVE  Honest'
<1>1. /\ top \in Nat /\ top' = top + 1
      /\ UNCHANGED <<run, state, begun, draft, taken, script, snapshots>>
      /\ begun \in [Runs -> Nat] /\ taken \in [Runs -> Nat]
      /\ \A r \in Runs : begun[r] # top' /\ taken[r] # top'
  BY DEF HTypes, FetchesOK, Dated, Change, vars, files, history_dir
<1>2. \A r \in Runs : Shown(begun[r])'
  BY <1>1 DEF Shown
<1>3. ASSUME NEW r \in Runs, Progress(r) PROVE Progress(r)'
  BY <1>1, <1>2, <1>3 DEF Progress, Copies
<1>4. Drafting'
  BY <1>1, <1>3 DEF Honest, Drafting, Fresh
<1>5. LastRunShown'
  BY <1>1, <1>2 DEF LastRunShown
<1>6. NewestShown'
  <2>. SUFFICES ASSUME snapshots # <<>> PROVE Newest.stamp <= top' /\ Newest.stamp # top'
    BY <1>1 DEF NewestShown, Newest
  <2>1. snapshots \in Seq(Stamped) /\ Len(snapshots) \in 1..Len(snapshots)
    BY EmptySeq, LenProperties DEF HTypes
  <2>2. Newest \in Stamped
    BY <2>1, ElementOfSeq DEF Newest
  <2>3. Newest.stamp \in Nat /\ Newest.stamp <= top
    BY <2>2 DEF Stamped, Honest, NewestShown
  <2>. QED
    BY <1>1, <2>3
<1>. QED
  BY <1>4, <1>5, <1>6 DEF Honest

LEMMA BeginHonest ==
  ASSUME HTypes, Base, Honest, Below, Troubles' = 0, NEW r \in Runs, HBegin(r)
  PROVE  Honest'
<1>1. /\ run \in [Runs -> RunRecords] /\ run[r].job = Job /\ Job \in Jobs
      /\ state \in [Jobs -> StateFiles] /\ begun \in [Runs -> Nat]
  BY HistoryConstants DEF Base, Parts, HTypes, FetchesOK, RunRecords
<1>2. /\ run[r].pc = "begin" /\ run'[r].pc = "command"
      /\ \A s \in Runs \ {r} : run'[s] = run[s]
  BY <1>1 DEF HBegin, Begin, RunRecords
<1>3. /\ begun' = [begun EXCEPT ![r] = top]
      /\ UNCHANGED <<config, top, draft, taken, script, snapshots>>
  BY DEF HBegin
<1>4. state'[Job].running
  <2>1. state' = [state EXCEPT ![Job] = Started(Job, r)]
    BY <1>1, CalmIs DEF HBegin, Begin, Records
  <2>. QED
    BY <1>1, <2>1 DEF Started, StateFiles
<1>5. script[r] = "fetch" /\ draft[r] = <<>>
  BY <1>2 DEF Honest, Drafting, Fresh
<1>6. Progress(r)'
  BY <1>3, <1>5 DEF Progress
<1>7. ASSUME NEW s \in Runs \ {r}, Progress(s) PROVE Progress(s)'
  <2>1. begun'[s] = begun[s] /\ run'[s] = run[s]
    BY <1>1, <1>2, <1>3
  <2>. QED
    BY <1>3, <1>7, <2>1 DEF Progress, Copies, Shown, Newest
<1>8. Drafting'
  <2>1. \A s \in Runs : Fresh(s)' => Fresh(s)
    BY <1>2 DEF Fresh
  <2>2. \A s \in Runs : run'[s].pc \in {"command", "final"} => Progress(s)'
    BY <1>2, <1>6, <1>7 DEF Honest, Drafting
  <2>3. \A s \in Runs : run'[s].pc = "final" => script'[s] = "end"
    BY <1>2, <1>3 DEF Honest, Drafting
  <2>. QED
    BY <1>3, <2>1, <2>2, <2>3 DEF Honest, Drafting
<1>9. LastRunShown' /\ NewestShown'
  BY <1>3, <1>4 DEF Honest, LastRunShown, NewestShown, Newest
<1>. QED
  BY <1>8, <1>9 DEF Honest

LEMMA FinalHonest ==
  ASSUME HTypes, Base, Honest, Below, Troubles' = 0, NEW r \in Runs, Final(r),
         UNCHANGED <<config, top, trigger, history_dir>>
  PROVE  Honest'
<1>1. /\ run \in [Runs -> RunRecords] /\ run[r].job = Job /\ Job \in Jobs
      /\ state \in [Jobs -> StateFiles]
  BY HistoryConstants DEF Base, Parts, RunRecords
<1>2. /\ run[r].pc = "final" /\ run'[r].pc = "unlock" /\ run'[r].mode = run[r].mode
      /\ \A s \in Runs \ {r} : run'[s] = run[s]
  BY <1>1 DEF Final, RunRecords
<1>3. UNCHANGED <<config, top, begun, draft, taken, script, snapshots>>
  BY DEF history_dir
<1>4. state'[Job].run = r
  <2>1. state' = [state EXCEPT ![Job] = Ended(r)]
    BY <1>1, CalmIs DEF Final, Records
  <2>. QED
    BY <1>1, <2>1 DEF Ended
<1>5. run[r].mode = "run" => Shown(begun[r])
  BY <1>2 DEF Honest, Drafting, Progress
<1>6. LastRunShown'
  BY <1>2, <1>3, <1>4, <1>5 DEF LastRunShown, Shown, Newest
<1>7. ASSUME NEW s \in Runs \ {r}, Progress(s) PROVE Progress(s)'
  <2>1. run'[s] = run[s]
    BY <1>2
  <2>. QED
    BY <1>3, <1>7, <2>1 DEF Progress, Copies, Shown, Newest
<1>8. Drafting'
  <2>1. \A s \in Runs : Fresh(s)' => Fresh(s)
    BY <1>2 DEF Fresh
  <2>2. \A s \in Runs : run'[s].pc \in {"command", "final"} => Progress(s)'
    BY <1>2, <1>7 DEF Honest, Drafting
  <2>3. \A s \in Runs : run'[s].pc = "final" => script'[s] = "end"
    BY <1>2, <1>3 DEF Honest, Drafting
  <2>. QED
    BY <1>3, <2>1, <2>2, <2>3 DEF Honest, Drafting
<1>9. NewestShown'
  BY <1>3 DEF Honest, NewestShown, Newest
<1>. QED
  BY <1>6, <1>8, <1>9 DEF Honest

(* The runs that do not fetch or write keep their progress.                *)
LEMMA FetchHonest ==
  ASSUME HTypes, Base, Pend, Honest, Below, Troubles' = 0, NEW r \in Runs, Fetch(r)
  PROVE  Honest'
<1>1. /\ run[r].pc = "command" /\ script[r] = "fetch"
      /\ UNCHANGED <<run, state, config, top, begun, snapshots>>
  BY DEF Fetch, Executing, Pend, files
<1>2. /\ draft \in [Runs -> Data] /\ taken \in [Runs -> Nat] /\ begun \in [Runs -> Nat]
      /\ script \in [Runs -> {"fetch", "write", "end"}] /\ top \in Nat
      /\ begun[r] <= top
  BY DEF HTypes, FetchesOK, Dated
<1>3. PICK v \in Values :
        /\ v = config[Len(draft[r]) + 1] /\ Len(draft[r]) + 1 \in 1..Endpoints
        /\ draft' = [draft EXCEPT ![r] = Append(draft[r], v)]
        /\ draft'[r] = Append(draft[r], v)
  BY CalmIs, FetchIs
<1>4. /\ draft[r] \in Seq(Values) /\ Len(draft[r]) \in Nat
      /\ draft'[r] \in Seq(Values) /\ Len(draft'[r]) = Len(draft[r]) + 1
      /\ \A i \in 1..Len(draft[r]) : draft'[r][i] = draft[r][i]
      /\ draft'[r][Len(draft[r]) + 1] = v
  BY <1>2, <1>3, AppendedIs, LenProperties DEF Data
<1>5. ~Nothing(draft'[r])
  <2>1. v # Missing
    BY <1>3 DEF HTypes, Missing
  <2>2. Len(draft[r]) + 1 \in DOMAIN draft'[r]
    BY <1>4, LenProperties
  <2>. QED
    BY <1>4, <2>1, <2>2 DEF Nothing
<1>6. Progress(r)'
  <2>1. script'[r] = "write" => Len(draft'[r]) = Endpoints
    BY <1>1, <1>2, <1>3, <1>4, HistoryConstants DEF Fetch
  <2>2. Copies(r)'
    <3>1. CASE draft[r] = <<>>
      <4>1. taken'[r] = top
        BY <1>2, <3>1 DEF Fetch
      <4>2. Len(draft[r]) = 0
        BY <3>1, <1>4, EmptySeq
      <4>3. \A i \in 1..Len(draft'[r]) : i = 1 /\ draft'[r][i] = config[i]
        BY <1>3, <1>4, <4>2
      <4>. QED
        BY <1>1, <1>2, <4>1, <4>3 DEF Copies
    <3>2. CASE draft[r] # <<>>
      <4>1. taken'[r] = taken[r]
        BY <1>2, <3>2 DEF Fetch
      <4>2. Copies(r)
        BY <1>1, <3>2 DEF Honest, Drafting, Progress
      <4>3. ASSUME taken[r] = top, NEW i \in 1..Len(draft'[r]) PROVE draft'[r][i] = config[i]
        <5>1. CASE i = Len(draft[r]) + 1
          BY <1>3, <1>4, <5>1
        <5>2. CASE i \in 1..Len(draft[r])
          BY <1>4, <4>2, <4>3, <5>2 DEF Copies
        <5>. QED
          BY <1>4, <5>1, <5>2
      <4>. QED
        BY <1>1, <4>1, <4>2, <4>3 DEF Copies
    <3>. QED
      BY <3>1, <3>2
  <2>3. ~(script'[r] = "end" /\ run[r].mode = "run")
    BY <1>1, <1>2, <1>5 DEF Fetch
  <2>. QED
    BY <1>1, <2>1, <2>2, <2>3 DEF Progress
<1>7. ASSUME NEW s \in Runs \ {r}
      PROVE  UNCHANGED <<draft[s], taken[s], script[s]>>
  BY <1>2, <1>3 DEF Fetch
<1>8. Drafting'
  <2>1. \A s \in Runs : Fresh(s)' => s # r /\ Fresh(s)
    BY <1>1 DEF Fresh
  <2>2. ASSUME NEW s \in Runs, run'[s].pc \in {"command", "final"} PROVE Progress(s)'
    <3>1. CASE s = r
      BY <1>6, <3>1
    <3>2. CASE s # r
      <4>1. Progress(s)
        BY <1>1, <2>2 DEF Honest, Drafting
      <4>. QED
        BY <1>1, <1>7, <3>2, <4>1 DEF Progress, Copies, Shown, Newest
    <3>. QED
      BY <3>1, <3>2
  <2>3. \A s \in Runs : run'[s].pc = "final" => script'[s] = "end"
    BY <1>1, <1>7 DEF Honest, Drafting
  <2>. QED
    BY <1>7, <2>1, <2>2, <2>3 DEF Honest, Drafting
<1>9. LastRunShown' /\ NewestShown'
  BY <1>1 DEF Honest, LastRunShown, NewestShown, Shown, Newest
<1>. QED
  BY <1>8, <1>9 DEF Honest

LEMMA SameFunction ==
  ASSUME NEW D, NEW S, NEW T, NEW f \in [D -> S], NEW g \in [D -> T],
         \A x \in D : f[x] = g[x]
  PROVE  f = g
<1>1. f = [x \in D |-> f[x]] /\ g = [x \in D |-> g[x]]
  OBVIOUS
<1>2. [x \in D |-> f[x]] = [x \in D |-> g[x]]
  OBVIOUS
<1>. QED
  BY <1>1, <1>2

(* What is written is what was fetched, or equals the newest snapshot.     *)
LEMMA WriteHonest ==
  ASSUME HTypes, Base, Pend, Honest, Below, Troubles' = 0, NEW r \in Runs, Write(r)
  PROVE  Honest'
<1>1. /\ run[r].pc = "command" /\ script[r] = "write" /\ script'[r] = "end"
      /\ UNCHANGED <<run, state, config, top, begun>>
      /\ \A s \in Runs \ {r} : UNCHANGED <<draft[s], taken[s], script[s]>>
  BY DEF Write, Executing, Pend, vars, files, HTypes, FetchesOK
<1>2. /\ begun[r] \in Nat /\ taken[r] \in Nat /\ top \in Nat
      /\ begun[r] <= top /\ taken[r] <= top
      /\ draft[r] \in Seq(Values) /\ config \in [1..Endpoints -> {0, 1}]
  BY DEF HTypes, FetchesOK, Dated, Data
<1>3. Len(draft[r]) = Endpoints /\ begun[r] <= taken[r]
  <2>1. Len(draft[r]) = Endpoints
    BY <1>1 DEF Honest, Drafting, Progress
  <2>2. draft[r] # <<>>
    BY <1>2, <2>1, EmptySeq, HistoryConstants
  <2>. QED
    BY <1>1, <2>1, <2>2 DEF Honest, Drafting, Progress, Copies
<1>4. taken[r] = top => draft[r] = config
  <2>. SUFFICES ASSUME taken[r] = top PROVE draft[r] = config
    OBVIOUS
  <2>1. draft[r] # <<>>
    BY <1>2, <1>3, EmptySeq, HistoryConstants
  <2>2. \A i \in 1..Endpoints : draft[r][i] = config[i]
    BY <1>1, <1>3, <2>1 DEF Honest, Drafting, Progress, Copies
  <2>3. draft[r] \in [1..Endpoints -> Values]
    BY <1>2, <1>3, LenProperties
  <2>4. config \in [1..Endpoints -> {0, 1}]
    BY <1>2
  <2>. QED
    <3>. DEFINE D == 1..Endpoints
                f == draft[r]
    <3>1. f \in [D -> Values] /\ config \in [D -> {0, 1}] /\ \A x \in D : f[x] = config[x]
      BY <2>2, <2>3, <2>4
    <3>. HIDE DEF D, f
    <3>2. f = config
      BY <3>1, SameFunction
    <3>. QED
      BY <3>2 DEF f
<1>5. /\ snapshots' # <<>> /\ Newest'.data = draft[r]
      /\ Newest'.stamp <= top
      /\ Newest'.stamp = top => Newest'.data = config
  <2>1. snapshots' # <<>> /\ Newest' = Pile(r)[Len(Pile(r))]
    BY WriteIs
  <2>2. CASE Differs(r)
    <3>1. Newest' = Entry(r)
      <4>1. snapshots \in Seq(Stamped) /\ Entry(r) \in Stamped
        BY WriteIs DEF HTypes
      <4>. QED
        BY <2>1, <2>2, <4>1, AppendedIs DEF Pile
    <3>. QED
      BY <1>2, <1>4, <2>1, <3>1 DEF Entry
  <2>3. CASE ~Differs(r)
    <3>1. Newest' = Newest /\ snapshots # <<>> /\ Newest.data = draft[r]
      BY <2>1, <2>3 DEF Pile, Differs, Newest
    <3>. QED
      BY <2>1, <3>1 DEF Honest, NewestShown
  <2>. QED
    BY <2>2, <2>3
<1>6. Shown(begun[r])'
  <2>1. begun[r] = top => draft[r] = config
    BY <1>2, <1>3, <1>4
  <2>. QED
    BY <1>1, <1>5, <2>1 DEF Shown
<1>7. /\ state[Job].running
      /\ \A s \in Runs : run[s].pc \in {"command", "final"} => s = r
  <2>1. Reading /\ \A s \in Runs : run[s].job = Job
    BY CalmIs, HistoryConstants DEF Base, Parts, RunRecords, Recorded
  <2>. QED
    BY <1>1, <2>1 DEF Reading
<1>8. Drafting'
  <2>1. \A s \in Runs : Fresh(s)' => s # r /\ Fresh(s)
    BY <1>1 DEF Fresh
  <2>2. Progress(r)'
    BY <1>1, <1>6 DEF Progress
  <2>3. \A s \in Runs : run'[s].pc \in {"command", "final"} => s = r
    BY <1>1, <1>7
  <2>. QED
    BY <1>1, <2>1, <2>2, <2>3 DEF Honest, Drafting
<1>9. LastRunShown' /\ NewestShown'
  BY <1>1, <1>5, <1>7 DEF LastRunShown, NewestShown
<1>. QED
  BY <1>8, <1>9 DEF Honest

LEMMA RunHonestly ==
  ASSUME HTypes, Base, Pend, Pend', Honest, Below, Troubles' = 0, NEW r \in Runs, HRun(r)
  PROVE  Honest'
<1>1. run \in [Runs -> RunRecords]
  BY DEF Base, Parts
<1>2. CASE UNCHANGED <<config, top, trigger, history_dir>> /\ (Lock(r) \/ Unlock(r))
  <2>1. UNCHANGED <<config, top, begun, draft, taken, script, snapshots, state>>
    BY <1>2 DEF Lock, Unlock, files, history_dir
  <2>2. /\ run'[r].mode = run[r].mode /\ \A s \in Runs \ {r} : run'[s] = run[s]
        /\ \/ run[r].pc = "lock" /\ run'[r].pc \in {"begin", "skipped"}
           \/ run'[r].pc = "done"
    BY <1>1, <1>2 DEF Lock, Unlock, Moves, RunRecords
  <2>. QED
    BY <2>1, <2>2, HonestKept
<1>3. CASE script[r] = "end" /\ CommandEnds(r) /\ UNCHANGED <<config, top, trigger, history_dir>>
  <2>1. UNCHANGED <<config, top, begun, draft, taken, script, snapshots, state>>
    BY <1>3 DEF CommandEnds, files, history_dir
  <2>2. /\ run'[r].mode = run[r].mode /\ \A s \in Runs \ {r} : run'[s] = run[s]
        /\ run[r].pc = "command" /\ run'[r].pc = "final"
    BY <1>1, <1>3 DEF CommandEnds, Moves, RunRecords
  <2>. QED
    BY <1>3, <2>1, <2>2, HonestKept
<1>4. ~OrphanEnds(r)
  BY DEF OrphanEnds, Pend
<1>. QED
  BY <1>2, <1>3, <1>4, BeginHonest, FinalHonest, FetchHonest, WriteHonest DEF HRun

LEMMA StepHonest ==
  ASSUME HTypes, Base, Troubles = 0 => Pend /\ Honest, [HNext]_hvars, Troubles' = 0
  PROVE  Honest'
<1>1. Below /\ Pend /\ Honest /\ ~Count("kills") /\ ~Count("faults")
  BY StepIsBelow, CalmIs
<1>2. Pend'
  BY StepPend
<1>3. run \in [Runs -> RunRecords]
  BY DEF Base, Parts
<1>4. CASE Change
  BY <1>1, <1>4, ChangeHonest
<1>5. CASE \E r \in Runs : HRun(r)
  BY <1>1, <1>2, <1>5, RunHonestly
<1>6. ~TriggerFails /\ ~ForwarderDies /\ ~HReboot /\ ~KillServe /\ \A r \in Runs : ~Fails(r)
                                                                       /\ ~KillRun(r)
  BY <1>1 DEF TriggerFails, StartFails, ForwarderDies, HReboot, Reboot, Fails, KillServe, KillRun
<1>7. ASSUME NEW j, NEW mode, NEW q, Spawn(j, mode, q),
             UNCHANGED <<config, top, begun, draft, taken, script, snapshots, state>>
      PROVE  Honest'
  <2>1. \A r \in Runs : run'[r] = run[r] \/ (run[r].pc = "none" /\ run'[r].pc = "lock")
    BY <1>3, <1>7, SpawnMoves
  <2>. QED
    BY <1>1, <1>2, <1>7, <2>1, HonestKept
<1>8. CASE TriggerStarted \/ HServe \/ Others
  <2>1. UNCHANGED <<config, top, begun, draft, taken, script, snapshots, state>>
    <3>1. CASE TriggerStarted
      BY <3>1 DEF TriggerStarted, StartSpawn, history_dir, files
    <3>2. CASE HServe
      BY <3>2
      DEF HServe, ServeStep, Tick, TickDone, DropSurplus, Probe, ProbeDone, Handle, Remove,
          SpawnFails, history_dir, files
    <3>3. CASE Others
      BY <1>6, <3>3 DEF Others, Cron, Request, history_dir, files
    <3>. QED
      BY <1>8, <3>1, <3>2, <3>3
  <2>2. UNCHANGED run \/ \E j, mode, q : Spawn(j, mode, q)
    BY <1>6, <1>8
    DEF TriggerStarted, StartSpawn, HServe, ServeStep, Tick, TickDone, DropSurplus, Probe,
        ProbeDone, Handle, Remove, SpawnFails, Others, Cron, Request
  <2>3. CASE UNCHANGED run
    BY <1>1, <1>2, <2>1, <2>3, HonestKept
  <2>. QED
    BY <1>7, <2>1, <2>2, <2>3
<1>9. CASE Poll \/ TriggerBusy \/ TriggerStart \/ TriggerProbed \/ UNCHANGED hvars
  <2>1. UNCHANGED <<config, top, begun, draft, taken, script, snapshots, state, run>>
    BY <1>9
    DEF Poll, TriggerBusy, TriggerStart, StartJob, TriggerProbed, StartProbed, hvars, vars,
        history_dir, files
  <2>. QED
    BY <1>1, <1>2, <2>1, HonestKept
<1>. QED
  BY <1>4, <1>5, <1>6, <1>8, <1>9 DEF HNext, Forwarder

LEMMA InitHonest == HInit => Honest
<1>. SUFFICES ASSUME HInit PROVE Honest
  OBVIOUS
<1>1. Drafting
  BY DEF HInit, Init, Drafting, NoRun
<1>2. state[Job].run \notin Runs
  <2>1. 0 \notin Runs /\ Job \in Jobs
    BY HistoryConstants DEF Runs
  <2>. QED
    BY <2>1 DEF HInit, Init
<1>. QED
  BY <1>1, <1>2 DEF HInit, Honest, LastRunShown, NewestShown

(* As long as every run so far was a real one and nothing failed, the      *)
(* History page says "current" only when the newest snapshot shows the     *)
(* configuration (history_view.py, snapshot_status): the start of the last *)
(* run and the stamp of the newest snapshot together never cover a change  *)
(* that it misses.                                                         *)
THEOREM StatusIsHonest == HSpec => []StatusHonest
<1>. DEFINE Inv == HTypes /\ Base /\ (Troubles = 0 => Pend /\ Honest)
<1>1. HInit => Inv
  BY InitHTypes, InitBase, InitPend, InitHonest DEF HInit
<1>2. Inv /\ [HNext]_hvars => Inv'
  BY StepHTypes, StepIsBelow, StepBase, StepPend, StepHonest
<1>3. Inv => StatusHonest
  <2>. SUFFICES ASSUME HTypes, Base, Pend, Honest, RealRuns, top > 0, Status = "current"
                PROVE  snapshots # <<>> /\ Newest.data = config
    BY DEF StatusHonest
  <2>1. ~state[Job].running /\ top <= Covered
    BY DEF Status
  <2>2. /\ top \in Nat /\ Job \in Jobs /\ state[Job].run \in Runs \cup {0}
        /\ \A r \in Runs : begun[r] \in Nat /\ begun[r] <= top
    BY HistoryConstants DEF HTypes, FetchesOK, Dated, Base, Parts, StateFiles
  <2>3. snapshots # <<>> => Newest.stamp \in Nat
    <3>1. ASSUME snapshots # <<>> PROVE Newest \in Stamped
      <4>1. snapshots \in Seq(Stamped) /\ Len(snapshots) \in 1..Len(snapshots)
        BY <3>1, EmptySeq, LenProperties DEF HTypes
      <4>. QED
        BY <4>1, ElementOfSeq DEF Newest
    <3>. QED
      BY <3>1 DEF Stamped
  <2>4. CASE snapshots # <<>> /\ top <= Newest.stamp
    BY <2>2, <2>3, <2>4 DEF Honest, NewestShown, RealRuns
  <2>5. CASE state[Job].run # 0 /\ top <= begun[state[Job].run]
    <3>1. state[Job].run \in Runs /\ begun[state[Job].run] = top
      BY <2>2, <2>5
    <3>. QED
      BY <2>1, <3>1 DEF Honest, LastRunShown, Shown, RealRuns
  <2>. QED
    BY <2>1, <2>2, <2>3, <2>4, <2>5 DEF Covered
<1>. QED
  BY <1>1, <1>2, <1>3, PTL DEF HSpec

=============================================================================
