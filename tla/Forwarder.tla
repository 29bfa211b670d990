----------------------------- MODULE Forwarder -----------------------------
(***************************************************************************)
(* docker/event_forwarder.py: the process that polls NetBird's audit log   *)
(* and fans new events out to stdout, Mattermost and mail, the supervisord *)
(* program that restarts it, and the state file that survives restarts.    *)
(*                                                                         *)
(* One action per step between which the process can die. Every change of  *)
(* the State object is followed at once by save(), which replaces the file *)
(* atomically, so the variables last_id, outage_started and outage_alerted *)
(* stand for the file and for the process's copy of it.                    *)
(*                                                                         *)
(* Time is relative: outage_started is the age of the outage, digest_age   *)
(* the time since the last digest, due the time left until the config      *)
(* snapshot. Ages stop counting where the code stops telling them apart.   *)
(***************************************************************************)
EXTENDS Integers, Sequences, FiniteSets

CONSTANTS
  StdoutAllow, MattermostAllow, EmailAllow,
                   \* ids whose activity code each sink's filter passes
  HistoryCounts,   \* ids that count as a config change for the snapshot trigger
  MattermostOn,    \* MATTERMOST_WEBHOOK_URL is set
  EmailMode,       \* EMAIL_MODE
  HistoryOn,       \* HISTORY_ON_CHANGE
  MaxCatchup,      \* MAX_CATCHUP
  PollInterval,    \* POLL_INTERVAL
  BackoffCap,      \* BACKOFF_CAP_SECONDS
  OutageAlert,     \* OUTAGE_ALERT_MINUTES
  DigestEvery,     \* EMAIL_DIGEST_MINUTES
  Settle,          \* HISTORY_SETTLE_SECONDS
  BusyRetry,       \* change_trigger.BUSY_RETRY_S
  StartRetries,    \* supervisord startretries
  MaxEvents,       \* bound: audit events
  MaxCrashes       \* bound: deaths of the process that no code path causes

ASSUME ConstantsAssumption ==
  /\ StdoutAllow \subseteq Nat /\ MattermostAllow \subseteq Nat
  /\ EmailAllow \subseteq Nat /\ HistoryCounts \subseteq Nat
  /\ MattermostOn \in BOOLEAN /\ HistoryOn \in BOOLEAN
  /\ EmailMode \in {"off", "immediate", "digest"}
  /\ MaxCatchup \in Nat
  /\ PollInterval \in Nat \ {0} /\ BackoffCap \in Nat \ {0}
  /\ OutageAlert \in Nat /\ DigestEvery \in Nat
  /\ Settle \in Nat /\ BusyRetry \in Nat \ {0}
  /\ StartRetries \in Nat /\ MaxEvents \in Nat /\ MaxCrashes \in Nat

VARIABLES
  (* NetBird *)
  top,             \* its audit log holds the ids 1..top
  api,             \* what the management API answers: "up", "down", "denied"
  (* state.json *)
  last_id, outage_started, outage_alerted,
  (* forwarder.json, the heartbeat: last_id and whether the last poll worked *)
  beat,
  (* the process and supervisord *)
  pc, young, retries,
  current_backoff,
  fetched,         \* highest id of the poll being handled
  printed, mailed, \* how far its stdout and mail loops have come
  batch_notice,    \* MattermostSink.batch_notice: events skipped, 0 for None
  digest_buffer, digest_age,
  due, left,       \* ChangeTrigger.due; what is left of the wait
  (* what became of it all, for the properties *)
  seed,            \* top at first boot
  stdout,          \* every line printed
  mattermost, mail,\* ids delivered, in a failed send, capped away; last post
  unannounced,     \* capped ids no confirmed notice has counted
  forgotten,       \* those of them no notice counts any more
  alerts,          \* this outage's alerts: posted, and recoveries announced
  crashes

netbird == <<top, api>>
file == <<last_id, outage_started, outage_alerted>>
memory == <<current_backoff, fetched, printed, mailed, batch_notice,
            digest_buffer, digest_age, due, left>>
supervisor == <<young, retries>>
record == <<seed, stdout, mattermost, mail, unannounced, forgotten, alerts, crashes>>
vars == <<netbird, file, beat, pc, supervisor, memory, record>>

None == -1

Smaller(a, b) == IF a < b THEN a ELSE b

-----------------------------------------------------------------------------
(* Slips: definitions below as a plausible bug would have them. The        *)
(* specification uses none of them; each is put in place of the definition *)
(* it names to see that a property notices.                                *)

NewSkipsOne == (last_id + 2)..fetched           \* New: off by one
CursorAtTop == top                              \* Cursor: the newest id NetBird has
CursorStays == last_id                          \* Cursor: never moved
CappedLate(ids) ==                              \* Capped: one event too many
  IF Cardinality(ids) <= MaxCatchup + 1 THEN ids
  ELSE {e \in ids : Cardinality({x \in ids : x > e}) < MaxCatchup}
NoticeSpent(ok, notice) == 0                    \* NoticeAfter: the result ignored
BeatEarly(ok) == beat' = [ok |-> ok, last_id |-> top]  \* Beat: before the save
OutageSinceLastPoll == 0                        \* OutageSince: restarted each poll
AlertEveryPoll ==                               \* AlertDue: outage_alerted forgotten
  outage_started = OutageAlert /\ MattermostOn
BackoffUncapped == 2 * current_backoff          \* NextBackoff: no cap
BackoffKept == current_backoff                  \* BackoffAfterOutage: not reset
DigestDropped(ok) == {}                         \* DigestAfter: the result ignored

-----------------------------------------------------------------------------
(* Helpers *)

(* New events of the poll being handled: the ids above last_id.            *)
New == (last_id + 1)..fetched

(* Where the cursor goes once a poll's events are handled.                 *)
Cursor == fetched

(* mm_events[-max_catchup:], where [-0:] is the whole list.                *)
Capped(ids) ==
  IF Cardinality(ids) <= MaxCatchup \/ MaxCatchup = 0 THEN ids
  ELSE {e \in ids : Cardinality({x \in ids : x > e}) < MaxCatchup}

(* The notice after a post: dropped on a confirmed delivery only.          *)
NoticeAfter(ok, notice) == IF ok THEN 0 ELSE notice

(* A send delivers or not, and a delivery may still look failed (timeout). *)
Sends == {[got |-> TRUE, ok |-> TRUE], [got |-> TRUE, ok |-> FALSE],
          [got |-> FALSE, ok |-> FALSE]}

(* Book a send of the given ids to a sink's record.                        *)
Booked(sink, ids, s) ==
  [sink EXCEPT !.got = IF s.got THEN @ \cup ids ELSE @,
               !.failed = IF s.got THEN @ ELSE @ \cup ids]

(* d units of time go by while the process runs or sleeps.                 *)
Older(age, d, limit) == IF age = None THEN None ELSE Smaller(age + d, limit)

TimePasses(d) ==
  /\ outage_started' = Older(outage_started, d, OutageAlert)
  /\ digest_age' = Smaller(digest_age + d, DigestEvery)
  /\ due' = IF due = None THEN None ELSE IF due > d THEN due - d ELSE 0

SinkRecord == [got |-> {}, failed |-> {}, capped |-> {}, post |-> {}]
NoAlerts == [posted |-> 0, recoveries |-> 0]

Beat(ok) == beat' = [ok |-> ok, last_id |-> IF last_id' = None THEN 0 ELSE last_id']

(* The volatile state a new process starts with: the pending notice is     *)
(* gone, whatever it had left to announce.                                 *)
Fresh ==
  /\ current_backoff' = PollInterval
  /\ fetched' = 0 /\ printed' = 0 /\ mailed' = 0
  /\ batch_notice' = 0
  /\ unannounced' = unannounced /\ forgotten' = forgotten \cup unannounced
  /\ digest_buffer' = {} /\ digest_age' = 0
  /\ due' = None /\ left' = 0

Init ==
  /\ top \in {0, 1} /\ api \in {"up", "down"}
  /\ last_id = None /\ outage_started = None /\ outage_alerted = FALSE
  /\ beat = [ok |-> FALSE, last_id |-> 0]
  /\ pc = "boot" /\ young = TRUE /\ retries = 0
  /\ current_backoff = PollInterval
  /\ fetched = 0 /\ printed = 0 /\ mailed = 0
  /\ batch_notice = 0 /\ digest_buffer = {} /\ digest_age = 0
  /\ due = None /\ left = 0
  /\ seed = None /\ stdout = <<>>
  /\ mattermost = SinkRecord /\ mail = SinkRecord
  /\ unannounced = {} /\ forgotten = {} /\ alerts = NoAlerts
  /\ crashes = 0

-----------------------------------------------------------------------------
(* NetBird *)

Audit ==
  /\ top < MaxEvents
  /\ top' = top + 1
  /\ UNCHANGED <<api, file, beat, pc, supervisor, memory, record>>

ApiChanges ==
  /\ \E a \in {"up", "down", "denied"} \ {api} : api' = a
  /\ UNCHANGED <<top, file, beat, pc, supervisor, memory, record>>

-----------------------------------------------------------------------------
(* supervisord: an exit within startsecs of the start counts as a failed   *)
(* start, and one more of those in a row than startretries is given up.    *)

Exit ==
  /\ \E quick \in IF young THEN BOOLEAN ELSE {FALSE} :
       /\ retries' = IF quick THEN retries + 1 ELSE 0
       /\ pc' = IF retries' > StartRetries THEN "fatal" ELSE "down"
  /\ young' = FALSE
  /\ Fresh

Restart ==
  /\ pc = "down"
  /\ pc' = "boot" /\ young' = TRUE
  /\ \E d \in {0, PollInterval} :
       outage_started' = Older(outage_started, d, OutageAlert)
  /\ UNCHANGED <<netbird, last_id, outage_alerted, beat, retries, memory, record>>

Crash ==
  /\ crashes < MaxCrashes
  /\ pc \notin {"down", "fatal"}
  /\ crashes' = crashes + 1
  /\ Exit
  /\ UNCHANGED <<netbird, file, beat, seed, stdout, mattermost, mail, alerts>>

(* An exit the code takes: the heartbeat is written first.                 *)
Fails ==
  /\ Exit
  /\ UNCHANGED <<netbird, file, seed, stdout, mattermost, mail, alerts, crashes>>
  /\ Beat(FALSE)

-----------------------------------------------------------------------------
(* main and the first boot *)

BootFails ==
  /\ pc = "boot" /\ api # "up"
  /\ Fails

(* The initiator resolver is built and the state file loaded.              *)
Boot ==
  /\ pc = "boot" /\ api = "up"
  /\ pc' = IF last_id = None THEN "seed" ELSE "fetch"
  /\ UNCHANGED <<netbird, file, beat, supervisor, memory, record>>

SeedFails ==
  /\ pc = "seed" /\ api # "up"
  /\ Fails

Seed ==
  /\ pc = "seed" /\ api = "up"
  /\ last_id' = top /\ seed' = top
  /\ pc' = "fetch"
  /\ UNCHANGED <<netbird, outage_started, outage_alerted, beat, supervisor, memory,
                 stdout, mattermost, mail, unannounced, forgotten, alerts, crashes>>

-----------------------------------------------------------------------------
(* One poll: the failing side *)

PollDenied ==
  /\ pc = "fetch" /\ api = "denied"
  /\ Fails

(* The outage counts from its first failed poll.                           *)
OutageSince == IF outage_started = None THEN 0 ELSE outage_started

AlertDue == ~outage_alerted /\ OutageSince >= OutageAlert /\ MattermostOn

PollFails ==
  /\ pc = "fetch" /\ api = "down"
  /\ outage_started' = OutageSince
  /\ pc' = IF AlertDue THEN "alert" ELSE "backoff"
  /\ UNCHANGED <<netbird, last_id, outage_alerted, beat, supervisor, memory, record>>

SendAlert ==
  /\ pc = "alert"
  /\ alerts' = [alerts EXCEPT !.posted = @ + 1]
  /\ pc' = "alerted"
  /\ UNCHANGED <<netbird, file, beat, supervisor, memory, seed, stdout, mattermost,
                 mail, unannounced, forgotten, crashes>>

SaveAlerted ==
  /\ pc = "alerted"
  /\ outage_alerted' = TRUE
  /\ pc' = "backoff"
  /\ UNCHANGED <<netbird, last_id, outage_started, beat, supervisor, memory, record>>

NextBackoff == Smaller(2 * current_backoff, BackoffCap)

BackOff ==
  /\ pc = "backoff"
  /\ TimePasses(current_backoff)
  /\ current_backoff' = NextBackoff
  /\ young' = FALSE
  /\ pc' = "fetch"
  /\ UNCHANGED <<netbird, last_id, outage_alerted, retries, fetched, printed, mailed,
                 batch_notice, digest_buffer, left, record>>
  /\ Beat(FALSE)

-----------------------------------------------------------------------------
(* One poll: the working side *)

HandleNew(newest) == IF last_id < newest THEN "print" ELSE "flush"

Poll ==
  /\ pc = "fetch" /\ api = "up"
  /\ fetched' = top
  /\ printed' = last_id
  /\ pc' = IF outage_started = None THEN HandleNew(top)
           ELSE IF outage_alerted /\ MattermostOn THEN "recovered" ELSE "clear"
  /\ UNCHANGED <<netbird, file, beat, supervisor, current_backoff, mailed, batch_notice,
                 digest_buffer, digest_age, due, left, record>>

SendRecovered ==
  /\ pc = "recovered"
  /\ alerts' = [alerts EXCEPT !.recoveries = @ + 1]
  /\ pc' = "clear"
  /\ UNCHANGED <<netbird, file, beat, supervisor, memory, seed, stdout, mattermost,
                 mail, unannounced, forgotten, crashes>>

BackoffAfterOutage == PollInterval

ClearOutage ==
  /\ pc = "clear"
  /\ outage_started' = None /\ outage_alerted' = FALSE
  /\ current_backoff' = BackoffAfterOutage
  /\ alerts' = NoAlerts
  /\ pc' = HandleNew(fetched)
  /\ UNCHANGED <<netbird, last_id, beat, supervisor, fetched, printed, mailed, batch_notice,
                 digest_buffer, digest_age, due, left,
                 seed, stdout, mattermost, mail, unannounced, forgotten, crashes>>

PrintEvent ==
  /\ pc = "print"
  /\ \E e \in New \cap StdoutAllow :
       /\ printed < e
       /\ \A x \in New \cap StdoutAllow : x <= printed \/ e <= x
       /\ stdout' = Append(stdout, e)
       /\ printed' = e
  /\ UNCHANGED <<netbird, file, beat, pc, supervisor, current_backoff, fetched, mailed,
                 batch_notice, digest_buffer, digest_age, due, left, seed, mattermost,
                 mail, unannounced, forgotten, alerts, crashes>>

PrintDone ==
  /\ pc = "print"
  /\ \A x \in New \cap StdoutAllow : x <= printed
  /\ pc' = "post"
  /\ UNCHANGED <<netbird, file, beat, supervisor, memory, record>>

(* The cap and send_events: a notice the post carries is dropped only when *)
(* the post succeeded; a failed post is not repeated. The notice of a poll *)
(* that is capped takes the place of one still pending.                    *)
PostEvents ==
  /\ pc = "post"
  /\ LET ids == New \cap MattermostAllow
         kept == Capped(ids)
         skipped == ids \ kept
         lost == IF skipped = {} THEN forgotten
                 ELSE (forgotten \cup unannounced) \ skipped
         over == Cardinality(ids) - MaxCatchup
         notice == IF over > 0 THEN over ELSE batch_notice
         posts == MattermostOn /\ kept # {}
         capped == [mattermost EXCEPT !.capped = @ \cup skipped,
                                      !.post = IF posts THEN kept ELSE @]
     IN \E s \in Sends :
          /\ mattermost' = IF posts THEN Booked(capped, kept, s) ELSE capped
          /\ batch_notice' = IF posts THEN NoticeAfter(s.ok, notice) ELSE notice
          /\ unannounced' = IF posts /\ s.ok THEN lost ELSE unannounced \cup skipped
          /\ forgotten' = lost
  /\ mailed' = last_id
  /\ pc' = "mail"
  /\ UNCHANGED <<netbird, file, beat, supervisor, current_backoff, fetched, printed,
                 digest_buffer, digest_age, due, left, seed, stdout, mail, alerts,
                 crashes>>

ToMail == Capped(New \cap EmailAllow)

(* EmailSink.add: mail at once, or keep for the digest.                    *)
MailEvent ==
  /\ pc = "mail" /\ EmailMode # "off"
  /\ \E e \in ToMail :
       /\ mailed < e
       /\ \A x \in ToMail : x <= mailed \/ e <= x
       /\ mailed' = e
       /\ IF EmailMode = "immediate"
          THEN /\ \E s \in Sends : mail' = Booked(mail, {e}, s)
               /\ UNCHANGED digest_buffer
          ELSE /\ digest_buffer' = digest_buffer \cup {e}
               /\ UNCHANGED mail
  /\ UNCHANGED <<netbird, file, beat, pc, supervisor, current_backoff, fetched, printed,
                 batch_notice, digest_age, due, left, seed, stdout, mattermost,
                 unannounced, forgotten, alerts, crashes>>

(* The cursor is saved, then the trigger is told of the changes.           *)
Save ==
  /\ pc = "mail"
  /\ EmailMode # "off" => \A x \in ToMail : x <= mailed
  /\ last_id' = Cursor
  /\ due' = IF HistoryOn /\ New \cap HistoryCounts # {} THEN Settle ELSE due
  /\ mail' = [mail EXCEPT !.capped = @ \cup ((New \cap EmailAllow) \ ToMail)]
  /\ pc' = "flush"
  /\ UNCHANGED <<netbird, outage_started, outage_alerted, beat, supervisor,
                 current_backoff, fetched, printed, mailed, batch_notice, digest_buffer,
                 digest_age, left, seed, stdout, mattermost, unannounced, forgotten, alerts,
                 crashes>>

DigestAfter(ok) == IF ok THEN {} ELSE digest_buffer

(* EmailSink.tick, the heartbeat, and the start of the wait.               *)
Flush ==
  /\ pc = "flush"
  /\ IF EmailMode = "digest" /\ digest_buffer # {} /\ digest_age >= DigestEvery
     THEN \E s \in Sends :
            /\ mail' = Booked(mail, digest_buffer, s)
            /\ digest_buffer' = DigestAfter(s.ok)
            /\ digest_age' = IF s.ok THEN 0 ELSE digest_age
     ELSE UNCHANGED <<mail, digest_buffer, digest_age>>
  /\ left' = PollInterval
  /\ pc' = "wait"
  /\ UNCHANGED <<netbird, file, supervisor, current_backoff, fetched, printed, mailed,
                 batch_notice, due, seed, stdout, mattermost, unannounced, forgotten, alerts,
                 crashes>>
  /\ Beat(TRUE)

-----------------------------------------------------------------------------
(* _wait: sleep to the next poll, waking up for a due snapshot *)

SleepToPoll ==
  /\ pc = "wait"
  /\ due = None \/ due >= left
  /\ TimePasses(left)
  /\ left' = 0
  /\ young' = FALSE
  /\ pc' = "fetch"
  /\ UNCHANGED <<netbird, last_id, outage_alerted, beat, retries, current_backoff,
                 fetched, printed, mailed, batch_notice, digest_buffer, record>>

(* ChangeTrigger.tick: start the job; a busy one is tried again later.     *)
SleepToDue ==
  /\ pc = "wait"
  /\ due # None /\ due < left
  /\ \E outcome \in {"started", "busy", "disabled"} :
       due' = IF outcome = "busy" THEN BusyRetry ELSE None
  /\ left' = left - due
  /\ outage_started' = Older(outage_started, due, OutageAlert)
  /\ digest_age' = Smaller(digest_age + due, DigestEvery)
  /\ UNCHANGED <<netbird, last_id, outage_alerted, beat, pc, supervisor, current_backoff,
                 fetched, printed, mailed, batch_notice, digest_buffer, seed, stdout,
                 mattermost, mail, unannounced, forgotten, alerts, crashes>>

-----------------------------------------------------------------------------

Environment == Audit \/ ApiChanges \/ Crash

Process ==
  \/ BootFails \/ Boot \/ SeedFails \/ Seed
  \/ PollDenied \/ PollFails \/ SendAlert \/ SaveAlerted \/ BackOff
  \/ Poll \/ SendRecovered \/ ClearOutage
  \/ PrintEvent \/ PrintDone \/ PostEvents \/ MailEvent \/ Save \/ Flush
  \/ SleepToPoll \/ SleepToDue

Next == Environment \/ Restart \/ Process

Spec == Init /\ [][Next]_vars

(* The process runs and supervisord restarts it; nothing is assumed of the *)
(* API, of NetBird's users, of crashes or of what the sinks answer.        *)
FairSpec == Spec /\ WF_vars(Process) /\ WF_vars(Restart)

-----------------------------------------------------------------------------
(* Properties *)

Alive == pc \notin {"down", "fatal"}

Printed == {stdout[i] : i \in DOMAIN stdout}

Occurrences(e) == Cardinality({i \in DOMAIN stdout : stdout[i] = e})

Ages(limit) == 0..limit \cup {None}

Sinks == [got : SUBSET Nat, failed : SUBSET Nat, capped : SUBSET Nat, post : SUBSET Nat]

AlertCounts == [posted : Nat, recoveries : Nat]

Beats == [ok : BOOLEAN, last_id : Nat]

NetbirdOK == top \in Nat /\ api \in {"up", "down", "denied"}

FileOK ==
  /\ last_id \in Nat \cup {None}
  /\ outage_started \in Ages(OutageAlert) /\ outage_alerted \in BOOLEAN

ProcessOK ==
  /\ beat \in Beats
  /\ pc \in {"down", "fatal", "boot", "seed", "fetch", "alert", "alerted", "backoff",
             "recovered", "clear", "print", "post", "mail", "flush", "wait"}
  /\ young \in BOOLEAN /\ retries \in 0..(StartRetries + 1)

MemoryOK ==
  /\ current_backoff \in Nat \ {0}
  /\ current_backoff <= PollInterval \/ current_backoff <= BackoffCap
  /\ fetched \in Nat /\ printed \in Nat \cup {None} /\ mailed \in Nat \cup {None}
  /\ batch_notice \in Nat
  /\ digest_buffer \subseteq Nat /\ digest_age \in 0..DigestEvery
  /\ due \in Nat \cup {None} /\ left \in 0..PollInterval

RecordOK ==
  /\ seed \in Nat \cup {None} /\ stdout \in Seq(Nat)
  /\ mattermost \in Sinks /\ mail \in Sinks
  /\ unannounced \subseteq Nat /\ forgotten \subseteq Nat /\ alerts \in AlertCounts
  /\ crashes \in 0..MaxCrashes

(* Every variable keeps to the values the code gives it: ids are ids the   *)
(* audit log has, the backoff stays within its cap.                        *)
TypeOK == NetbirdOK /\ FileOK /\ ProcessOK /\ MemoryOK /\ RecordOK

(* No loss: whatever lies between the seed and the saved last_id was       *)
(* printed, and was posted and mailed, or failed in a send the log names,  *)
(* or was capped away: no death of the process loses an event in between.  *)
(* (README: "last_id persisted, resumes exactly where it left off".)       *)
NothingVanishes ==
  \A e \in 1..MaxEvents : seed # None /\ seed < e /\ e <= last_id =>
    /\ e \in StdoutAllow => e \in Printed
    /\ e \in MattermostAllow /\ MattermostOn =>
         e \in mattermost.got \cup mattermost.failed \cup mattermost.capped
    /\ e \in EmailAllow /\ EmailMode = "immediate" =>
         e \in mail.got \cup mail.failed \cup mail.capped

(* An event is printed once, plus at most once more per crash.             *)
Replays == \A e \in 1..MaxEvents : Occurrences(e) <= 1 + crashes

(* The comment in send_events: a notice is kept until a post that carries  *)
(* it is confirmed. What is pending counts the capped events that no       *)
(* confirmed post has announced, no more and no fewer, except those the    *)
(* sink has forgotten: the notice is kept in memory only, so an exit or a  *)
(* death loses it (CHANGELOG.md:412 says it is kept until Mattermost       *)
(* acknowledges it), and the notice of a later capped poll replaces it.    *)
(* Not so for MAX_CATCHUP=0, which announces what it posts.                *)
SkipWarned == MaxCatchup > 0 => Cardinality(unannounced \ forgotten) = batch_notice

(* The catch-up is bounded: a post carries at most MAX_CATCHUP events. Not *)
(* so for MAX_CATCHUP=0, where [-0:] keeps the whole list.                 *)
CatchupBounded == MaxCatchup > 0 => Cardinality(mattermost.post) <= MaxCatchup

(* One unreachable alert per outage, however many polls fail and however   *)
(* often the process is restarted in it (a crash between the post and the  *)
(* save repeats it), and a recovery only after an alert.                   *)
AlertsPerOutage ==
  /\ alerts.posted <= 1 + crashes
  /\ alerts.recoveries > 0 => alerts.posted > 0
  /\ outage_alerted => alerts.posted > 0 /\ outage_started # None

(* The backoff of one outage never delays the polls after it.              *)
CalmBackoff ==
  pc \in {"fetch", "wait"} /\ outage_started = None => current_backoff = PollInterval

(* The digest buffer lets go of a mail only when it was delivered, as long *)
(* as the process lives.                                                   *)
DigestKeepsMail ==
  [][pc' \notin {"down", "fatal"} => digest_buffer \ digest_buffer' \subseteq mail'.got]_vars

(* The Jobs page is never told of a last_id the state file does not hold,  *)
(* nor of a working poll while the process knows of an outage it has       *)
(* already slept through once.                                             *)
HeartbeatHonest ==
  /\ beat.last_id <= last_id \/ beat.last_id = 0
  /\ pc = "fetch" /\ outage_started # None /\ crashes = 0 => ~beat.ok

(* Every event NetBird records after the seed is printed in the end, once  *)
(* the API stays up, unless supervisord has given the process up.          *)
EventuallyPrinted ==
  <>[](api = "up") /\ [](pc # "fatal") =>
    \A e \in StdoutAllow \cap (1..MaxEvents) :
      (seed # None /\ seed < e /\ e <= top) ~> (e \in Printed)

(* An API that stays unreachable is alerted, as long as the process gets   *)
(* to poll (README: self-alert on extended API outage).                    *)
EventuallyAlerted ==
  <>[](api = "down") /\ []<>(pc = "fetch") => <>[]outage_alerted

-----------------------------------------------------------------------------
(* What the README and comments say and the code does not do. *)

(* README.md:125: "No event loss across restarts". The digest is in memory *)
(* only, and its events are behind the saved last_id.                      *)
DigestSurvives ==
  \A e \in EmailAllow \cap (1..MaxEvents) : seed # None /\ seed < e /\ e <= last_id =>
    e \in mail.got \cup mail.failed \cup mail.capped \cup digest_buffer

(* README.md:125: "resumes exactly where it left off", also after failed   *)
(* starts while the API was away.                                          *)
ResumesAfterOutage ==
  <>[](api = "up") =>
    \A e \in StdoutAllow \cap (1..MaxEvents) :
      (seed # None /\ seed < e /\ e <= top) ~> (e \in Printed)

-----------------------------------------------------------------------------
(* The stdout stream is the promised at-least-once, in-order stream.       *)

Position ==
  IF pc = "print" THEN printed
  ELSE IF pc \in {"post", "mail"} THEN fetched
  ELSE last_id

Stream == INSTANCE AuditStream WITH
  Passes <- StdoutAllow, published <- top, committed <- last_id,
  position <- Position, emitted <- stdout

(* Refinement: printing implements the stream over crashes and restarts.   *)
ImplementsStream == Stream!Spec
=============================================================================
