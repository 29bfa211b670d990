-------------------------- MODULE ForwarderProofs --------------------------
(***************************************************************************)
(* The forwarder, for every filter, cap, interval, number of events and    *)
(* number of crashes: its type invariant, that it implements the           *)
(* at-least-once stream, that no event vanishes behind last_id, and what   *)
(* the alerts, the heartbeat, the catch-up cap and the digest promise.     *)
(***************************************************************************)
EXTENDS Forwarder, FiniteSetTheorems, WellFoundedInduction, NaturalsInduction, TLAPS

(* A process supervisord has not given up has used up at most startretries *)
(* failed starts.                                                          *)
Counted == pc # "fatal" => retries <= StartRetries

TypeInv == TypeOK /\ Counted

-----------------------------------------------------------------------------
(* Operators *)

LEMMA OlderIs ==
  ASSUME NEW limit \in Nat, NEW age \in Ages(limit), NEW d \in Nat
  PROVE  Older(age, d, limit) \in Ages(limit)
  BY DEF Older, Ages, Smaller, None

LEMMA TimePassesIs ==
  ASSUME FileOK, MemoryOK, NEW d \in Nat, TimePasses(d)
  PROVE  /\ outage_started' \in Ages(OutageAlert)
         /\ digest_age' \in 0..DigestEvery
         /\ due' \in Nat \cup {None}
<1>1. outage_started' \in Ages(OutageAlert)
  BY OlderIs, ConstantsAssumption DEF TimePasses, FileOK
<1>2. digest_age' \in 0..DigestEvery
  BY ConstantsAssumption DEF TimePasses, MemoryOK, Smaller
<1>3. due' \in Nat \cup {None}
  BY DEF TimePasses, MemoryOK, None
<1>. QED
  BY <1>1, <1>2, <1>3

(* The new events of a poll are a finite set of ids.                       *)
LEMMA NewIs ==
  ASSUME FileOK, MemoryOK
  PROVE  /\ New \subseteq Nat
         /\ \A ids \in SUBSET New : IsFiniteSet(ids) /\ Cardinality(ids) \in Nat
<1>1. New \subseteq Nat
  BY DEF FileOK, MemoryOK, New, None
<1>2. IsFiniteSet(New)
  BY FS_Interval DEF FileOK, MemoryOK, New, None
<1>. QED
  BY <1>1, <1>2, FS_Subset, FS_CardinalityType

LEMMA CappedIs ==
  ASSUME NEW ids
  PROVE  Capped(ids) \subseteq ids
  BY DEF Capped

(* The ids a sink's record accounts for.                                   *)
Booking(sink) == sink.got \cup sink.failed \cup sink.capped

(* Booking a send keeps what was booked and accounts for the ids sent.     *)
LEMMA BookedIs ==
  ASSUME NEW sink \in Sinks, NEW ids \in SUBSET Nat, NEW s \in Sends
  PROVE  /\ Booked(sink, ids, s) \in Sinks
         /\ Booking(Booked(sink, ids, s)) = Booking(sink) \cup ids
  BY DEF Sinks, Booked, Sends, Booking

LEMMA BeatIs ==
  ASSUME NEW ok \in BOOLEAN, FileOK', Beat(ok)
  PROVE  beat' \in Beats
  BY DEF Beat, Beats, FileOK, None

-----------------------------------------------------------------------------
(* Types *)

(* A part of the state a step leaves alone keeps its type.                 *)
LEMMA Untouched ==
  /\ NetbirdOK /\ UNCHANGED netbird => NetbirdOK'
  /\ FileOK /\ UNCHANGED file => FileOK'
  /\ MemoryOK /\ UNCHANGED memory => MemoryOK'
  /\ RecordOK /\ UNCHANGED record => RecordOK'
  /\ ProcessOK /\ Counted /\ UNCHANGED <<beat, pc, supervisor>> => ProcessOK' /\ Counted'
<1>1. NetbirdOK /\ UNCHANGED netbird => NetbirdOK'
  BY DEF NetbirdOK, netbird
<1>2. FileOK /\ UNCHANGED file => FileOK'
  BY DEF FileOK, file
<1>3. MemoryOK /\ UNCHANGED memory => MemoryOK'
  BY DEF MemoryOK, memory
<1>4. RecordOK /\ UNCHANGED record => RecordOK'
  BY DEF RecordOK, record
<1>5. ProcessOK /\ Counted /\ UNCHANGED <<beat, pc, supervisor>> => ProcessOK' /\ Counted'
  BY DEF ProcessOK, Counted, supervisor
<1>. QED
  BY <1>1, <1>2, <1>3, <1>4, <1>5

(* A step to a label, with the beat and the restart count as they are.     *)
LEMMA Moves ==
  ASSUME TypeInv, UNCHANGED <<beat, retries>>, young' \in BOOLEAN, pc # "fatal",
         pc' \in {"boot", "seed", "fetch", "alert", "alerted", "backoff", "recovered",
                  "clear", "print", "post", "mail", "flush", "wait"}
  PROVE  ProcessOK' /\ Counted'
  BY DEF TypeInv, TypeOK, ProcessOK, Counted

LEMMA InitTypes == Init => TypeInv
<1>. SUFFICES ASSUME Init PROVE TypeInv
  OBVIOUS
<1>1. SinkRecord \in Sinks /\ NoAlerts \in AlertCounts /\ beat \in Beats
  BY DEF Init, SinkRecord, Sinks, NoAlerts, AlertCounts, Beats
<1>2. NetbirdOK /\ FileOK
  <2>1. NetbirdOK
    BY DEF Init, NetbirdOK
  <2>2. outage_alerted \in BOOLEAN /\ outage_started \in Ages(OutageAlert)
    BY DEF Init, Ages
  <2>. QED
    BY <2>1, <2>2 DEF Init, FileOK
<1>3. ProcessOK /\ Counted
  BY <1>1, ConstantsAssumption DEF Init, ProcessOK, Counted
<1>4. MemoryOK
  BY ConstantsAssumption DEF Init, MemoryOK
<1>5. RecordOK
  BY <1>1, ConstantsAssumption DEF Init, RecordOK
<1>. QED
  BY <1>2, <1>3, <1>4, <1>5 DEF TypeInv, TypeOK

(* An exit, however it comes about.                                        *)
LEMMA ExitTypes ==
  ASSUME TypeInv, Exit, pc # "fatal",
         UNCHANGED <<netbird, file, seed, stdout, mattermost, mail, alerts>>,
         beat' \in Beats, crashes' \in 0..MaxCrashes
  PROVE  TypeInv'
<1>1. /\ young' = FALSE /\ Fresh
      /\ \E quick \in BOOLEAN : retries' = IF quick THEN retries + 1 ELSE 0
      /\ pc' = IF retries' > StartRetries THEN "fatal" ELSE "down"
  BY DEF Exit
<1>2. retries \in 0..StartRetries
  BY ConstantsAssumption DEF TypeInv, TypeOK, ProcessOK, Counted
<1>3. retries' \in 0..(StartRetries + 1)
  BY <1>1, <1>2, ConstantsAssumption
<1>4. ProcessOK' /\ Counted'
  <2>1. pc' \in {"down", "fatal"} /\ Counted'
    BY <1>1, <1>3, ConstantsAssumption DEF Counted
  <2>. QED
    BY <1>1, <1>3, <2>1 DEF ProcessOK
<1>5. MemoryOK'
  BY <1>1, ConstantsAssumption DEF Fresh, MemoryOK
<1>6. RecordOK'
  BY <1>1 DEF Fresh, RecordOK, TypeInv, TypeOK
<1>. QED
  BY <1>4, <1>5, <1>6, Untouched DEF TypeInv, TypeOK

LEMMA StepTypes == TypeInv /\ [Next]_vars => TypeInv'
<1>. SUFFICES ASSUME TypeInv, [Next]_vars PROVE TypeInv'
  OBVIOUS
<1>0. NetbirdOK /\ FileOK /\ ProcessOK /\ Counted /\ MemoryOK /\ RecordOK
  BY DEF TypeInv, TypeOK
<1>1. CASE Audit
  BY <1>0, <1>1, Untouched DEF Audit, TypeInv, TypeOK, NetbirdOK
<1>2. CASE ApiChanges
  BY <1>0, <1>2, Untouched DEF ApiChanges, TypeInv, TypeOK, NetbirdOK
<1>3. CASE Crash
  <2>1. beat' \in Beats /\ crashes' \in 0..MaxCrashes
    BY <1>0, <1>3, ConstantsAssumption DEF Crash, ProcessOK, RecordOK
  <2>. QED
    BY <1>3, <2>1, ExitTypes DEF Crash
<1>4. CASE Restart
  <2>1. PICK d \in {0, PollInterval} : outage_started' = Older(outage_started, d, OutageAlert)
    BY <1>4 DEF Restart
  <2>2. outage_started' \in Ages(OutageAlert)
    BY <1>0, <2>1, OlderIs, ConstantsAssumption DEF FileOK
  <2>3. FileOK'
    BY <1>0, <1>4, <2>2 DEF Restart, FileOK
  <2>4. ProcessOK' /\ Counted'
    BY <1>4, Moves DEF Restart
  <2>. QED
    BY <1>0, <1>4, <2>3, <2>4, Untouched DEF Restart, TypeInv, TypeOK
<1>5. CASE BootFails \/ SeedFails \/ PollDenied
  <2>1. /\ Exit /\ Beat(FALSE) /\ pc # "fatal"
        /\ UNCHANGED <<netbird, file, seed, stdout, mattermost, mail, alerts, crashes>>
    BY <1>5 DEF BootFails, SeedFails, PollDenied, Fails
  <2>2. beat' \in Beats /\ crashes' \in 0..MaxCrashes
    BY <1>0, <2>1, BeatIs, Untouched DEF RecordOK
  <2>. QED
    BY <2>1, <2>2, ExitTypes
<1>6. CASE Boot
  <2>1. ProcessOK' /\ Counted'
    BY <1>0, <1>6, Moves DEF Boot, ProcessOK, supervisor
  <2>. QED
    BY <1>0, <1>6, <2>1, Untouched DEF Boot, TypeInv, TypeOK
<1>7. CASE Seed
  <2>1. ProcessOK' /\ Counted'
    BY <1>0, <1>7, Moves DEF Seed, ProcessOK, supervisor
  <2>2. FileOK' /\ RecordOK'
    BY <1>0, <1>7 DEF Seed, FileOK, RecordOK, NetbirdOK
  <2>. QED
    BY <1>0, <1>7, <2>1, <2>2, Untouched DEF Seed, TypeInv, TypeOK
<1>8. CASE PollFails
  <2>1. ProcessOK' /\ Counted'
    BY <1>0, <1>8, Moves DEF PollFails, ProcessOK, supervisor
  <2>2. FileOK'
    BY <1>0, <1>8, ConstantsAssumption DEF PollFails, OutageSince, FileOK, Ages, None
  <2>. QED
    BY <1>0, <1>8, <2>1, <2>2, Untouched DEF PollFails, TypeInv, TypeOK
<1>9. CASE SendAlert
  <2>1. ProcessOK' /\ Counted'
    BY <1>0, <1>9, Moves DEF SendAlert, ProcessOK, supervisor
  <2>2. alerts \in AlertCounts /\ alerts' = [alerts EXCEPT !.posted = alerts.posted + 1]
    BY <1>0, <1>9 DEF SendAlert, RecordOK
  <2>3. RecordOK'
    BY <1>0, <1>9, <2>2 DEF SendAlert, RecordOK, AlertCounts
  <2>. QED
    BY <1>0, <1>9, <2>1, <2>3, Untouched DEF SendAlert, TypeInv, TypeOK
<1>10. CASE SaveAlerted
  <2>1. ProcessOK' /\ Counted'
    BY <1>0, <1>10, Moves DEF SaveAlerted, ProcessOK, supervisor
  <2>2. FileOK'
    BY <1>0, <1>10 DEF SaveAlerted, FileOK
  <2>. QED
    BY <1>0, <1>10, <2>1, <2>2, Untouched DEF SaveAlerted, TypeInv, TypeOK
<1>11. CASE BackOff
  <2>1. TimePasses(current_backoff) /\ current_backoff \in Nat /\ current_backoff # 0
    BY <1>0, <1>11 DEF BackOff, MemoryOK
  <2>2. /\ outage_started' \in Ages(OutageAlert)
        /\ digest_age' \in 0..DigestEvery
        /\ due' \in Nat \cup {None}
    BY <1>0, <2>1, TimePassesIs
  <2>3. current_backoff' \in Nat \ {0} /\ current_backoff' <= BackoffCap
    BY <1>11, <2>1, ConstantsAssumption DEF BackOff, NextBackoff, Smaller
  <2>4. FileOK'
    BY <1>0, <1>11, <2>2 DEF BackOff, FileOK
  <2>5. MemoryOK'
    BY <1>0, <1>11, <2>2, <2>3 DEF BackOff, MemoryOK
  <2>6. beat' \in Beats
    BY <1>11, <2>4, BeatIs DEF BackOff
  <2>7. ProcessOK' /\ Counted'
    BY <1>0, <1>11, <2>6 DEF BackOff, ProcessOK, Counted
  <2>. QED
    BY <1>0, <1>11, <2>4, <2>5, <2>7, Untouched DEF BackOff, TypeInv, TypeOK
<1>12. CASE Poll
  <2>1. ProcessOK' /\ Counted'
    BY <1>0, <1>12, Moves DEF Poll, HandleNew, ProcessOK, supervisor
  <2>2. MemoryOK'
    BY <1>0, <1>12 DEF Poll, MemoryOK, NetbirdOK, FileOK
  <2>. QED
    BY <1>0, <1>12, <2>1, <2>2, Untouched DEF Poll, TypeInv, TypeOK
<1>13. CASE SendRecovered
  <2>1. ProcessOK' /\ Counted'
    BY <1>0, <1>13, Moves DEF SendRecovered, ProcessOK, supervisor
  <2>2. alerts \in AlertCounts /\ alerts' = [alerts EXCEPT !.recoveries = alerts.recoveries + 1]
    BY <1>0, <1>13 DEF SendRecovered, RecordOK
  <2>3. RecordOK'
    BY <1>0, <1>13, <2>2 DEF SendRecovered, RecordOK, AlertCounts
  <2>. QED
    BY <1>0, <1>13, <2>1, <2>3, Untouched DEF SendRecovered, TypeInv, TypeOK
<1>14. CASE ClearOutage
  <2>1. ProcessOK' /\ Counted'
    BY <1>0, <1>14, Moves DEF ClearOutage, HandleNew, ProcessOK, supervisor
  <2>2. FileOK'
    BY <1>0, <1>14 DEF ClearOutage, FileOK, Ages
  <2>3. MemoryOK'
    BY <1>0, <1>14, ConstantsAssumption DEF ClearOutage, BackoffAfterOutage, MemoryOK
  <2>4. NoAlerts \in AlertCounts
    BY DEF NoAlerts, AlertCounts
  <2>5. RecordOK'
    BY <1>0, <1>14, <2>4 DEF ClearOutage, RecordOK
  <2>. QED
    BY <1>0, <1>14, <2>1, <2>2, <2>3, <2>5, Untouched DEF ClearOutage, TypeInv, TypeOK
<1>15. CASE PrintEvent
  <2>1. PICK e \in New \cap StdoutAllow : stdout' = Append(stdout, e) /\ printed' = e
    BY <1>15 DEF PrintEvent
  <2>2. e \in Nat
    BY <1>0, <2>1, NewIs
  <2>3. MemoryOK'
    BY <1>0, <1>15, <2>1, <2>2 DEF PrintEvent, MemoryOK
  <2>4. RecordOK'
    BY <1>0, <1>15, <2>1, <2>2 DEF PrintEvent, RecordOK
  <2>. QED
    BY <1>0, <1>15, <2>3, <2>4, Untouched DEF PrintEvent, TypeInv, TypeOK
<1>16. CASE PrintDone
  <2>1. ProcessOK' /\ Counted'
    BY <1>0, <1>16, Moves DEF PrintDone, ProcessOK, supervisor
  <2>. QED
    BY <1>0, <1>16, <2>1, Untouched DEF PrintDone, TypeInv, TypeOK
<1>17. CASE PostEvents
  <2>. DEFINE ids == New \cap MattermostAllow
              kept == Capped(ids)
              skipped == ids \ kept
              lost == IF skipped = {} THEN forgotten
                      ELSE (forgotten \cup unannounced) \ skipped
              over == Cardinality(ids) - MaxCatchup
              notice == IF over > 0 THEN over ELSE batch_notice
              posts == MattermostOn /\ kept # {}
              capped == [mattermost EXCEPT !.capped = @ \cup skipped,
                                           !.post = IF posts THEN kept ELSE @]
  <2>1. PICK s \in Sends :
          /\ mattermost' = IF posts THEN Booked(capped, kept, s) ELSE capped
          /\ batch_notice' = IF posts THEN NoticeAfter(s.ok, notice) ELSE notice
          /\ unannounced' = IF posts /\ s.ok THEN lost ELSE unannounced \cup skipped
          /\ forgotten' = lost
    BY <1>17 DEF PostEvents
  <2>2. ids \subseteq Nat /\ kept \subseteq ids /\ Cardinality(ids) \in Nat
    BY <1>0, NewIs, CappedIs
  <2>3. mattermost' \in Sinks
    <3>1. capped \in Sinks
      BY <1>0, <2>2 DEF RecordOK, Sinks
    <3>2. kept \in SUBSET Nat
      BY <2>2
    <3>. HIDE DEF capped, posts, kept
    <3>. QED
      BY <2>1, <3>1, <3>2, BookedIs
  <2>4. batch_notice' \in Nat
    <3>1. over \in Int
      BY <2>2, ConstantsAssumption
    <3>2. batch_notice \in Nat
      BY <1>0 DEF MemoryOK
    <3>. HIDE DEF over, posts
    <3>3. notice \in Nat
      BY <3>1, <3>2
    <3>. HIDE DEF notice
    <3>. QED
      BY <2>1, <3>3 DEF NoticeAfter
  <2>5. unannounced' \subseteq Nat /\ forgotten' \subseteq Nat
    BY <1>0, <2>1, <2>2 DEF RecordOK
  <2>. HIDE DEF ids, kept, skipped, lost, over, notice, posts, capped
  <2>6. ProcessOK' /\ Counted'
    BY <1>0, <1>17, Moves DEF PostEvents, ProcessOK, supervisor
  <2>7. RecordOK'
    BY <1>0, <1>17, <2>3, <2>5 DEF PostEvents, RecordOK
  <2>8. MemoryOK'
    BY <1>0, <1>17, <2>4 DEF PostEvents, MemoryOK, FileOK
  <2>. QED
    BY <1>0, <1>17, <2>6, <2>7, <2>8, Untouched DEF PostEvents, TypeInv, TypeOK
<1>18. CASE MailEvent
  <2>1. PICK e \in ToMail :
          /\ mailed' = e
          /\ IF EmailMode = "immediate"
             THEN /\ \E s \in Sends : mail' = Booked(mail, {e}, s)
                  /\ UNCHANGED digest_buffer
             ELSE /\ digest_buffer' = digest_buffer \cup {e}
                  /\ UNCHANGED mail
    BY <1>18 DEF MailEvent
  <2>2. e \in Nat /\ {e} \in SUBSET Nat
    BY <1>0, NewIs, CappedIs DEF ToMail
  <2>3. mail' \in Sinks
    <3>1. mail \in Sinks
      BY <1>0 DEF RecordOK
    <3>2. (\E s \in Sends : mail' = Booked(mail, {e}, s)) \/ mail' = mail
      BY <2>1
    <3>3. ASSUME NEW s \in Sends PROVE Booked(mail, {e}, s) \in Sinks
      BY <2>2, <3>1, BookedIs
    <3>. QED
      BY <3>1, <3>2, <3>3
  <2>4. digest_buffer' \subseteq Nat
    BY <1>0, <2>1, <2>2 DEF MemoryOK
  <2>5. RecordOK'
    BY <1>0, <1>18, <2>3 DEF MailEvent, RecordOK
  <2>6. MemoryOK'
    BY <1>0, <1>18, <2>1, <2>2, <2>4 DEF MailEvent, MemoryOK
  <2>. QED
    BY <1>0, <1>18, <2>5, <2>6, Untouched DEF MailEvent, TypeInv, TypeOK
<1>19. CASE Save
  <2>1. ProcessOK' /\ Counted'
    BY <1>0, <1>19, Moves DEF Save, ProcessOK, supervisor
  <2>2. New \cap EmailAllow \subseteq Nat
    BY <1>0, NewIs
  <2>3. /\ mail \in Sinks
        /\ mail' = [mail EXCEPT !.capped = mail.capped \cup
                                            ((New \cap EmailAllow) \ ToMail)]
    BY <1>0, <1>19 DEF Save, RecordOK
  <2>4. mail' \in Sinks
    BY <2>2, <2>3 DEF Sinks
  <2>5. RecordOK'
    BY <1>0, <1>19, <2>4 DEF Save, RecordOK
  <2>6. FileOK' /\ MemoryOK'
    BY <1>0, <1>19, ConstantsAssumption DEF Save, Cursor, FileOK, MemoryOK
  <2>. QED
    BY <1>0, <1>19, <2>1, <2>5, <2>6, Untouched DEF Save, TypeInv, TypeOK
<1>20. CASE Flush
  <2>1. /\ mail' \in Sinks
        /\ digest_buffer' \subseteq Nat
        /\ digest_age' \in 0..DigestEvery
    <3>1. CASE EmailMode = "digest" /\ digest_buffer # {} /\ digest_age >= DigestEvery
      <4>1. PICK s \in Sends : /\ mail' = Booked(mail, digest_buffer, s)
                               /\ digest_buffer' = DigestAfter(s.ok)
                               /\ digest_age' = IF s.ok THEN 0 ELSE digest_age
        BY <1>20, <3>1 DEF Flush
      <4>2. mail \in Sinks /\ digest_buffer \in SUBSET Nat /\ digest_age \in 0..DigestEvery
        BY <1>0 DEF RecordOK, MemoryOK
      <4>3. mail' \in Sinks
        BY <4>1, <4>2, BookedIs
      <4>4. digest_buffer' \subseteq Nat
        BY <4>1, <4>2 DEF DigestAfter
      <4>. QED
        BY <4>1, <4>2, <4>3, <4>4, ConstantsAssumption
    <3>2. CASE ~(EmailMode = "digest" /\ digest_buffer # {} /\ digest_age >= DigestEvery)
      BY <1>0, <1>20, <3>2 DEF Flush, MemoryOK, RecordOK
    <3>. QED
      BY <3>1, <3>2
  <2>2. RecordOK'
    BY <1>0, <1>20, <2>1 DEF Flush, RecordOK
  <2>3. left' \in 0..PollInterval
    BY <1>20, ConstantsAssumption DEF Flush
  <2>4. MemoryOK'
    BY <1>0, <1>20, <2>1, <2>3 DEF Flush, MemoryOK
  <2>5. FileOK' /\ beat' \in Beats
    BY <1>0, <1>20, BeatIs, Untouched DEF Flush
  <2>6. ProcessOK' /\ Counted'
    BY <1>0, <1>20, <2>5 DEF Flush, ProcessOK, Counted, supervisor
  <2>. QED
    BY <1>0, <1>20, <2>2, <2>4, <2>5, <2>6, Untouched DEF Flush, TypeInv, TypeOK
<1>21. CASE SleepToPoll
  <2>1. left \in Nat /\ TimePasses(left)
    BY <1>0, <1>21, ConstantsAssumption DEF SleepToPoll, MemoryOK
  <2>2. /\ outage_started' \in Ages(OutageAlert)
        /\ digest_age' \in 0..DigestEvery
        /\ due' \in Nat \cup {None}
    BY <1>0, <2>1, TimePassesIs
  <2>3. ProcessOK' /\ Counted'
    BY <1>0, <1>21, Moves DEF SleepToPoll
  <2>4. FileOK'
    BY <1>0, <1>21, <2>2 DEF SleepToPoll, FileOK
  <2>5. left' \in 0..PollInterval
    BY <1>21, ConstantsAssumption DEF SleepToPoll
  <2>6. MemoryOK'
    BY <1>0, <1>21, <2>2, <2>5 DEF SleepToPoll, MemoryOK
  <2>. QED
    BY <1>0, <1>21, <2>3, <2>4, <2>6, Untouched DEF SleepToPoll, TypeInv, TypeOK
<1>22. CASE SleepToDue
  <2>1. due \in Nat /\ due < left /\ left' = left - due /\ left \in 0..PollInterval
    BY <1>0, <1>22 DEF SleepToDue, MemoryOK
  <2>2. outage_started' \in Ages(OutageAlert)
    BY <1>0, <1>22, <2>1, OlderIs, ConstantsAssumption DEF SleepToDue, FileOK
  <2>3. digest_age' \in 0..DigestEvery
    BY <1>0, <1>22, <2>1, ConstantsAssumption DEF SleepToDue, Smaller, MemoryOK
  <2>4. due' \in Nat \cup {None}
    BY <1>22, ConstantsAssumption DEF SleepToDue
  <2>5. left' \in 0..PollInterval
    BY <2>1, ConstantsAssumption
  <2>6. FileOK'
    BY <1>0, <1>22, <2>2 DEF SleepToDue, FileOK
  <2>7. MemoryOK'
    BY <1>0, <1>22, <2>3, <2>4, <2>5 DEF SleepToDue, MemoryOK
  <2>8. RecordOK'
    BY <1>0, <1>22 DEF SleepToDue, RecordOK
  <2>. QED
    BY <1>0, <1>22, <2>6, <2>7, <2>8, Untouched DEF SleepToDue, TypeInv, TypeOK
<1>23. CASE UNCHANGED vars
  BY <1>0, <1>23, Untouched DEF vars, TypeInv, TypeOK
<1>. QED
  BY <1>1, <1>2, <1>3, <1>4, <1>5, <1>6, <1>7, <1>8, <1>9, <1>10, <1>11, <1>12, <1>13,
     <1>14, <1>15, <1>16, <1>17, <1>18, <1>19, <1>20, <1>21, <1>22, <1>23
     DEF Next, Environment, Process

(* Every variable keeps to the values the code gives it, whatever the API, *)
(* the sinks and the crashes do; the retries stay within supervisord's.    *)
THEOREM TypeCorrect == Spec => []TypeOK
<1>1. Init => TypeInv
  BY InitTypes
<1>2. TypeInv /\ [Next]_vars => TypeInv'
  BY StepTypes
<1>3. TypeInv => TypeOK
  BY DEF TypeInv
<1>. QED
  BY <1>1, <1>2, <1>3, PTL DEF Spec

-----------------------------------------------------------------------------
(* The stream *)

Starting == {"boot", "seed", "down", "fatal"}

(* How the cursors relate: nothing is polled before the seed, and within a *)
(* poll the print loop runs from last_id to the highest id fetched.        *)
Cursors ==
  /\ last_id = None <=> seed = None
  /\ last_id = None => pc \in Starting /\ stdout = <<>>
  /\ pc = "seed" => last_id = None
  /\ last_id <= top /\ fetched <= top
  /\ pc \in {"recovered", "clear"} => printed = last_id /\ last_id <= fetched
  /\ pc = "print" => last_id <= printed /\ printed <= fetched
  /\ pc \in {"print", "post", "mail"} => last_id < fetched

StreamInv == TypeInv /\ Cursors

LEMMA InitCursors == Init => Cursors
  BY DEF Init, Cursors, Starting, None

LEMMA ExitIs ==
  ASSUME Exit
  PROVE  /\ pc' \in {"down", "fatal"}
         /\ fetched' = 0
  BY DEF Exit, Fresh

LEMMA StepCursors == StreamInv /\ [Next]_vars => Cursors'
<1>. SUFFICES ASSUME StreamInv, [Next]_vars PROVE Cursors'
  OBVIOUS
<1>0. /\ Cursors
      /\ top \in Nat /\ fetched \in Nat
      /\ last_id \in Nat \cup {None} /\ seed \in Nat \cup {None}
      /\ printed \in Nat \cup {None} /\ None = -1
  BY DEF StreamInv, TypeInv, TypeOK, NetbirdOK, FileOK, MemoryOK, RecordOK, None
<1>. USE <1>0 DEF Cursors, Starting
<1>1. CASE Audit
  BY <1>1 DEF Audit, file, supervisor, memory, record
<1>2. CASE ApiChanges
  BY <1>2 DEF ApiChanges, file, supervisor, memory, record
<1>3. CASE Crash
  BY <1>3, ExitIs DEF Crash, netbird, file
<1>4. CASE Restart
  BY <1>4 DEF Restart, netbird, memory, record
<1>5. CASE BootFails \/ SeedFails \/ PollDenied
  <2>1. Fails
    BY <1>5 DEF BootFails, SeedFails, PollDenied
  <2>2. /\ pc' \in {"down", "fatal"} /\ fetched' = 0
        /\ UNCHANGED <<top, last_id, seed, stdout>>
    BY <2>1, ExitIs DEF Fails, netbird, file
  <2>. QED
    BY <2>2
<1>6. CASE Boot
  BY <1>6 DEF Boot, netbird, file, memory, record
<1>7. CASE Seed
  BY <1>7 DEF Seed, netbird, memory
<1>8. CASE PollFails \/ SaveAlerted
  BY <1>8 DEF PollFails, SaveAlerted, netbird, memory, record
<1>9. CASE SendAlert \/ SendRecovered
  BY <1>9 DEF SendAlert, SendRecovered, netbird, file, memory
<1>10. CASE BackOff
  BY <1>10 DEF BackOff, netbird, record
<1>11. CASE Poll
  BY <1>11 DEF Poll, HandleNew, netbird, file, record
<1>12. CASE ClearOutage
  BY <1>12 DEF ClearOutage, HandleNew, netbird
<1>13. CASE PrintEvent
  <2>1. PICK e \in New : printed < e /\ printed' = e
    BY <1>13 DEF PrintEvent
  <2>. QED
    BY <1>13, <2>1 DEF PrintEvent, New, netbird, file
<1>14. CASE PrintDone
  BY <1>14 DEF PrintDone, netbird, file, memory, record
<1>15. CASE PostEvents
  BY <1>15 DEF PostEvents, netbird, file
<1>16. CASE MailEvent
  BY <1>16 DEF MailEvent, netbird, file
<1>17. CASE Save
  BY <1>17 DEF Save, Cursor, netbird
<1>18. CASE Flush
  BY <1>18 DEF Flush, netbird, file
<1>19. CASE SleepToPoll \/ SleepToDue
  BY <1>19 DEF SleepToPoll, SleepToDue, netbird, record
<1>20. CASE UNCHANGED vars
  BY <1>20 DEF vars, netbird, file, memory, record
<1>. QED
  BY <1>1, <1>2, <1>3, <1>4, <1>5, <1>6, <1>7, <1>8, <1>9, <1>10, <1>11, <1>12, <1>13,
     <1>14, <1>15, <1>16, <1>17, <1>18, <1>19, <1>20 DEF Next, Environment, Process

LEMMA InitImplements == Init => Stream!Init
  BY DEF Init, Stream!Init, Position, Stream!Unseeded, None

(* A step that touches neither the log, the cursors nor the output.        *)
LEMMA Stutters ==
  ASSUME UNCHANGED <<top, seed, last_id, stdout>>, Position' = Position
  PROVE  UNCHANGED Stream!vars
  BY DEF Stream!vars

LEMMA StepImplements == StreamInv /\ [Next]_vars => [Stream!Next]_(Stream!vars)
<1>. SUFFICES ASSUME StreamInv, [Next]_vars PROVE Stream!Next \/ UNCHANGED Stream!vars
  OBVIOUS
<1>0. /\ Cursors
      /\ top \in Nat /\ fetched \in Nat
      /\ last_id \in Nat \cup {None} /\ seed \in Nat \cup {None}
      /\ printed \in Nat \cup {None} /\ None = -1 /\ Stream!Unseeded = -1
  BY DEF StreamInv, TypeInv, TypeOK, NetbirdOK, FileOK, MemoryOK, RecordOK, None,
         Stream!Unseeded
<1>. USE <1>0 DEF Cursors, Starting, Position
<1>1. CASE Audit
  BY <1>1 DEF Audit, file, supervisor, memory, record, Stream!Publish, Stream!Next
<1>2. CASE ApiChanges
  BY <1>2, Stutters DEF ApiChanges, file, supervisor, memory, record
<1>3. CASE Crash \/ BootFails \/ SeedFails \/ PollDenied
  BY <1>3, ExitIs DEF Crash, BootFails, SeedFails, PollDenied, Fails, netbird, file,
                      Stream!Rewind, Stream!Next
<1>4. CASE Restart
  BY <1>4, Stutters DEF Restart, netbird, memory, record
<1>6. CASE Boot
  BY <1>6, Stutters DEF Boot, netbird, file, memory, record
<1>7. CASE Seed
  BY <1>7 DEF Seed, netbird, memory, Stream!Seed, Stream!Next
<1>8. CASE PollFails \/ SaveAlerted
  BY <1>8, Stutters DEF PollFails, SaveAlerted, netbird, memory, record
<1>9. CASE SendAlert \/ SendRecovered
  BY <1>9, Stutters DEF SendAlert, SendRecovered, netbird, file, memory
<1>10. CASE BackOff
  BY <1>10, Stutters DEF BackOff, netbird, record
<1>11. CASE Poll
  BY <1>11, Stutters DEF Poll, HandleNew, netbird, file, record
<1>12. CASE ClearOutage
  BY <1>12, Stutters DEF ClearOutage, HandleNew, netbird
<1>13. CASE PrintEvent
  <2>1. PICK e \in New \cap StdoutAllow :
          /\ printed < e
          /\ \A x \in New \cap StdoutAllow : x <= printed \/ e <= x
          /\ stdout' = Append(stdout, e)
          /\ printed' = e
    BY <1>13 DEF PrintEvent
  <2>2. /\ pc = "print" /\ pc' = "print"
        /\ UNCHANGED <<top, last_id, seed>>
    BY <1>13 DEF PrintEvent, netbird, file
  <2>3. \A x \in StdoutAllow : x <= printed \/ e <= x
    BY <2>1, <2>2, ConstantsAssumption DEF New
  <2>4. e <= top
    BY <2>1 DEF New
  <2>. QED
    <3>1. Stream!Ids = StdoutAllow
      BY ConstantsAssumption DEF Stream!Ids
    <3>. QED
      BY <2>1, <2>2, <2>3, <2>4, <3>1 DEF Stream!Emit, Stream!Next
<1>14. CASE PrintDone
  <2>1. /\ pc = "print" /\ pc' = "post"
        /\ UNCHANGED <<top, last_id, seed, stdout, fetched>>
        /\ \A x \in New \cap StdoutAllow : x <= printed
    BY <1>14 DEF PrintDone, netbird, file, memory, record
  <2>2. \A x \in StdoutAllow : x <= printed \/ fetched < x
    BY <2>1, ConstantsAssumption DEF New
  <2>3. CASE printed = fetched
    BY <2>1, <2>3, Stutters
  <2>4. CASE printed # fetched
    BY <2>1, <2>2, <2>4 DEF Stream!Skip, Stream!Ids, Stream!Next
  <2>. QED
    BY <2>3, <2>4
<1>15. CASE PostEvents
  BY <1>15, Stutters DEF PostEvents, netbird, file
<1>16. CASE MailEvent
  BY <1>16, Stutters DEF MailEvent, netbird, file
<1>17. CASE Save
  BY <1>17 DEF Save, Cursor, netbird, Stream!Commit, Stream!Next
<1>18. CASE Flush
  BY <1>18, Stutters DEF Flush, netbird, file
<1>19. CASE SleepToPoll \/ SleepToDue
  BY <1>19, Stutters DEF SleepToPoll, SleepToDue, netbird, record
<1>20. CASE UNCHANGED vars
  BY <1>20, Stutters DEF vars, netbird, file, memory, record
<1>. QED
  BY <1>1, <1>2, <1>3, <1>4, <1>6, <1>7, <1>8, <1>9, <1>10, <1>11, <1>12, <1>13,
     <1>14, <1>15, <1>16, <1>17, <1>18, <1>19, <1>20 DEF Next, Environment, Process

(* Printing implements the at-least-once stream, over any number of events *)
(* crashes, exits and restarts, whatever supervisord does.                 *)
THEOREM StreamImplemented == Spec => ImplementsStream
<1>1. Init => StreamInv /\ Stream!Init
  BY InitTypes, InitCursors, InitImplements DEF StreamInv
<1>2. StreamInv /\ [Next]_vars => StreamInv' /\ [Stream!Next]_(Stream!vars)
  BY StepTypes, StepCursors, StepImplements DEF StreamInv
<1>. QED
  BY <1>1, <1>2, PTL DEF Spec, ImplementsStream, Stream!Spec

-----------------------------------------------------------------------------
(* No loss *)

(* What the sinks have seen within a poll. Behind last_id everything is    *)
(* accounted for; once the poll is posted, so is what it fetched, and the  *)
(* mail loop has dealt with the events up to mailed.                       *)
Accounted ==
  /\ MattermostOn => \A e \in MattermostAllow :
       seed # None /\ seed < e /\ e <= (IF pc = "mail" THEN fetched ELSE last_id)
         => e \in Booking(mattermost)
  /\ EmailMode = "immediate" =>
       /\ \A e \in EmailAllow :
            seed # None /\ seed < e /\ e <= last_id => e \in Booking(mail)
       /\ pc = "mail" => \A e \in ToMail : e <= mailed => e \in Booking(mail)

(* Steps that leave the sinks and last_id alone.                           *)
LEMMA Unbooked ==
  ASSUME StreamInv, Accounted, UNCHANGED <<seed, last_id, mattermost, mail>>,
         pc' # "mail" \/ UNCHANGED <<pc, fetched, mailed>>
  PROVE  Accounted'
<1>0. /\ fetched \in Nat /\ last_id \in Int
      /\ pc = "mail" => last_id < fetched
  BY DEF StreamInv, TypeInv, TypeOK, FileOK, MemoryOK, Cursors, None
<1>1. CASE pc' # "mail"
  <2>1. Booking(mattermost)' = Booking(mattermost) /\ Booking(mail)' = Booking(mail)
    BY DEF Booking
  <2>2. \A e \in Nat : e <= last_id => e <= (IF pc = "mail" THEN fetched ELSE last_id)
    BY <1>0
  <2>. QED
    BY <1>1, <2>1, <2>2, ConstantsAssumption DEF Accounted
<1>2. CASE pc' = "mail" /\ UNCHANGED <<pc, fetched, mailed>>
  <2>1. ToMail' = ToMail
    BY <1>2 DEF ToMail, New, Capped
  <2>. QED
    BY <1>2, <2>1 DEF Accounted, Booking
<1>. QED
  BY <1>1, <1>2

LEMMA PostAccounts ==
  ASSUME StreamInv, Accounted, PostEvents
  PROVE  Accounted'
<1>. DEFINE ids == New \cap MattermostAllow
            kept == Capped(ids)
            posts == MattermostOn /\ kept # {}
            capped == [mattermost EXCEPT !.capped = @ \cup (ids \ kept),
                                         !.post = IF posts THEN kept ELSE @]
<1>1. PICK s \in Sends :
        mattermost' = IF posts THEN Booked(capped, kept, s) ELSE capped
  BY DEF PostEvents
<1>2. /\ pc = "post" /\ pc' = "mail"
      /\ mailed' = last_id
      /\ UNCHANGED <<seed, last_id, fetched, mail>>
  BY DEF PostEvents, file
<1>3. FileOK /\ MemoryOK /\ mattermost \in Sinks /\ last_id < fetched
  BY <1>2 DEF StreamInv, TypeInv, TypeOK, RecordOK, Cursors
<1>4. kept \subseteq ids /\ ids \subseteq Nat
  BY <1>3, CappedIs, NewIs
<1>5. /\ capped \in Sinks
      /\ Booking(capped) = Booking(mattermost) \cup (ids \ kept)
  BY <1>3, <1>4 DEF Sinks, Booking
<1>6. MattermostOn => Booking(mattermost') = Booking(mattermost) \cup ids
  <2>1. kept \in SUBSET Nat
    BY <1>4
  <2>. HIDE DEF capped, ids
  <2>2. CASE kept = {}
    <3>. QED
      BY <1>1, <1>5, <2>2
  <2>3. CASE MattermostOn /\ kept # {}
    <3>. HIDE DEF kept
    <3>1. mattermost' = Booked(capped, kept, s)
      BY <1>1, <2>3
    <3>2. Booking(mattermost') = Booking(capped) \cup kept
      BY <3>1, <2>1, <1>5, BookedIs
    <3>. QED
      BY <3>2, <1>4, <1>5
  <2>. QED
    BY <2>2, <2>3
<1>. HIDE DEF kept, capped
<1>7. \A e \in MattermostAllow : e <= fetched => e <= last_id \/ e \in ids
  BY <1>3, ConstantsAssumption DEF New, FileOK, MemoryOK, None
<1>8. ToMail' = ToMail /\ \A e \in ToMail : ~(e <= last_id)
  <2>1. ToMail' = ToMail
    BY <1>2 DEF ToMail, New, Capped
  <2>2. ToMail \subseteq New
    BY CappedIs DEF ToMail
  <2>. QED
    BY <1>3, <2>1, <2>2 DEF New, FileOK, MemoryOK, None
<1>9. MattermostOn' => \A e \in MattermostAllow :
        seed' # None /\ seed' < e /\ e <= fetched' => e \in Booking(mattermost)'
  BY <1>2, <1>6, <1>7 DEF Accounted, Booking
<1>10. EmailMode = "immediate" => \A e \in EmailAllow :
        seed' # None /\ seed' < e /\ e <= last_id' => e \in Booking(mail)'
  BY <1>2 DEF Accounted, Booking
<1>. QED
  BY <1>2, <1>8, <1>9, <1>10 DEF Accounted

LEMMA MailAccounts ==
  ASSUME StreamInv, Accounted, MailEvent
  PROVE  Accounted'
<1>1. PICK e \in ToMail :
        /\ mailed < e
        /\ \A x \in ToMail : x <= mailed \/ e <= x
        /\ mailed' = e
        /\ IF EmailMode = "immediate"
           THEN \E s \in Sends : mail' = Booked(mail, {e}, s)
           ELSE UNCHANGED mail
  BY DEF MailEvent
<1>2. pc = "mail" /\ UNCHANGED <<pc, seed, last_id, fetched, mattermost>>
  BY DEF MailEvent, file
<1>3. ToMail' = ToMail
  BY <1>2 DEF ToMail, New, Capped
<1>4. /\ mail \in Sinks /\ ToMail \subseteq Nat
      /\ mailed \in Nat \cup {None}
  BY NewIs, CappedIs DEF StreamInv, TypeInv, TypeOK, RecordOK, MemoryOK, ToMail
<1>5. EmailMode = "immediate" => Booking(mail') = Booking(mail) \cup {e}
  <2>1. ASSUME NEW s \in Sends, mail' = Booked(mail, {e}, s)
        PROVE  Booking(mail') = Booking(mail) \cup {e}
    <3>1. {e} \in SUBSET Nat
      BY <1>4
    <3>. QED
      BY <1>4, <2>1, <3>1, BookedIs
  <2>. QED
    BY <1>1, <2>1
<1>6. \A x \in ToMail : x <= e => x <= mailed \/ x = e
  BY <1>1, <1>4
<1>. QED
  BY <1>1, <1>2, <1>3, <1>5, <1>6 DEF Accounted, Booking

LEMMA SaveAccounts ==
  ASSUME StreamInv, Accounted, Save
  PROVE  Accounted'
<1>1. /\ pc = "mail" /\ pc' = "flush"
      /\ last_id' = fetched /\ UNCHANGED <<seed, mattermost>>
      /\ mail' = [mail EXCEPT !.capped = @ \cup ((New \cap EmailAllow) \ ToMail)]
      /\ EmailMode = "immediate" => \A x \in ToMail : x <= mailed
  BY DEF Save, Cursor
<1>2. mail \in Sinks /\ FileOK /\ MemoryOK
  BY DEF StreamInv, TypeInv, TypeOK, RecordOK
<1>3. Booking(mail') = Booking(mail) \cup ((New \cap EmailAllow) \ ToMail)
  BY <1>1, <1>2 DEF Sinks, Booking
<1>4. \A e \in EmailAllow : e <= fetched => e <= last_id \/ e \in New
  BY <1>2, ConstantsAssumption DEF New, FileOK, MemoryOK, None
<1>. QED
  BY <1>1, <1>3, <1>4 DEF Accounted, Booking

LEMMA StepAccounted == StreamInv /\ Accounted /\ [Next]_vars => Accounted'
<1>. SUFFICES ASSUME StreamInv, Accounted, [Next]_vars PROVE Accounted'
  OBVIOUS
<1>1. CASE PostEvents
  BY <1>1, PostAccounts
<1>2. CASE MailEvent
  BY <1>2, MailAccounts
<1>3. CASE Save
  BY <1>3, SaveAccounts
<1>4. CASE Seed
  <2>1. /\ seed' = top /\ last_id' = top /\ pc' = "fetch" /\ top \in Nat
    BY <1>4 DEF Seed, StreamInv, TypeInv, TypeOK, NetbirdOK
  <2>. QED
    BY <2>1, ConstantsAssumption DEF Accounted
<1>5. CASE Flush
  <2>1. /\ pc = "flush" /\ pc' = "wait"
        /\ UNCHANGED <<seed, last_id, mattermost>>
        /\ EmailMode = "immediate" => UNCHANGED mail
    BY <1>5 DEF Flush, file
  <2>. QED
    BY <2>1 DEF Accounted, Booking
<1>6. CASE Audit \/ ApiChanges \/ UNCHANGED vars
  BY <1>6, Unbooked DEF Audit, ApiChanges, vars, file, memory, record
<1>7. CASE Crash \/ BootFails \/ SeedFails \/ PollDenied
  BY <1>7, ExitIs, Unbooked DEF Crash, BootFails, SeedFails, PollDenied, Fails, file
<1>8. CASE Restart \/ Boot \/ PollFails \/ SendAlert \/ SaveAlerted \/ BackOff
  BY <1>8, Unbooked DEF Restart, Boot, PollFails, SendAlert, SaveAlerted, BackOff,
                        file, record
<1>9. CASE Poll \/ SendRecovered \/ ClearOutage \/ PrintEvent \/ PrintDone
  BY <1>9, Unbooked DEF Poll, SendRecovered, ClearOutage, HandleNew, PrintEvent,
                        PrintDone, file, record
<1>10. CASE SleepToPoll \/ SleepToDue
  BY <1>10, Unbooked DEF SleepToPoll, SleepToDue, record
<1>. QED
  BY <1>1, <1>2, <1>3, <1>4, <1>5, <1>6, <1>7, <1>8, <1>9, <1>10
     DEF Next, Environment, Process

-----------------------------------------------------------------------------
(* The promises of the abstract stream hold of the lines printed.          *)

Promise == INSTANCE AuditStreamProofs WITH
  Passes <- StdoutAllow, published <- top, committed <- last_id,
  position <- Position, emitted <- stdout

LEMMA LinesInOrder == Spec => []Promise!StreamInv
<1>1. Stream!Init <=> Promise!Init
  BY DEF Stream!Init, Promise!Init, Stream!Unseeded, Promise!Unseeded
<1>2. [Stream!Next]_(Stream!vars) <=> [Promise!Next]_(Promise!vars)
  BY DEF Stream!Next, Stream!vars, Stream!Publish, Stream!Seed, Stream!Emit,
         Stream!Skip, Stream!Commit, Stream!Rewind, Stream!Unseeded,
         Stream!Ids, Promise!Ids, Promise!Next, Promise!vars, Promise!Publish,
         Promise!Seed, Promise!Emit,
         Promise!Skip, Promise!Commit, Promise!Rewind, Promise!Unseeded
<1>4. Promise!Spec => []Promise!StreamInv
  BY Promise!StreamPromise
<1>. QED
  BY <1>1, <1>2, <1>4, StreamImplemented, PTL
     DEF ImplementsStream, Stream!Spec, Promise!Spec

(* No event vanishes: what lies between the seed and the saved last_id was *)
(* printed, and posted and mailed, or failed in a send, or capped away.    *)
THEOREM NoEventVanishes == Spec => []NothingVanishes
<1>1. Init => StreamInv /\ Accounted
  <2>1. Init => Accounted
    BY DEF Init, Accounted
  <2>. QED
    BY <2>1, InitTypes, InitCursors DEF StreamInv
<1>2. StreamInv /\ Accounted /\ [Next]_vars => (StreamInv /\ Accounted)'
  BY StepTypes, StepCursors, StepAccounted DEF StreamInv
<1>3. StreamInv /\ Accounted /\ Promise!StreamInv => NothingVanishes
  <2>. SUFFICES ASSUME StreamInv, Accounted, Promise!StreamInv,
                       NEW e \in 1..MaxEvents, seed # None, seed < e, e <= last_id
                PROVE  /\ e \in StdoutAllow => e \in Printed
                       /\ e \in MattermostAllow /\ MattermostOn =>
                            e \in mattermost.got \cup mattermost.failed \cup mattermost.capped
                       /\ e \in EmailAllow /\ EmailMode = "immediate" =>
                            e \in mail.got \cup mail.failed \cup mail.capped
    BY DEF NothingVanishes
  <2>1. /\ fetched \in Nat /\ last_id \in Int /\ printed \in Int
        /\ last_id <= Position
        /\ pc = "mail" => last_id < fetched
    BY DEF StreamInv, TypeInv, TypeOK, FileOK, MemoryOK, Cursors, None, Position
  <2>2. e \in StdoutAllow => e \in Printed
    <3>1. Position \in Int /\ e \in Int
      BY <2>1, ConstantsAssumption DEF Position
    <3>2. e <= Position
      BY <2>1, <3>1
    <3>. QED
      BY <3>2 DEF Promise!StreamInv, Promise!NoLoss, Promise!Ids, Promise!Emitted, Promise!Unseeded,
                  Printed, None
  <2>3. e <= (IF pc = "mail" THEN fetched ELSE last_id)
    BY <2>1, ConstantsAssumption
  <2>. QED
    BY <2>2, <2>3 DEF Accounted, Booking
<1>. QED
  BY <1>1, <1>2, <1>3, LinesInOrder, PTL DEF Spec

-----------------------------------------------------------------------------
(* Outages *)

Failing == {"alert", "alerted", "backoff"}
Working == {"print", "post", "mail", "flush", "wait"}

(* Where the process stands tells whether the file knows of an outage.     *)
OutageKnown ==
  /\ pc \in Failing \cup {"recovered", "clear"} => outage_started # None
  /\ pc \in Working => outage_started = None

(* Without an outage every wait is one poll interval long.                 *)
Calm == outage_started = None => current_backoff = PollInterval

OutageInv == TypeInv /\ OutageKnown /\ Calm

LEMMA OlderNone ==
  ASSUME NEW limit \in Nat, NEW age \in Ages(limit), NEW d \in Nat
  PROVE  Older(age, d, limit) = None <=> age = None
  BY DEF Older, Ages, Smaller, None

LEMMA InitOutage == Init => OutageKnown /\ Calm
  BY DEF Init, OutageKnown, Calm, Failing, Working, None

LEMMA StepOutage == OutageInv /\ [Next]_vars => (OutageKnown /\ Calm)'
<1>. SUFFICES ASSUME OutageInv, [Next]_vars PROVE OutageKnown' /\ Calm'
  BY DEF OutageKnown, Calm
<1>0. /\ OutageKnown /\ Calm
      /\ outage_started \in Ages(OutageAlert)
      /\ FileOK /\ MemoryOK
  BY DEF OutageInv, TypeInv, TypeOK, FileOK
<1>. USE <1>0 DEF OutageKnown, Calm, Failing, Working
<1>1. CASE Audit \/ ApiChanges
  BY <1>1 DEF Audit, ApiChanges, file, memory
<1>2. CASE Crash \/ BootFails \/ SeedFails \/ PollDenied
  BY <1>2, ExitIs DEF Crash, BootFails, SeedFails, PollDenied, Fails, Exit, Fresh, file
<1>3. CASE Restart
  <2>1. PICK d \in {0, PollInterval} : outage_started' = Older(outage_started, d, OutageAlert)
    BY <1>3 DEF Restart
  <2>2. outage_started' = None <=> outage_started = None
    BY <2>1, OlderNone, ConstantsAssumption
  <2>. QED
    BY <1>3, <2>2 DEF Restart, memory
<1>4. CASE Boot
  BY <1>4 DEF Boot, file, memory
<1>5. CASE Seed
  BY <1>5 DEF Seed, memory
<1>6. CASE PollFails
  BY <1>6 DEF PollFails, OutageSince, memory, None
<1>7. CASE SendAlert \/ SendRecovered
  BY <1>7 DEF SendAlert, SendRecovered, file, memory
<1>8. CASE SaveAlerted
  BY <1>8 DEF SaveAlerted, memory
<1>9. CASE BackOff
  <2>1. outage_started # None /\ current_backoff \in Nat
    BY <1>9 DEF BackOff, MemoryOK
  <2>2. outage_started' # None
    BY <1>9, <2>1, OlderNone, ConstantsAssumption DEF BackOff, TimePasses
  <2>. QED
    BY <1>9, <2>2 DEF BackOff
<1>10. CASE Poll
  BY <1>10 DEF Poll, HandleNew, file
<1>11. CASE ClearOutage
  BY <1>11 DEF ClearOutage, HandleNew, BackoffAfterOutage
<1>12. CASE PrintEvent
  BY <1>12 DEF PrintEvent, file
<1>13. CASE PrintDone
  BY <1>13 DEF PrintDone, file, memory
<1>14. CASE PostEvents
  BY <1>14 DEF PostEvents, file
<1>15. CASE MailEvent
  BY <1>15 DEF MailEvent, file
<1>16. CASE Save
  BY <1>16 DEF Save
<1>17. CASE Flush
  BY <1>17 DEF Flush, file
<1>18. CASE SleepToPoll
  BY <1>18 DEF SleepToPoll, TimePasses, Older
<1>19. CASE SleepToDue
  BY <1>19 DEF SleepToDue, Older
<1>20. CASE UNCHANGED vars
  BY <1>20 DEF vars, file, memory
<1>. QED
  BY <1>1, <1>2, <1>3, <1>4, <1>5, <1>6, <1>7, <1>8, <1>9, <1>10, <1>11, <1>12, <1>13,
     <1>14, <1>15, <1>16, <1>17, <1>18, <1>19, <1>20 DEF Next, Environment, Process

LEMMA Outage == Spec => []OutageInv
<1>1. Init => OutageInv
  BY InitTypes, InitOutage DEF OutageInv
<1>2. OutageInv /\ [Next]_vars => OutageInv'
  BY StepTypes, StepOutage DEF OutageInv
<1>. QED
  BY <1>1, <1>2, PTL DEF Spec

(* The backoff of one outage never delays the polls after it, whatever the *)
(* intervals, the cap and the deaths of the process in between.            *)
THEOREM BackoffIsReset == Spec => []CalmBackoff
<1>1. OutageInv => CalmBackoff
  BY DEF OutageInv, Calm, CalmBackoff
<1>. QED
  BY <1>1, Outage, PTL

-----------------------------------------------------------------------------
(* Alerts *)

(* An alert is posted at most once more than the process has died: a death *)
(* between the post and the save is what makes it be posted again.         *)
Alerting ==
  /\ alerts.posted <= 1 + crashes
  /\ ~outage_alerted /\ pc # "alerted" => alerts.posted <= crashes
  /\ pc \in {"alert", "alerted"} => ~outage_alerted
  /\ pc = "alerted" \/ outage_alerted \/ alerts.recoveries > 0 => alerts.posted > 0
  /\ outage_alerted => outage_started # None
  /\ pc = "recovered" => outage_alerted

LEMMA InitAlerting == Init => Alerting
  BY DEF Init, Alerting, NoAlerts, None

LEMMA StepAlerting == OutageInv /\ Alerting /\ [Next]_vars => Alerting'
<1>. SUFFICES ASSUME OutageInv, Alerting, [Next]_vars PROVE Alerting'
  OBVIOUS
<1>0. /\ Alerting /\ OutageKnown
      /\ outage_started \in Ages(OutageAlert) /\ outage_alerted \in BOOLEAN
      /\ alerts.posted \in Nat /\ alerts.recoveries \in Nat /\ crashes \in Nat
      /\ alerts \in AlertCounts
      /\ FileOK /\ MemoryOK
  BY ConstantsAssumption
     DEF OutageInv, TypeInv, TypeOK, FileOK, RecordOK, AlertCounts
<1>. USE <1>0 DEF Alerting
<1>1. CASE Audit \/ ApiChanges
  BY <1>1 DEF Audit, ApiChanges, file, memory, record
<1>2. CASE Crash
  <2>1. /\ crashes' = crashes + 1 /\ pc' \in {"down", "fatal"}
        /\ UNCHANGED <<outage_started, outage_alerted, alerts>>
    BY <1>2, ExitIs DEF Crash, file
  <2>. QED
    BY <2>1
<1>3. CASE BootFails \/ SeedFails \/ PollDenied
  <2>1. /\ pc' \in {"down", "fatal"} /\ pc \in {"boot", "seed", "fetch"}
        /\ UNCHANGED <<outage_started, outage_alerted, alerts, crashes>>
    BY <1>3, ExitIs DEF BootFails, SeedFails, PollDenied, Fails, file
  <2>. QED
    BY <2>1
<1>4. CASE Restart
  <2>1. PICK d \in {0, PollInterval} : outage_started' = Older(outage_started, d, OutageAlert)
    BY <1>4 DEF Restart
  <2>2. outage_started' = None <=> outage_started = None
    BY <2>1, OlderNone, ConstantsAssumption
  <2>. QED
    BY <1>4, <2>2 DEF Restart, memory, record
<1>5. CASE Boot
  BY <1>5 DEF Boot, file, record
<1>6. CASE Seed
  BY <1>6 DEF Seed
<1>7. CASE PollFails
  BY <1>7 DEF PollFails, OutageSince, AlertDue, record, None
<1>8. CASE SendAlert
  <2>1. /\ alerts'.posted = alerts.posted + 1
        /\ alerts'.recoveries = alerts.recoveries
    BY <1>8 DEF SendAlert, AlertCounts
  <2>. QED
    BY <1>8, <2>1 DEF SendAlert, file
<1>9. CASE SaveAlerted
  BY <1>9 DEF SaveAlerted, record, OutageKnown, Failing
<1>10. CASE BackOff
  <2>1. outage_started # None /\ current_backoff \in Nat
    BY <1>10 DEF BackOff, MemoryOK, OutageKnown, Failing
  <2>2. outage_started' # None
    BY <1>10, <2>1, OlderNone, ConstantsAssumption DEF BackOff, TimePasses
  <2>. QED
    BY <1>10, <2>2 DEF BackOff, record
<1>11. CASE Poll
  BY <1>11 DEF Poll, HandleNew, file, record
<1>12. CASE SendRecovered
  <2>1. /\ alerts'.posted = alerts.posted
        /\ alerts'.recoveries = alerts.recoveries + 1
    BY <1>12 DEF SendRecovered, AlertCounts
  <2>. QED
    BY <1>12, <2>1 DEF SendRecovered, file
<1>13. CASE ClearOutage
  BY <1>13 DEF ClearOutage, HandleNew, NoAlerts
<1>14. CASE PrintEvent
  BY <1>14 DEF PrintEvent, file
<1>15. CASE PrintDone
  BY <1>15 DEF PrintDone, file, record
<1>16. CASE PostEvents
  BY <1>16 DEF PostEvents, file
<1>17. CASE MailEvent
  BY <1>17 DEF MailEvent, file
<1>18. CASE Save
  BY <1>18 DEF Save
<1>19. CASE Flush
  BY <1>19 DEF Flush, file
<1>20. CASE SleepToPoll
  <2>1. outage_started = None
    BY <1>20 DEF SleepToPoll, OutageKnown, Working
  <2>. QED
    BY <1>20, <2>1 DEF SleepToPoll, record
<1>21. CASE SleepToDue
  <2>1. outage_started = None
    BY <1>21 DEF SleepToDue, OutageKnown, Working
  <2>. QED
    BY <1>21, <2>1 DEF SleepToDue
<1>22. CASE UNCHANGED vars
  BY <1>22 DEF vars, file, record
<1>. QED
  BY <1>1, <1>2, <1>3, <1>4, <1>5, <1>6, <1>7, <1>8, <1>9, <1>10, <1>11, <1>12, <1>13,
     <1>14, <1>15, <1>16, <1>17, <1>18, <1>19, <1>20, <1>21, <1>22
     DEF Next, Environment, Process

(* One unreachable alert per outage and one more at most for every death   *)
(* of the process, and a recovery only after an alert, however long the    *)
(* outage is and however often the process is restarted in it.             *)
THEOREM AlertsAreCounted == Spec => []AlertsPerOutage
<1>1. Init => Alerting
  BY InitAlerting
<1>2. OutageInv /\ Alerting /\ [Next]_vars => Alerting'
  BY StepAlerting
<1>3. Alerting => AlertsPerOutage
  BY DEF Alerting, AlertsPerOutage
<1>. QED
  BY <1>1, <1>2, <1>3, Outage, PTL DEF Spec

-----------------------------------------------------------------------------
(* The heartbeat *)

(* Until the process dies for the first time, a beat that says the last    *)
(* poll worked is only ever left standing in an outage that no wait has    *)
(* been through yet.                                                       *)
Beating ==
  /\ beat.last_id <= last_id \/ beat.last_id = 0
  /\ outage_started # None /\ crashes = 0 /\ beat.ok => pc \in Failing

LEMMA InitBeating == Init => Beating
  BY DEF Init, Beating

LEMMA BeatSays ==
  ASSUME NEW ok, Beat(ok)
  PROVE  beat'.ok = ok /\ (beat'.last_id = last_id' \/ beat'.last_id = 0)
  BY DEF Beat

(* A beat written now names the last_id of the file.                       *)
LEMMA BeatIsHonest ==
  ASSUME NEW ok, Beat(ok), last_id' \in Int,
         ok = FALSE \/ outage_started' = None
  PROVE  Beating'
<1>1. beat'.ok = ok /\ (beat'.last_id = last_id' \/ beat'.last_id = 0)
  BY BeatSays
<1>2. beat'.last_id <= last_id' \/ beat'.last_id = 0
  BY <1>1
<1>3. outage_started' # None /\ beat'.ok => FALSE
  BY <1>1, Zenon
<1>. QED
  BY <1>2, <1>3, Zenon DEF Beating

LEMMA StepBeating == StreamInv /\ OutageInv /\ Beating /\ [Next]_vars => Beating'
<1>. SUFFICES ASSUME StreamInv, OutageInv, Beating, [Next]_vars PROVE Beating'
  OBVIOUS
<1>0. /\ Beating /\ OutageKnown /\ Cursors
      /\ outage_started \in Ages(OutageAlert)
      /\ crashes \in Nat /\ top \in Nat /\ fetched \in Nat /\ beat.last_id \in Nat
      /\ last_id \in Nat \cup {None} /\ None = -1
      /\ FileOK /\ MemoryOK
  BY ConstantsAssumption
     DEF StreamInv, OutageInv, TypeInv, TypeOK, FileOK, MemoryOK, NetbirdOK, RecordOK,
         ProcessOK, Beats, None
<1>. USE <1>0
<1>1. CASE Audit \/ ApiChanges
  BY <1>1 DEF Beating, Audit, ApiChanges, file, memory, record
<1>2. CASE Crash
  <2>1. crashes' # 0 /\ UNCHANGED <<last_id, beat>>
    BY <1>2 DEF Crash, file
  <2>. QED
    BY <2>1 DEF Beating
<1>3. CASE BootFails \/ SeedFails \/ PollDenied
  <2>1. Beat(FALSE) /\ last_id' = last_id
    BY <1>3 DEF BootFails, SeedFails, PollDenied, Fails, file
  <2>2. last_id' \in Int
    BY <2>1
  <2>. QED
    BY <2>1, <2>2, BeatIsHonest, Zenon
<1>4. CASE Restart
  <2>1. PICK d \in {0, PollInterval} : outage_started' = Older(outage_started, d, OutageAlert)
    BY <1>4 DEF Beating, Restart
  <2>2. outage_started' = None <=> outage_started = None
    BY <2>1, OlderNone, ConstantsAssumption
  <2>. QED
    BY <1>4, <2>2 DEF Beating, Restart, Failing, record
<1>5. CASE Boot
  BY <1>5 DEF Beating, Boot, Failing, file, record
<1>6. CASE Seed
  BY <1>6 DEF Beating, Seed, Failing, Cursors
<1>7. CASE PollFails
  BY <1>7 DEF Beating, PollFails, Failing, record
<1>8. CASE SendAlert
  BY <1>8 DEF Beating, SendAlert, Failing, file
<1>9. CASE SaveAlerted
  BY <1>9 DEF Beating, SaveAlerted, Failing, record
<1>10. CASE BackOff
  <2>1. Beat(FALSE) /\ last_id' = last_id
    BY <1>10 DEF BackOff
  <2>2. last_id' \in Int
    BY <2>1
  <2>. QED
    BY <2>1, <2>2, BeatIsHonest, Zenon
<1>11. CASE Poll
  BY <1>11 DEF Beating, Poll, HandleNew, Failing, file, record
<1>12. CASE SendRecovered
  BY <1>12 DEF Beating, SendRecovered, Failing, file
<1>13. CASE ClearOutage
  BY <1>13 DEF Beating, ClearOutage
<1>14. CASE PrintEvent \/ PrintDone
  BY <1>14 DEF Beating, PrintEvent, PrintDone, OutageKnown, Working, file
<1>15. CASE PostEvents
  BY <1>15 DEF Beating, PostEvents, OutageKnown, Working, file
<1>16. CASE MailEvent
  BY <1>16 DEF Beating, MailEvent, OutageKnown, Working, file
<1>17. CASE Save
  BY <1>17 DEF Beating, Save, Cursor, Cursors, OutageKnown, Working
<1>18. CASE Flush
  <2>1. Beat(TRUE) /\ outage_started' = None /\ last_id' = last_id
    BY <1>18 DEF Flush, OutageKnown, Working, file
  <2>2. last_id' \in Int
    BY <2>1
  <2>. QED
    BY <2>1, <2>2, BeatIsHonest, Zenon
<1>19. CASE SleepToPoll
  BY <1>19 DEF Beating, SleepToPoll, TimePasses, Older, OutageKnown, Working
<1>20. CASE SleepToDue
  BY <1>20 DEF Beating, SleepToDue, Older, OutageKnown, Working
<1>21. CASE UNCHANGED vars
  BY <1>21 DEF Beating, vars, file, record
<1>. QED
  BY <1>1, <1>2, <1>3, <1>4, <1>5, <1>6, <1>7, <1>8, <1>9, <1>10, <1>11, <1>12, <1>13,
     <1>14, <1>15, <1>16, <1>17, <1>18, <1>19, <1>20, <1>21
     DEF Next, Environment, Process

LEMMA Positioned == Spec => []StreamInv
<1>1. Init => StreamInv
  BY InitTypes, InitCursors DEF StreamInv
<1>2. StreamInv /\ [Next]_vars => StreamInv'
  BY StepTypes, StepCursors DEF StreamInv
<1>. QED
  BY <1>1, <1>2, PTL DEF Spec

(* The Jobs page is never told of a last_id that state.json does not hold, *)
(* nor of a working poll in an outage the process has slept through.       *)
THEOREM BeatsAreHonest == Spec => []HeartbeatHonest
<1>1. Init => Beating
  BY InitBeating
<1>2. StreamInv /\ OutageInv /\ Beating /\ [Next]_vars => Beating'
  BY StepBeating
<1>3. Beating => HeartbeatHonest
  BY DEF Beating, HeartbeatHonest, Failing
<1>. QED
  BY <1>1, <1>2, <1>3, Outage, Positioned, PTL DEF Spec

-----------------------------------------------------------------------------
(* The catch-up cap *)

(* The smaller-than relation of the naturals, as WFMin wants it.           *)
Earlier == OpToRel(<, Nat)

LEMMA EarlierWellFounded == IsWellFoundedOn(Earlier, Nat)
  BY NatLessThanWellFounded, Zenon DEF OpToRel, Earlier

LEMMA Lowest ==
  ASSUME NEW ids \in SUBSET Nat, ids # {}
  PROVE  \E e \in ids : \A x \in ids : e <= x
<1>1. PICK e \in ids : \A x \in ids : ~ (<<x, e>> \in Earlier)
  BY EarlierWellFounded, WFMin, Zenon
<1>2. \A x \in ids : x \in Nat /\ e \in Nat
  OBVIOUS
<1>3. \A x \in ids : ~ (x < e)
  BY <1>1, <1>2 DEF Earlier, OpToRel
<1>. QED
  BY <1>2, <1>3

(* What the cap keeps is as many events as it says: all but the lowest of  *)
(* them are above the lowest, which has fewer than MAX_CATCHUP above it.   *)
LEMMA CappedSize ==
  ASSUME NEW ids \in SUBSET Nat, IsFiniteSet(ids), MaxCatchup > 0
  PROVE  Cardinality(Capped(ids)) <= MaxCatchup
<1>1. CASE Cardinality(ids) <= MaxCatchup
  BY <1>1 DEF Capped
<1>2. CASE Capped(ids) = {}
  BY <1>2, FS_EmptySet, ConstantsAssumption
<1>3. CASE ~(Cardinality(ids) <= MaxCatchup) /\ Capped(ids) # {}
  <2>. DEFINE Above(e) == {x \in ids : x > e}
  <2>1. Capped(ids) = {e \in ids : Cardinality(Above(e)) < MaxCatchup}
    BY <1>3, ConstantsAssumption DEF Capped
  <2>2. PICK e \in Capped(ids) : \A x \in Capped(ids) : e <= x
    <3>1. Capped(ids) \in SUBSET Nat
      BY <2>1
    <3>. QED
      BY <1>3, <3>1, Lowest
  <2>3. e \in Nat /\ Capped(ids) \subseteq Above(e) \cup {e}
    <3>1. Capped(ids) \subseteq ids /\ e \in ids
      BY <2>2, CappedIs
    <3>2. ASSUME NEW x \in Capped(ids), x # e PROVE x \in ids /\ x > e
      BY <2>2, <3>1, <3>2
    <3>. QED
      BY <3>1, <3>2
  <2>4. IsFiniteSet(Above(e)) /\ Cardinality(Above(e)) < MaxCatchup
    BY <2>1, <2>2, FS_Subset
  <2>5. e \notin Above(e)
    BY <2>3
  <2>. HIDE DEF Above
  <2>6. /\ IsFiniteSet(Above(e) \cup {e})
        /\ Cardinality(Above(e) \cup {e}) = Cardinality(Above(e)) + 1
    BY <2>4, <2>5, FS_AddElement
  <2>7. Cardinality(Above(e)) \in Nat
    BY <2>4, FS_CardinalityType
  <2>8. /\ Cardinality(Capped(ids)) \in Nat
        /\ Cardinality(Capped(ids)) <= Cardinality(Above(e) \cup {e})
    BY <2>3, <2>6, FS_Subset, FS_CardinalityType
  <2>. QED
    BY <2>4, <2>6, <2>7, <2>8, ConstantsAssumption
<1>. QED
  BY <1>1, <1>2, <1>3

(* What the cap skips is as many events as the notice says: the number of  *)
(* events above one that is skipped lies between MAX_CATCHUP and the size  *)
(* of the batch, and no two events of a batch have equally many above.     *)
LEMMA SkippedSize ==
  ASSUME NEW ids \in SUBSET Nat, IsFiniteSet(ids), MaxCatchup > 0
  PROVE  /\ ids \ Capped(ids) = {} <=> Cardinality(ids) <= MaxCatchup
         /\ ids \ Capped(ids) # {} =>
              Cardinality(ids \ Capped(ids)) = Cardinality(ids) - MaxCatchup
<1>. DEFINE S == ids \ Capped(ids)
            size == Cardinality(ids)
<1>1. size \in Nat /\ MaxCatchup \in Nat /\ Cardinality(Capped(ids)) \in Nat
  BY CappedIs, FS_Subset, FS_CardinalityType, ConstantsAssumption
<1>2. Capped(ids) \subseteq ids /\ Cardinality(Capped(ids)) <= MaxCatchup
  BY CappedIs, CappedSize
<1>3. IsFiniteSet(S) /\ Cardinality(S) = size - Cardinality(Capped(ids))
  <2>1. ids \cap Capped(ids) = Capped(ids)
    BY <1>2
  <2>. QED
    BY <2>1, FS_Difference
<1>4. CASE size <= MaxCatchup
  BY <1>4 DEF Capped
<1>5. CASE ~(size <= MaxCatchup)
  <2>. DEFINE Above(e) == {x \in ids : x > e}
              f == [e \in S |-> Cardinality(Above(e))]
              T == MaxCatchup..(size - 1)
  <2>1. Capped(ids) = {e \in ids : Cardinality(Above(e)) < MaxCatchup}
    BY <1>5, ConstantsAssumption DEF Capped
  <2>2. ASSUME NEW e \in ids
        PROVE  /\ IsFiniteSet(Above(e)) /\ Cardinality(Above(e)) \in Nat
               /\ Cardinality(Above(e)) < size
    <3>1. Above(e) \in SUBSET ids /\ e \notin Above(e) /\ e \in Nat
      OBVIOUS
    <3>2. Above(e) # ids
      BY <3>1
    <3>3. /\ IsFiniteSet(Above(e)) /\ Cardinality(Above(e)) <= size
          /\ size = Cardinality(Above(e)) => ids = Above(e)
      BY <3>1, FS_Subset
    <3>4. Cardinality(Above(e)) \in Nat
      BY <3>3, FS_CardinalityType
    <3>. HIDE DEF Above
    <3>. QED
      BY <1>1, <3>2, <3>3, <3>4
  <2>3. ASSUME NEW e \in ids, NEW x \in ids, e < x
        PROVE  Cardinality(Above(x)) < Cardinality(Above(e))
    <3>1. Above(x) \in SUBSET Above(e) /\ x \in Above(e) /\ x \notin Above(x)
      <4>1. e \in Nat /\ x \in Nat /\ \A y \in ids : y \in Nat
        OBVIOUS
      <4>2. \A y \in ids : y > x => y > e
        BY <2>3, <4>1
      <4>3. x > e /\ ~(x > x)
        BY <2>3, <4>1
      <4>. QED
        BY <4>2, <4>3, Zenon
    <3>2. /\ Cardinality(Above(x)) <= Cardinality(Above(e))
          /\ Cardinality(Above(e)) = Cardinality(Above(x)) => Above(e) = Above(x)
      <4>1. IsFiniteSet(Above(e))
        BY <2>2
      <4>. HIDE DEF Above
      <4>. QED
        BY <3>1, <4>1, FS_Subset
    <3>3. Cardinality(Above(x)) \in Nat /\ Cardinality(Above(e)) \in Nat
      BY <2>2
    <3>4. Above(e) # Above(x)
      BY <3>1
    <3>. HIDE DEF Above
    <3>. QED
      BY <3>2, <3>3, <3>4
  <2>4. f \in [S -> T]
    <3>1. ASSUME NEW e \in S PROVE Cardinality(Above(e)) \in T
      <4>1. e \in ids /\ ~(Cardinality(Above(e)) < MaxCatchup)
        BY <2>1
      <4>2. Cardinality(Above(e)) \in Nat /\ Cardinality(Above(e)) < size
        BY <2>2, <4>1
      <4>. HIDE DEF Above
      <4>. QED
        BY <1>1, <4>1, <4>2
    <3>. HIDE DEF S, Above, T
    <3>. QED
      BY <3>1
  <2>5. ASSUME NEW e \in S, NEW x \in S, f[e] = f[x] PROVE e = x
    <3>1. e \in ids /\ x \in ids /\ e \in Nat /\ x \in Nat
      OBVIOUS
    <3>2. Cardinality(Above(e)) = Cardinality(Above(x))
      BY <2>5
    <3>3. Cardinality(Above(e)) \in Nat
      BY <2>2, <3>1
    <3>4. ~(e < x) /\ ~(x < e)
      BY <2>3, <3>1, <3>2, <3>3
    <3>. QED
      BY <3>1, <3>4
  <2>6. IsFiniteSet(T) /\ Cardinality(T) = size - MaxCatchup
    <3>. HIDE DEF size
    <3>1. MaxCatchup \in Int /\ size - 1 \in Int /\ ~(MaxCatchup > size - 1)
      BY <1>1, <1>5
    <3>2. /\ IsFiniteSet(T)
          /\ Cardinality(T) = IF MaxCatchup > size - 1 THEN 0
                              ELSE size - 1 - MaxCatchup + 1
      BY <3>1, FS_Interval
    <3>. QED
      BY <1>1, <3>1, <3>2
  <2>7. ~(Cardinality(T) < Cardinality(S))
    <3>. SUFFICES ASSUME Cardinality(T) < Cardinality(S) PROVE FALSE
      OBVIOUS
    <3>1. \E e, x \in S : e # x /\ f[e] = f[x]
      <4>. HIDE DEF S, T, f
      <4>. QED
        BY <1>3, <2>4, <2>6, FS_PigeonHole
    <3>. QED
      BY <2>5, <3>1
  <2>8. Cardinality(S) = size - MaxCatchup
    <3>. HIDE DEF S, T, size
    <3>. QED
      BY <1>1, <1>2, <1>3, <2>6, <2>7
  <2>9. S # {}
    <3>. HIDE DEF S, size
    <3>. QED
      BY <1>1, <1>5, <2>8, FS_EmptySet
  <2>. QED
    BY <1>5, <2>8, <2>9
<1>. QED
  BY <1>4, <1>5

(* The steps that leave the posts and their notice alone.                  *)
Unposted == UNCHANGED <<mattermost, batch_notice, unannounced, forgotten>>

(* An exit forgets the notice, and with it what it had left to announce.   *)
Forgets ==
  /\ mattermost' = mattermost /\ batch_notice' = 0
  /\ unannounced' = unannounced /\ forgotten' = forgotten \cup unannounced

(* A post is sent by PostEvents only, and an exit forgets the notice.      *)
LEMMA WhoPosts ==
  ASSUME [Next]_vars
  PROVE  PostEvents \/ Unposted \/ Forgets
<1>. USE DEF Unposted, Forgets
<1>1. CASE Crash \/ BootFails \/ SeedFails \/ PollDenied
  BY <1>1 DEF Crash, BootFails, SeedFails, PollDenied, Fails, Exit, Fresh
<1>2. CASE Audit \/ ApiChanges \/ Restart \/ UNCHANGED vars
  BY <1>2 DEF Audit, ApiChanges, Restart, vars, memory, record
<1>3. CASE Boot \/ Seed \/ PollFails \/ SendAlert \/ SaveAlerted \/ BackOff
  BY <1>3 DEF Boot, Seed, PollFails, SendAlert, SaveAlerted, BackOff, memory, record
<1>4. CASE Poll \/ SendRecovered \/ ClearOutage \/ PrintEvent \/ PrintDone
  BY <1>4 DEF Poll, SendRecovered, ClearOutage, PrintEvent, PrintDone, memory, record
<1>5. CASE MailEvent \/ Save \/ Flush \/ SleepToPoll \/ SleepToDue
  BY <1>5 DEF MailEvent, Save, Flush, SleepToPoll, SleepToDue, memory, record
<1>. QED
  BY <1>1, <1>2, <1>3, <1>4, <1>5 DEF Next, Environment, Process

(* A send that looks delivered is.                                         *)
LEMMA SendIs ==
  ASSUME NEW s \in Sends
  PROVE  s.ok \in BOOLEAN /\ s.got \in BOOLEAN /\ (s.ok => s.got)
<1>1. CASE s = [got |-> TRUE, ok |-> TRUE]
  BY <1>1, Zenon
<1>2. CASE s = [got |-> TRUE, ok |-> FALSE]
  BY <1>2, Zenon
<1>3. CASE s = [got |-> FALSE, ok |-> FALSE]
  BY <1>3, Zenon
<1>. QED
  BY <1>1, <1>2, <1>3, Zenon DEF Sends

(* What a post does to the post's record and the notice.                   *)
LEMMA PostDoes ==
  ASSUME TypeInv, PostEvents
  PROVE  \E ids \in SUBSET New, ok \in BOOLEAN :
           LET kept == Capped(ids)
               skipped == ids \ kept
               lost == IF skipped = {} THEN forgotten
                       ELSE (forgotten \cup unannounced) \ skipped
               over == Cardinality(ids) - MaxCatchup
               notice == IF over > 0 THEN over ELSE batch_notice
               posts == MattermostOn /\ kept # {}
           IN /\ mattermost'.post = IF posts THEN kept ELSE mattermost.post
              /\ batch_notice' = IF posts THEN NoticeAfter(ok, notice) ELSE notice
              /\ unannounced' = IF posts /\ ok THEN lost ELSE unannounced \cup skipped
              /\ forgotten' = lost
<1>. DEFINE ids == New \cap MattermostAllow
            kept == Capped(ids)
            skipped == ids \ kept
            lost == IF skipped = {} THEN forgotten
                    ELSE (forgotten \cup unannounced) \ skipped
            over == Cardinality(ids) - MaxCatchup
            notice == IF over > 0 THEN over ELSE batch_notice
            posts == MattermostOn /\ kept # {}
            capped == [mattermost EXCEPT !.capped = @ \cup skipped,
                                         !.post = IF posts THEN kept ELSE @]
<1>1. PICK s \in Sends :
        /\ mattermost' = IF posts THEN Booked(capped, kept, s) ELSE capped
        /\ batch_notice' = IF posts THEN NoticeAfter(s.ok, notice) ELSE notice
        /\ unannounced' = IF posts /\ s.ok THEN lost ELSE unannounced \cup skipped
        /\ forgotten' = lost
  BY DEF PostEvents
<1>2. mattermost \in Sinks
  BY DEF TypeInv, TypeOK, RecordOK
<1>3. capped.post = (IF posts THEN kept ELSE mattermost.post)
  BY <1>2 DEF Sinks
<1>4. Booked(capped, kept, s).post = capped.post
  <2>1. capped \in [got : SUBSET Nat, failed : SUBSET Nat, capped : {capped.capped},
                    post : {capped.post}]
    BY <1>2 DEF Sinks
  <2>. HIDE DEF capped
  <2>. QED
    BY <2>1 DEF Booked
<1>5. mattermost'.post = (IF posts THEN kept ELSE mattermost.post)
  <2>. HIDE DEF capped, posts
  <2>. QED
    BY <1>1, <1>3, <1>4
<1>6. s.ok \in BOOLEAN /\ ids \in SUBSET New
  BY <1>1, SendIs
<1>. QED
  BY <1>1, <1>5, <1>6

(* The catch-up is bounded: a post carries at most MAX_CATCHUP events,     *)
(* however many a poll brings, unless MAX_CATCHUP is 0.                    *)
THEOREM PostsAreBounded == Spec => []CatchupBounded
<1>1. Init => CatchupBounded
  <2>1. Init => mattermost.post = {}
    BY DEF Init, SinkRecord
  <2>. QED
    BY <2>1, FS_EmptySet, ConstantsAssumption DEF CatchupBounded
<1>2. TypeInv /\ CatchupBounded /\ [Next]_vars => CatchupBounded'
  <2>. SUFFICES ASSUME TypeInv, CatchupBounded, [Next]_vars, MaxCatchup > 0
                PROVE  Cardinality(mattermost'.post) <= MaxCatchup
    BY DEF CatchupBounded
  <2>1. Cardinality(mattermost.post) <= MaxCatchup
    BY DEF CatchupBounded
  <2>2. CASE PostEvents
    <3>1. PICK ids \in SUBSET New :
            mattermost'.post = Capped(ids) \/ mattermost'.post = mattermost.post
      BY <2>2, PostDoes
    <3>2. IsFiniteSet(ids) /\ ids \in SUBSET Nat
      BY NewIs DEF TypeInv, TypeOK
    <3>. QED
      BY <2>1, <3>1, <3>2, CappedSize
  <2>. QED
    BY <2>1, <2>2, WhoPosts DEF Unposted, Forgets
<1>3. Spec => []TypeInv
  BY InitTypes, StepTypes, PTL DEF Spec
<1>. QED
  BY <1>1, <1>2, <1>3, PTL DEF Spec

(* What the pending notice says is exactly what was capped away and no     *)
(* confirmed post has announced, except the events the sink forgot: those  *)
(* pending at an exit, and those whose notice a later one replaced.        *)
THEOREM SkipsAreAnnounced == Spec => []SkipWarned
<1>1. Init => SkipWarned
  BY FS_EmptySet DEF Init, SkipWarned
<1>2. TypeInv /\ SkipWarned /\ [Next]_vars => SkipWarned'
  <2>. SUFFICES ASSUME TypeInv, SkipWarned, [Next]_vars, MaxCatchup > 0
                PROVE  Cardinality(unannounced' \ forgotten') = batch_notice'
    BY DEF SkipWarned
  <2>0. Cardinality(unannounced \ forgotten) = batch_notice
    BY DEF SkipWarned
  <2>1. CASE PostEvents
    <3>1. PICK ids \in SUBSET New, ok \in BOOLEAN :
            LET kept == Capped(ids)
                skipped == ids \ kept
                lost == IF skipped = {} THEN forgotten
                        ELSE (forgotten \cup unannounced) \ skipped
                over == Cardinality(ids) - MaxCatchup
                notice == IF over > 0 THEN over ELSE batch_notice
                posts == MattermostOn /\ kept # {}
            IN /\ batch_notice' = IF posts THEN NoticeAfter(ok, notice) ELSE notice
               /\ unannounced' = IF posts /\ ok THEN lost ELSE unannounced \cup skipped
               /\ forgotten' = lost
      BY <2>1, PostDoes
    <3>. DEFINE skipped == ids \ Capped(ids)
                over == Cardinality(ids) - MaxCatchup
    <3>2. Cardinality(ids) \in Nat /\ MaxCatchup \in Nat /\ batch_notice \in Nat
      BY NewIs, ConstantsAssumption DEF TypeInv, TypeOK, MemoryOK
    <3>3. /\ skipped = {} <=> Cardinality(ids) <= MaxCatchup
          /\ skipped # {} => Cardinality(skipped) = over
      BY NewIs, SkippedSize DEF TypeInv, TypeOK
    <3>4. CASE MattermostOn /\ Capped(ids) # {} /\ ok
      <4>1. batch_notice' = 0 /\ unannounced' \ forgotten' = {}
        BY <3>1, <3>4 DEF NoticeAfter
      <4>. QED
        BY <4>1, FS_EmptySet
    <3>5. CASE ~(MattermostOn /\ Capped(ids) # {} /\ ok)
      <4>1. /\ batch_notice' = IF over > 0 THEN over ELSE batch_notice
            /\ unannounced' = unannounced \cup skipped
            /\ forgotten' = IF skipped = {} THEN forgotten
                            ELSE (forgotten \cup unannounced) \ skipped
        BY <3>1, <3>5 DEF NoticeAfter
      <4>2. CASE skipped = {}
        <5>1. batch_notice' = batch_notice
          BY <3>2, <3>3, <4>1, <4>2
        <5>2. unannounced' \ forgotten' = unannounced \ forgotten
          BY <4>1, <4>2
        <5>. QED
          BY <2>0, <5>1, <5>2
      <4>3. CASE skipped # {}
        <5>1. batch_notice' = over
          BY <3>2, <3>3, <4>1, <4>3
        <5>2. unannounced' \ forgotten' = skipped
          <6>. HIDE DEF skipped
          <6>. QED
            BY <4>1, <4>3
        <5>. QED
          BY <3>3, <4>3, <5>1, <5>2
      <4>. QED
        BY <4>2, <4>3
    <3>. QED
      BY <3>4, <3>5
  <2>2. CASE Unposted
    BY <2>0, <2>2 DEF Unposted
  <2>3. CASE Forgets
    <3>1. unannounced' \ forgotten' = {} /\ batch_notice' = 0
      BY <2>3 DEF Forgets
    <3>. QED
      BY <3>1, FS_EmptySet
  <2>. QED
    BY <2>1, <2>2, <2>3, WhoPosts
<1>3. Spec => []TypeInv
  BY InitTypes, StepTypes, PTL DEF Spec
<1>. QED
  BY <1>1, <1>2, <1>3, PTL DEF Spec

-----------------------------------------------------------------------------
(* The digest *)

(* The buffer shrinks at an exit or by a digest that was delivered.        *)
LEMMA DigestStep == TypeInv /\ [Next]_vars =>
  (pc' \notin {"down", "fatal"} => digest_buffer \ digest_buffer' \subseteq mail'.got)
<1>. SUFFICES ASSUME TypeInv, [Next]_vars, pc' \notin {"down", "fatal"}
              PROVE  digest_buffer \ digest_buffer' \subseteq mail'.got
  OBVIOUS
<1>1. CASE Crash \/ BootFails \/ SeedFails \/ PollDenied
  BY <1>1, ExitIs DEF Crash, BootFails, SeedFails, PollDenied, Fails
<1>2. CASE Audit \/ ApiChanges \/ Restart \/ UNCHANGED vars
  BY <1>2 DEF Audit, ApiChanges, Restart, vars, memory
<1>3. CASE Boot \/ Seed \/ PollFails \/ SendAlert \/ SaveAlerted \/ BackOff
  BY <1>3 DEF Boot, Seed, PollFails, SendAlert, SaveAlerted, BackOff, memory
<1>4. CASE Poll \/ SendRecovered \/ ClearOutage \/ PrintEvent \/ PrintDone \/ PostEvents
  BY <1>4 DEF Poll, SendRecovered, ClearOutage, PrintEvent, PrintDone, PostEvents, memory
<1>5. CASE MailEvent
  BY <1>5 DEF MailEvent
<1>6. CASE Save \/ SleepToPoll \/ SleepToDue
  BY <1>6 DEF Save, SleepToPoll, SleepToDue
<1>7. CASE Flush
  <2>1. CASE UNCHANGED digest_buffer
    BY <2>1
  <2>2. CASE ~UNCHANGED digest_buffer
    <3>1. PICK s \in Sends : /\ mail' = Booked(mail, digest_buffer, s)
                             /\ digest_buffer' = DigestAfter(s.ok)
      BY <1>7, <2>2 DEF Flush
    <3>2. s.got = TRUE
      BY <2>2, <3>1, SendIs DEF DigestAfter
    <3>3. mail \in Sinks
      BY DEF TypeInv, TypeOK, RecordOK
    <3>4. mail'.got = mail.got \cup digest_buffer
      BY <3>1, <3>2, <3>3 DEF Booked, Sinks
    <3>. QED
      BY <3>4
  <2>. QED
    BY <2>1, <2>2
<1>. QED
  BY <1>1, <1>2, <1>3, <1>4, <1>5, <1>6, <1>7 DEF Next, Environment, Process

(* The digest buffer lets go of a mail only when it was delivered, as long *)
(* as the process lives: a failed send keeps it for the next digest.       *)
THEOREM DigestIsKept == Spec => DigestKeepsMail
<1>1. Spec => []TypeInv
  BY InitTypes, StepTypes, PTL DEF Spec
<1>2. TypeInv /\ [Next]_vars =>
        [pc' \notin {"down", "fatal"} => digest_buffer \ digest_buffer' \subseteq mail'.got]_vars
  BY DigestStep
<1>. QED
  BY <1>1, <1>2, PTL DEF Spec, DigestKeepsMail

-----------------------------------------------------------------------------
(* Repeated lines *)

(* A line is printed in a poll once, and printed again only after a death  *)
(* took the position back to the cursor.                                   *)
Counting ==
  \A e \in Nat : /\ Occurrences(e) \in Nat
                 /\ Occurrences(e) <= 1 + crashes
                 /\ Position < e => Occurrences(e) <= crashes

(* How often an event stands in the lines.                                 *)
Times(lines, e) == Cardinality({i \in DOMAIN lines : lines[i] = e})

(* One more line counts for its event and for no other.                    *)
LEMMA OneMore ==
  ASSUME NEW lines \in Seq(Nat), NEW line \in Nat, NEW e \in Nat,
         Times(lines, e) \in Nat
  PROVE  Times(Append(lines, line), e)
           = IF e = line THEN Times(lines, e) + 1 ELSE Times(lines, e)
<1>. DEFINE more == Append(lines, line)
            here == {i \in DOMAIN lines : lines[i] = e}
            next == Len(lines) + 1
<1>0. /\ Times(lines, e) = Cardinality(here)
      /\ Times(more, e) = Cardinality({i \in DOMAIN more : more[i] = e})
  BY DEF Times
<1>1. /\ DOMAIN lines = 1..Len(lines) /\ Len(lines) \in Nat
      /\ DOMAIN more = 1..next
      /\ \A i \in 1..Len(lines) : more[i] = lines[i]
      /\ more[next] = line
  OBVIOUS
<1>2. IsFiniteSet(here) /\ next \notin here
  <2>1. IsFiniteSet(1..Len(lines))
    BY <1>1, FS_Interval
  <2>. QED
    BY <1>1, <2>1, FS_Subset
<1>3. CASE e = line
  <2>1. {i \in DOMAIN more : more[i] = e} = here \cup {next}
    BY <1>1, <1>3
  <2>. QED
    <3>1. Times(more, e) = Cardinality(here \cup {next})
      BY <1>0, <2>1
    <3>2. Cardinality(here \cup {next}) = Cardinality(here) + 1
      <4>. HIDE DEF here, next
      <4>. QED
        BY <1>2, FS_AddElement
    <3>. QED
      BY <1>0, <1>3, <3>1, <3>2, Zenon
<1>4. CASE e # line
  <2>1. {i \in DOMAIN more : more[i] = e} = here
    BY <1>1, <1>4
  <2>. QED
    BY <1>0, <1>4, <2>1
<1>. QED
  BY <1>3, <1>4

LEMMA InitCounting == Init => Counting
<1>. SUFFICES ASSUME Init, NEW e \in Nat
              PROVE  Occurrences(e) = 0 /\ crashes = 0
  BY DEF Counting
<1>1. {i \in DOMAIN stdout : stdout[i] = e} = {}
  BY DEF Init
<1>. QED
  BY <1>1, FS_EmptySet DEF Init, Occurrences

(* A step that prints nothing and takes nothing back.                      *)
LEMMA NoneMore ==
  ASSUME Counting, UNCHANGED <<stdout, crashes>>,
         Position \in Int, Position' \in Int, Position <= Position'
  PROVE  Counting'
<1>1. \A e \in Nat : Occurrences(e)' = Occurrences(e)
  BY DEF Occurrences
<1>2. \A e \in Nat : Position' < e => Position < e
  OBVIOUS
<1>. QED
  BY <1>1, <1>2 DEF Counting

LEMMA PositionIs ==
  /\ TypeInv => Position \in Int
  /\ TypeInv' => Position' \in Int
  BY DEF TypeInv, TypeOK, FileOK, MemoryOK, Position, None

LEMMA StepCounting == StreamInv /\ Counting /\ [Next]_vars => Counting'
<1>. SUFFICES ASSUME StreamInv, Counting, [Next]_vars PROVE Counting'
  OBVIOUS
<1>0. /\ Counting /\ Cursors /\ Position \in Int /\ Position' \in Int
      /\ top \in Nat /\ fetched \in Nat
      /\ last_id \in Nat \cup {None} /\ printed \in Nat \cup {None} /\ None = -1
  BY PositionIs, StepTypes
     DEF StreamInv, TypeInv, TypeOK, NetbirdOK, FileOK, MemoryOK, None
<1>1. CASE Audit \/ ApiChanges
  <2>1. Position' = Position /\ UNCHANGED <<stdout, crashes>>
    BY <1>1 DEF Audit, ApiChanges, Position, file, memory, record
  <2>. QED
    BY <1>0, <2>1, NoneMore
<1>2. CASE Crash
  <2>1. crashes' = crashes + 1 /\ crashes \in Nat
    BY <1>2, ConstantsAssumption DEF Crash, StreamInv, TypeInv, TypeOK, RecordOK
  <2>2. \A e \in Nat : Occurrences(e)' = Occurrences(e)
    BY <1>2 DEF Crash, Occurrences
  <2>. QED
    BY <1>0, <2>1, <2>2 DEF Counting
<1>3. CASE BootFails \/ SeedFails \/ PollDenied
  <2>1. /\ pc \in {"boot", "seed", "fetch"} /\ pc' \in {"down", "fatal"}
        /\ UNCHANGED <<last_id, stdout, crashes>>
    BY <1>3, ExitIs DEF BootFails, SeedFails, PollDenied, Fails, file
  <2>2. Position' = Position
    BY <2>1 DEF Position
  <2>. QED
    BY <1>0, <2>1, <2>2, NoneMore
<1>4. CASE Restart \/ Boot \/ PollFails \/ SendAlert \/ SaveAlerted \/ BackOff \/ SendRecovered
  <2>1. Position' = Position /\ UNCHANGED <<stdout, crashes>>
    BY <1>4 DEF Restart, Boot, PollFails, SendAlert, SaveAlerted, BackOff, SendRecovered,
                Position, file, record
  <2>. QED
    BY <1>0, <2>1, NoneMore
<1>5. CASE Seed
  <2>1. Position <= Position' /\ UNCHANGED <<stdout, crashes>>
    BY <1>0, <1>5 DEF Seed, Cursors, Position
  <2>. QED
    BY <1>0, <2>1, NoneMore
<1>6. CASE Poll
  <2>1. Position' = Position /\ UNCHANGED <<stdout, crashes>>
    BY <1>6 DEF Poll, HandleNew, Position, file, record
  <2>. QED
    BY <1>0, <2>1, NoneMore
<1>7. CASE ClearOutage
  <2>1. Position' = Position /\ UNCHANGED <<stdout, crashes>>
    BY <1>0, <1>7 DEF ClearOutage, HandleNew, Cursors, Position
  <2>. QED
    BY <1>0, <2>1, NoneMore
<1>8. CASE PrintEvent
  <2>1. PICK line \in New \cap StdoutAllow :
          printed < line /\ stdout' = Append(stdout, line) /\ printed' = line
    BY <1>8 DEF PrintEvent
  <2>2. line \in Nat /\ stdout \in Seq(Nat) /\ crashes' = crashes /\ crashes \in Nat
    BY <1>8, NewIs, ConstantsAssumption DEF PrintEvent, StreamInv, TypeInv, TypeOK, RecordOK
  <2>3. Position = printed /\ Position' = line
    BY <1>8, <2>1 DEF PrintEvent, Position
  <2>4. ASSUME NEW e \in Nat
        PROVE  Occurrences(e)' = IF e = line THEN Occurrences(e) + 1 ELSE Occurrences(e)
    <3>1. Occurrences(e) \in Nat
      BY <1>0 DEF Counting
    <3>2. /\ Occurrences(e) = Times(stdout, e)
          /\ Occurrences(e)' = Times(Append(stdout, line), e)
      BY <2>1 DEF Occurrences, Times
    <3>. QED
      BY <2>2, <3>1, <3>2, OneMore
  <2>5. \A e \in Nat : line < e => printed < e /\ e # line
    BY <1>0, <2>1, <2>2
  <2>. QED
    <3>. SUFFICES ASSUME NEW e \in Nat
                  PROVE  /\ Occurrences(e)' \in Nat
                         /\ Occurrences(e)' <= 1 + crashes'
                         /\ Position' < e => Occurrences(e)' <= crashes'
      BY DEF Counting
    <3>1. /\ Occurrences(e) \in Nat /\ Occurrences(e) <= 1 + crashes
          /\ printed < e => Occurrences(e) <= crashes
      BY <1>0, <2>3 DEF Counting
    <3>2. CASE e = line
      BY <2>1, <2>2, <2>3, <2>4, <3>1, <3>2
    <3>3. CASE e # line
      BY <2>2, <2>3, <2>4, <2>5, <3>1, <3>3
    <3>. QED
      BY <3>2, <3>3
<1>9. CASE PrintDone
  <2>1. Position <= Position' /\ UNCHANGED <<stdout, crashes>>
    BY <1>0, <1>9 DEF PrintDone, Cursors, Position, memory, record
  <2>. QED
    BY <1>0, <2>1, NoneMore
<1>10. CASE PostEvents \/ MailEvent
  <2>1. Position' = Position /\ UNCHANGED <<stdout, crashes>>
    BY <1>10 DEF PostEvents, MailEvent, Position
  <2>. QED
    BY <1>0, <2>1, NoneMore
<1>11. CASE Save
  <2>1. Position' = Position /\ UNCHANGED <<stdout, crashes>>
    BY <1>11 DEF Save, Cursor, Position
  <2>. QED
    BY <1>0, <2>1, NoneMore
<1>12. CASE Flush \/ SleepToPoll \/ SleepToDue
  <2>1. Position' = Position /\ UNCHANGED <<stdout, crashes>>
    BY <1>12 DEF Flush, SleepToPoll, SleepToDue, Position, file, record
  <2>. QED
    BY <1>0, <2>1, NoneMore
<1>13. CASE UNCHANGED vars
  <2>1. Position' = Position /\ UNCHANGED <<stdout, crashes>>
    BY <1>13 DEF vars, Position, file, memory, record
  <2>. QED
    BY <1>0, <2>1, NoneMore
<1>. QED
  BY <1>1, <1>2, <1>3, <1>4, <1>5, <1>6, <1>7, <1>8, <1>9, <1>10, <1>11, <1>12, <1>13
     DEF Next, Environment, Process

(* An event is printed once, plus at most once more per death of the       *)
(* process: an exit the code takes never repeats a line.                   *)
THEOREM RepeatsAreCrashes == Spec => []Replays
<1>1. Init => Counting
  BY InitCounting
<1>2. StreamInv /\ Counting /\ [Next]_vars => Counting'
  BY StepCounting
<1>3. Counting => Replays
  BY ConstantsAssumption DEF Counting, Replays
<1>. QED
  BY <1>1, <1>2, <1>3, Positioned, PTL DEF Spec
=============================================================================
