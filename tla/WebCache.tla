------------------------------ MODULE WebCache ------------------------------
(***************************************************************************)
(* birdseye_web/snapshot.py: the per-user cache of what NetBird shows, the *)
(* pages made from it, and the writes that invalidate it (context.py and   *)
(* the editors, here routes_groups.py and routes_policies.py).             *)
(*                                                                         *)
(* One asyncio process: an action is what runs between two awaits, and     *)
(* requests interleave at every await. A write is a number, and what an    *)
(* endpoint of NetBird returns is the number of the last write to it.      *)
(*                                                                         *)
(* Ages count in ticks up to the last one the code tells apart.            *)
(***************************************************************************)
EXTENDS Integers, Sequences, FiniteSets

CONSTANTS
  Users,      \* NetBird user ids
  Endpoints,  \* what load_snapshot reads
  Nested,     \* the endpoints it reads in a second round (networks/<id>/...)
  Sees,       \* [Users -> the endpoints the user may read]
  Editors,    \* the users NetBird lets write
  Ttl,        \* age from which an entry is not used any more
  LoadLimit,  \* the time within which the calls of a load answer or time out
  Requests,   \* bound: HTTP requests
  MaxWrites   \* bound: changes of the configuration

ASSUME CacheConstants ==
  /\ Users # {} /\ Nested \subseteq Endpoints
  /\ Sees \in [Users -> SUBSET Endpoints] /\ Editors \subseteq Users
  /\ Ttl \in Nat \ {0} /\ LoadLimit \in Nat /\ MaxWrites \in Nat

VARIABLES
  (* NetBird *)
  config,     \* [Endpoints -> the last write to it]
  writes,     \* the endpoint each change was made to, oldest first
  age,        \* [1..MaxWrites -> how long ago the write was made]
  (* SnapshotCache *)
  entries,    \* [Users -> the entry or NoEntry]
  queue,      \* [Users -> requests at the user's lock, its holder first]
  (* the requests *)
  req,        \* [Requests -> the request]
  told        \* writes whose request has gone on to invalidate

netbird == <<config, writes, age>>
cache == <<entries, queue>>
vars == <<netbird, cache, req, told>>

Hidden == -1    \* an endpoint NetBird does not let the user read: []
Unread == -2

Oldest == Ttl + LoadLimit

Blank == [e \in Endpoints |-> Unread]

(* An entry: its age, its content, and for the properties the writes that  *)
(* were told while it was being loaded.                                    *)
NoEntry == [at |-> Ttl, snap |-> Blank, late |-> {}]

NoRequest == [pc |-> "none", user |-> CHOOSE u \in Users : TRUE, left |-> 0, write |-> 0,
              snap |-> Blank, took |-> 0, late |-> {}]

-----------------------------------------------------------------------------
(* Slips: definitions below as a plausible bug would have them, which the  *)
(* specification does not use.                                             *)

OneKey(u) == CHOOSE x \in Users : TRUE          \* Key: one entry for all users
UsedAtTtl(entry) == entry.at <= Ttl             \* Fresh: off by one
DropsOwn(u) == [entries EXCEPT ![u] = NoEntry]  \* Invalidated: the writer's only
KeepsLock(r) == queue                           \* Released: a failed load keeps it

-----------------------------------------------------------------------------
(* Helpers *)

Key(u) == u

Fresh(entry) == entry.at < Ttl

Invalidated(u) == [x \in Users |-> NoEntry]

(* _get_or_empty: missing permission hides one endpoint only.              *)
Answer(u, e) == IF e \in Sees[u] THEN config[e] ELSE Hidden

(* The write is one the user may see, and the snapshot does not show it.   *)
Misses(u, snap, w) == writes[w] \in Sees[u] /\ snap[writes[w]] < w

Holder(r) == queue[Key(req[r].user)] # <<>> /\ Head(queue[Key(req[r].user)]) = r

Enter(r, u) == queue' = [queue EXCEPT ![Key(u)] = Append(@, r)]

Released(r) == [queue EXCEPT ![Key(req[r].user)] = Tail(@)]

Older(a, limit) == IF a < limit THEN a + 1 ELSE a

Init ==
  /\ config = [e \in Endpoints |-> 0] /\ writes = <<>>
  /\ age = [w \in 1..MaxWrites |-> 0]
  /\ entries = [u \in Users |-> NoEntry]
  /\ queue = [u \in Users |-> <<>>]
  /\ req = [r \in Requests |-> NoRequest]
  /\ told = {}

-----------------------------------------------------------------------------
(* Time, and changes made past birdseye *)

Changes(e) ==
  /\ Len(writes) < MaxWrites
  /\ config' = [config EXCEPT ![e] = Len(writes) + 1]
  /\ writes' = Append(writes, e)
  /\ UNCHANGED age

Elsewhere(e) ==
  /\ Changes(e)
  /\ UNCHANGED <<cache, req, told>>

(* No load takes longer than its calls may.                                *)
Tick ==
  /\ \A r \in Requests : req[r].pc = "load" => req[r].took < LoadLimit
  /\ age' = [w \in 1..MaxWrites |-> IF w \in DOMAIN writes THEN Older(age[w], Oldest) ELSE 0]
  /\ entries' = [u \in Users |-> [entries[u] EXCEPT !.at = Older(@, Ttl)]]
  /\ req' = [r \in Requests |-> IF req[r].pc = "load"
                                THEN [req[r] EXCEPT !.took = @ + 1] ELSE req[r]]
  /\ UNCHANGED <<config, writes, queue, told>>

-----------------------------------------------------------------------------
(* SnapshotCache.get *)

(* A page, or a save that makes so many writes, which is offered to those  *)
(* who may write; all but the toggle of a policy take the snapshot first.  *)
Start(r, u, left) ==
  /\ req[r].pc = "none"
  /\ left > 0 => u \in Editors
  /\ req' = [req EXCEPT ![r] = [NoRequest EXCEPT !.pc = "queue", !.user = u, !.left = left]]
  /\ Enter(r, u)
  /\ UNCHANGED <<netbird, entries, told>>

StartToggle(r, u) ==
  /\ req[r].pc = "none"
  /\ u \in Editors
  /\ req' = [req EXCEPT ![r] = [NoRequest EXCEPT !.pc = "act", !.user = u, !.left = 1]]
  /\ UNCHANGED <<netbird, cache, told>>

Hit(r) ==
  /\ req[r].pc = "queue" /\ Holder(r)
  /\ Fresh(entries[Key(req[r].user)])
  /\ req' = [req EXCEPT ![r].pc = "act", ![r].snap = entries[Key(req[r].user)].snap]
  /\ queue' = Released(r)
  /\ UNCHANGED <<netbird, entries, told>>

Miss(r) ==
  /\ req[r].pc = "queue" /\ Holder(r)
  /\ ~Fresh(entries[Key(req[r].user)])
  /\ req' = [req EXCEPT ![r].pc = "load", ![r].snap = Blank]
  /\ UNCHANGED <<netbird, cache, told>>

(* One of the calls answers; those of the second round start after the     *)
(* first is complete.                                                      *)
Read(r, e) ==
  /\ req[r].pc = "load" /\ req[r].snap[e] = Unread
  /\ e \in Nested => \A x \in Endpoints \ Nested : req[r].snap[x] # Unread
  /\ req' = [req EXCEPT ![r].snap[e] = Answer(req[r].user, e)]
  /\ UNCHANGED <<netbird, cache, told>>

Loaded(r) ==
  /\ req[r].pc = "load" /\ \A e \in Endpoints : req[r].snap[e] # Unread
  /\ entries' = [entries EXCEPT ![Key(req[r].user)] =
                   [at |-> 0, snap |-> req[r].snap, late |-> req[r].late]]
  /\ req' = [req EXCEPT ![r].pc = "act", ![r].late = {}, ![r].took = 0]
  /\ queue' = Released(r)
  /\ UNCHANGED <<netbird, told>>

Ended(pc) == [NoRequest EXCEPT !.pc = pc]

(* A call fails: no entry, the request ends in an error page.              *)
LoadFails(r) ==
  /\ req[r].pc = "load"
  /\ req' = [req EXCEPT ![r] = Ended("failed")]
  /\ queue' = Released(r)
  /\ UNCHANGED <<netbird, entries, told>>

-----------------------------------------------------------------------------
(* The handlers *)

Render(r) ==
  /\ req[r].pc = "act" /\ req[r].left = 0
  /\ req' = [req EXCEPT ![r] = Ended("done")]
  /\ UNCHANGED <<netbird, cache, told>>

(* A PUT takes effect; its answer is still to come.                        *)
Put(r, e) ==
  /\ req[r].pc = "act" /\ req[r].left > 0
  /\ Changes(e)
  /\ req' = [req EXCEPT ![r].pc = "put", ![r].left = @ - 1, ![r].write = Len(writes) + 1,
                        ![r].snap = Blank]
  /\ UNCHANGED <<cache, told>>

(* NetBird refuses: the form again, or after the first write the page that *)
(* says that not everything was saved, made from a fresh snapshot.         *)
PutRefused(r) ==
  /\ req[r].pc = "act" /\ req[r].left > 0
  /\ IF req[r].write = 0
     THEN /\ req' = [req EXCEPT ![r] = Ended("done")]
          /\ UNCHANGED cache
     ELSE /\ entries' = Invalidated(req[r].user)
          /\ Enter(r, req[r].user)
          /\ req' = [req EXCEPT ![r] = [NoRequest EXCEPT !.pc = "queue", !.user = req[r].user]]
  /\ UNCHANGED <<netbird, told>>

(* The answer: invalidate, and go on with the next write or redirect.      *)
PutAnswered(r) ==
  /\ req[r].pc = "put"
  /\ entries' = Invalidated(req[r].user)
  /\ told' = told \cup {req[r].write}
  /\ req' = [x \in Requests |->
               IF x # r THEN [req[x] EXCEPT !.late = IF req[x].pc = "load"
                                                     THEN @ \cup {req[r].write} ELSE @]
               ELSE IF req[r].left > 0 THEN [req[r] EXCEPT !.pc = "act"] ELSE Ended("done")]
  /\ UNCHANGED <<netbird, queue>>

(* No answer: the error is not NetBird's, and nothing is invalidated.      *)
PutLost(r) ==
  /\ req[r].pc = "put"
  /\ req' = [req EXCEPT ![r] = Ended("failed")]
  /\ UNCHANGED <<netbird, cache, told>>

-----------------------------------------------------------------------------

Get(r) == Hit(r) \/ Miss(r) \/ (\E e \in Endpoints : Read(r, e)) \/ Loaded(r) \/ LoadFails(r)

Handle(r) ==
  \/ Render(r) \/ PutRefused(r) \/ PutAnswered(r) \/ PutLost(r)
  \/ \E e \in Endpoints : Put(r, e)

Arrive(r) ==
  \E u \in Users : StartToggle(r, u) \/ \E left \in 0..2 : Start(r, u, left)

Next ==
  \/ Tick \/ \E e \in Endpoints : Elsewhere(e)
  \/ \E r \in Requests : Arrive(r) \/ Get(r) \/ Handle(r)

Spec == Init /\ [][Next]_vars

(* The event loop runs every request that can go on, and every call to     *)
(* NetBird answers or times out. Nobody has to send a request.             *)
FairSpec == Spec /\ \A r \in Requests : WF_vars(Get(r) \/ Handle(r))

-----------------------------------------------------------------------------
(* Properties *)

Contents == [Endpoints -> Nat \cup {Hidden, Unread}]

Told == SUBSET (1..MaxWrites)

Entries == [at : 0..Ttl, snap : Contents, late : Told]

RequestRecords ==
  [pc : {"none", "queue", "load", "act", "put", "done", "failed"}, user : Users, left : 0..2,
   write : 0..MaxWrites, snap : Contents, took : 0..LoadLimit, late : Told]

(* Every variable keeps to its values, and the queue of a user holds only  *)
(* requests that wait at or hold the user's lock.                          *)
TypeOK ==
  /\ config \in [Endpoints -> 0..Len(writes)]
  /\ writes \in Seq(Endpoints) /\ Len(writes) <= MaxWrites
  /\ age \in [1..MaxWrites -> 0..Oldest]
  /\ entries \in [Users -> Entries]
  /\ queue \in [Users -> Seq(Requests)]
  /\ req \in [Requests -> RequestRecords]
  /\ told \subseteq DOMAIN writes
  /\ \A u \in Users : \A i \in DOMAIN queue[u] :
       req[queue[u][i]].user = u /\ req[queue[u][i]].pc \in {"queue", "load"}

(* A cached snapshot lacks a write that was followed by an invalidation    *)
(* only if its load had begun before that and ended after it: nothing that *)
(* was stored before survives, for no user (invalidate: "others see it     *)
(* too"), and no load that begins later brings it back.                    *)
LateLoadsOnly ==
  \A u \in Users, w \in told :
    entries[u] # NoEntry /\ Misses(u, entries[u].snap, w) => w \in entries[u].late

(* "Snapshots must never be shared across users": whatever a page of a     *)
(* user is made from, it shows nothing NetBird would not show that user.   *)
NotShared ==
  \A r \in Requests : req[r].pc = "act" =>
    \A e \in Endpoints \ Sees[req[r].user] : req[r].snap[e] \in {Hidden, Unread}

(* However writes, loads and invalidations interleave, and for changes     *)
(* made past birdseye too: a page never lacks a change that is older than  *)
(* the lifetime of an entry and the time a load takes.                     *)
StalenessBounded ==
  [][\A r \in Requests : req[r].pc \in {"queue", "load"} /\ req'[r].pc = "act" =>
       \A w \in DOMAIN writes :
         Misses(req[r].user, req'[r].snap, w) => age[w] < Ttl + LoadLimit]_vars

(* Every request is answered: no failed load leaves the user's lock held,  *)
(* and no request waits for ever behind others.                            *)
Answered == \A r \in Requests : req[r].pc = "queue" ~> req[r].pc \in {"done", "failed"}

-----------------------------------------------------------------------------
(* What a comment says and the code does not do. *)

(* snapshot.py:5: "Every write path calls invalidate() so the next page    *)
(* shows the change." What the next request would be served from.          *)
NextPageShows ==
  \A u \in Users, w \in told :
    Fresh(entries[u]) => ~Misses(u, entries[u].snap, w)
=============================================================================
