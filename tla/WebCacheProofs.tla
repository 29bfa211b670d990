--------------------------- MODULE WebCacheProofs ---------------------------
(***************************************************************************)
(* What the snapshot cache never does, for any number of users, endpoints, *)
(* requests and writes. Data is inductive: it says of the snapshots being  *)
(* loaded what has to hold of those that are stored.                       *)
(***************************************************************************)
EXTENDS WebCache, TLAPS

Typed ==
  /\ config \in [Endpoints -> 0..Len(writes)]
  /\ writes \in Seq(Endpoints) /\ Len(writes) <= MaxWrites
  /\ age \in [1..MaxWrites -> 0..Oldest]
  /\ \A w \in 1..MaxWrites : w > Len(writes) => age[w] = 0
  /\ entries \in [Users -> Entries]
  /\ queue \in [Users -> Seq(Requests)]
  /\ req \in [Requests -> RequestRecords]
  /\ told \subseteq DOMAIN writes

(* The queues hold the requests that are in SnapshotCache.get, each once,  *)
(* and the one that loads is the first.                                    *)
Queued ==
  /\ \A u \in Users : \A i \in 1..Len(queue[u]) :
       req[queue[u][i]].user = u /\ req[queue[u][i]].pc \in {"queue", "load"}
  /\ \A u \in Users : \A i, j \in 1..Len(queue[u]) : queue[u][i] = queue[u][j] => i = j
  /\ \A r \in Requests : req[r].pc = "load" => Holder(r)

(* What has been read of a snapshot lacks only the told writes in late, and*)
(* no write older than limit, and shows only what the user may see.        *)
Shown(u, snap, late) ==
  \A w \in told : snap[writes[w]] # Unread /\ Misses(u, snap, w) => w \in late

Aged(u, snap, limit) ==
  \A w \in DOMAIN writes : snap[writes[w]] # Unread /\ Misses(u, snap, w) => age[w] <= limit

Allowed(u, snap) == \A e \in Endpoints \ Sees[u] : snap[e] \in {Hidden, Unread}

Complete(snap) == \A e \in Endpoints : snap[e] # Unread

RequestOK(q) ==
  /\ Allowed(q.user, q.snap)
  /\ q.pc = "load" => Shown(q.user, q.snap, q.late) /\ Aged(q.user, q.snap, q.took)
  /\ q.pc = "put" => q.write \in DOMAIN writes

EntryOK(u, entry) ==
  /\ Shown(u, entry.snap, entry.late) /\ Aged(u, entry.snap, entry.at + LoadLimit)
  /\ Allowed(u, entry.snap)
  /\ entry = NoEntry \/ Complete(entry.snap)

Data ==
  /\ \A w \in DOMAIN writes : w <= config[writes[w]]
  /\ \A r \in Requests : RequestOK(req[r])
  /\ \A u \in Users : EntryOK(u, entries[u])

Inv == Typed /\ Queued /\ Data

-----------------------------------------------------------------------------
(* Types *)

LEMMA Blanks == Blank \in Contents /\ NoEntry \in Entries /\ NoRequest \in RequestRecords
<1>1. Blank \in Contents
  BY DEF Blank, Contents
<1>2. NoEntry \in Entries
  BY <1>1, CacheConstants DEF NoEntry, Entries, Told
<1>3. (CHOOSE u \in Users : TRUE) \in Users
  BY CacheConstants
<1>4. NoRequest \in RequestRecords
  BY <1>1, <1>3, CacheConstants DEF NoRequest, RequestRecords, Told
<1>. QED
  BY <1>1, <1>2, <1>4

(* Appending a write. *)
LEMMA ChangesTyped ==
  ASSUME Typed, NEW e \in Endpoints, Changes(e)
  PROVE  /\ config' \in [Endpoints -> 0..Len(writes')]
         /\ writes' \in Seq(Endpoints) /\ Len(writes') = Len(writes) + 1
         /\ Len(writes') <= MaxWrites
         /\ DOMAIN writes = 1..Len(writes) /\ DOMAIN writes' = 1..(Len(writes) + 1)
         /\ \A w \in DOMAIN writes : writes'[w] = writes[w]
         /\ writes'[Len(writes) + 1] = e
         /\ age' = age /\ age[Len(writes) + 1] = 0
         /\ \A w \in 1..MaxWrites : w > Len(writes') => age[w] = 0
         /\ Len(writes) \in Nat
<1>1. /\ writes \in Seq(Endpoints) /\ Len(writes) \in Nat /\ writes' = Append(writes, e)
      /\ Len(writes) < MaxWrites
  BY DEF Typed, Changes
<1>2. /\ writes' \in Seq(Endpoints) /\ Len(writes') = Len(writes) + 1
      /\ DOMAIN writes = 1..Len(writes) /\ DOMAIN writes' = 1..(Len(writes) + 1)
      /\ \A w \in DOMAIN writes : writes'[w] = writes[w]
      /\ writes'[Len(writes) + 1] = e
  BY <1>1
<1>3. /\ age' = age /\ age[Len(writes) + 1] = 0
      /\ \A w \in 1..MaxWrites : w > Len(writes') => age[w] = 0
  BY <1>1, <1>2, CacheConstants DEF Typed, Changes
<1>4. config' \in [Endpoints -> 0..Len(writes')]
  BY <1>1, <1>2 DEF Typed, Changes
<1>. QED
  BY <1>1, <1>2, <1>3, <1>4, CacheConstants

LEMMA ElsewhereTyped == ASSUME Typed, NEW e \in Endpoints, Elsewhere(e) PROVE Typed'
<1>1. UNCHANGED <<entries, queue, req, told>> /\ Changes(e)
  BY DEF Elsewhere, cache
<1>2. told' \subseteq DOMAIN writes'
  BY <1>1, ChangesTyped DEF Typed
<1>3. age' \in [1..MaxWrites -> 0..Oldest] /\ \A w \in 1..MaxWrites : w > Len(writes') => age'[w] = 0
  BY <1>1, ChangesTyped DEF Typed
<1>. QED
  BY <1>1, <1>2, <1>3, ChangesTyped DEF Typed

LEMMA TickTyped == ASSUME Typed, Tick PROVE Typed'
<1>1. UNCHANGED <<config, writes, queue, told>>
  BY DEF Tick
<1>2. age' \in [1..MaxWrites -> 0..Oldest] /\ \A w \in 1..MaxWrites : w > Len(writes) => age'[w] = 0
  <2>1. DOMAIN writes = 1..Len(writes) /\ Len(writes) \in Nat
    BY DEF Typed
  <2>2. \A a \in 0..Oldest : Older(a, Oldest) \in 0..Oldest /\ 0 \in 0..Oldest
    BY CacheConstants DEF Older, Oldest
  <2>. QED
    BY <2>1, <2>2, CacheConstants DEF Tick, Typed
<1>3. entries' \in [Users -> Entries]
  <2>1. \A a \in 0..Ttl : Older(a, Ttl) \in 0..Ttl
    BY CacheConstants DEF Older
  <2>. QED
    BY <2>1 DEF Tick, Typed, Entries
<1>4. req' \in [Requests -> RequestRecords]
  <2>. SUFFICES ASSUME NEW r \in Requests
                PROVE  (IF req[r].pc = "load" THEN [req[r] EXCEPT !.took = @ + 1] ELSE req[r])
                         \in RequestRecords
    BY DEF Tick
  <2>1. req[r] \in RequestRecords
    BY DEF Typed
  <2>2. CASE req[r].pc = "load"
    <3>1. req[r].took + 1 \in 0..LoadLimit
      BY <2>1, <2>2, CacheConstants DEF Tick, RequestRecords
    <3>. QED
      BY <2>1, <2>2, <3>1 DEF RequestRecords
  <2>. QED
    BY <2>1, <2>2
<1>. QED
  BY <1>1, <1>2, <1>3, <1>4 DEF Typed

(* The two ways a queue changes. *)
LEMMA EnterTyped ==
  ASSUME Typed, NEW r \in Requests, NEW u \in Users, Enter(r, u)
  PROVE  queue' \in [Users -> Seq(Requests)]
<1>1. queue[u] \in Seq(Requests)
  BY DEF Typed
<1>2. Append(queue[u], r) \in Seq(Requests)
  BY <1>1
<1>. QED
  BY <1>2 DEF Typed, Enter, Key

LEMMA ReleasedTyped ==
  ASSUME Typed, NEW r \in Requests, Holder(r), queue' = Released(r)
  PROVE  queue' \in [Users -> Seq(Requests)]
<1>1. req[r].user \in Users
  BY DEF Typed, RequestRecords
<1>2. queue[req[r].user] \in Seq(Requests) /\ queue[req[r].user] # <<>>
  BY <1>1 DEF Typed, Holder, Key
<1>3. Tail(queue[req[r].user]) \in Seq(Requests)
  BY <1>2
<1>. QED
  BY <1>1, <1>3 DEF Typed, Released, Key

LEMMA ArriveTyped == ASSUME Typed, NEW r \in Requests, Arrive(r) PROVE Typed'
<1>1. PICK u \in Users : StartToggle(r, u) \/ \E left \in 0..2 : Start(r, u, left)
  BY DEF Arrive
<1>2. CASE StartToggle(r, u)
  <2>1. [NoRequest EXCEPT !.pc = "act", !.user = u, !.left = 1] \in RequestRecords
    <3>1. 1 \in 0..2 /\ NoRequest \in RequestRecords
      BY Blanks
    <3>. QED
      BY <3>1 DEF RequestRecords
  <2>. QED
    BY <1>2, <2>1 DEF StartToggle, Typed, netbird, cache
<1>3. CASE \E left \in 0..2 : Start(r, u, left)
  <2>1. PICK left \in 0..2 : Start(r, u, left)
    BY <1>3
  <2>2. [NoRequest EXCEPT !.pc = "queue", !.user = u, !.left = left] \in RequestRecords
    BY Blanks DEF RequestRecords
  <2>3. req' \in [Requests -> RequestRecords]
    BY <2>1, <2>2 DEF Start, Typed
  <2>4. queue' \in [Users -> Seq(Requests)]
    BY <2>1, EnterTyped DEF Start
  <2>. QED
    BY <2>1, <2>3, <2>4 DEF Start, Typed, netbird
<1>. QED
  BY <1>1, <1>2, <1>3

LEMMA EndedTyped == \A pc \in {"done", "failed"} : Ended(pc) \in RequestRecords
  BY Blanks DEF Ended, RequestRecords

LEMMA GetTyped == ASSUME Typed, Queued, NEW r \in Requests, Get(r) PROVE Typed'
<1>0. req[r] \in RequestRecords /\ req[r].user \in Users
  BY DEF Typed, RequestRecords
<1>1. CASE Hit(r)
  <2>1. entries[req[r].user].snap \in Contents
    BY <1>0 DEF Typed, Entries
  <2>2. req' \in [Requests -> RequestRecords]
    BY <1>0, <1>1, <2>1 DEF Hit, Key, Typed, RequestRecords
  <2>. QED
    BY <1>1, <2>2, ReleasedTyped DEF Hit, Typed, netbird
<1>2. CASE Miss(r)
  <2>1. req' \in [Requests -> RequestRecords]
    BY <1>0, <1>2, Blanks DEF Miss, Typed, RequestRecords
  <2>. QED
    BY <1>2, <2>1 DEF Miss, Typed, netbird, cache
<1>3. CASE \E e \in Endpoints : Read(r, e)
  <2>1. PICK e \in Endpoints : Read(r, e)
    BY <1>3
  <2>2. Answer(req[r].user, e) \in Nat \cup {Hidden, Unread}
    BY DEF Answer, Typed
  <2>3. req[r].snap \in Contents
    BY <1>0 DEF RequestRecords
  <2>4. [req[r].snap EXCEPT ![e] = Answer(req[r].user, e)] \in Contents
    BY <2>2, <2>3 DEF Contents
  <2>5. [req[r] EXCEPT !.snap = [req[r].snap EXCEPT ![e] = Answer(req[r].user, e)]]
          \in RequestRecords
    BY <1>0, <2>4 DEF RequestRecords
  <2>6. req' \in [Requests -> RequestRecords]
    BY <2>1, <2>5 DEF Read, Typed
  <2>. QED
    BY <2>1, <2>6 DEF Read, Typed, netbird, cache
<1>4. CASE Loaded(r)
  <2>1. [at |-> 0, snap |-> req[r].snap, late |-> req[r].late] \in Entries
    BY <1>0, CacheConstants DEF Entries, RequestRecords
  <2>2. entries' \in [Users -> Entries]
    BY <1>0, <1>4, <2>1 DEF Loaded, Key, Typed
  <2>3. [req[r] EXCEPT !.pc = "act", !.late = {}, !.took = 0] \in RequestRecords
    <3>1. 0 \in 0..LoadLimit /\ {} \in Told
      BY CacheConstants DEF Told
    <3>. QED
      BY <1>0, <3>1 DEF RequestRecords
  <2>4. req' \in [Requests -> RequestRecords]
    BY <1>4, <2>3 DEF Loaded, Typed
  <2>5. Holder(r)
    BY <1>4 DEF Loaded, Queued
  <2>6. queue' \in [Users -> Seq(Requests)]
    BY <1>4, <2>5, ReleasedTyped DEF Loaded
  <2>. QED
    BY <1>4, <2>2, <2>4, <2>6 DEF Loaded, Typed, netbird
<1>5. CASE LoadFails(r)
  <2>1. req' \in [Requests -> RequestRecords]
    BY <1>5, EndedTyped DEF LoadFails, Typed
  <2>2. Holder(r)
    BY <1>5 DEF LoadFails, Queued
  <2>. QED
    BY <1>5, <2>1, <2>2, ReleasedTyped DEF LoadFails, Typed, netbird
<1>. QED
  BY <1>1, <1>2, <1>3, <1>4, <1>5 DEF Get

LEMMA HandleTyped == ASSUME Typed, Data, NEW r \in Requests, Handle(r) PROVE Typed'
<1>0. req[r] \in RequestRecords /\ req[r].user \in Users
  BY DEF Typed, RequestRecords
<1>1. CASE Render(r)
  <2>1. req' \in [Requests -> RequestRecords]
    BY <1>1, EndedTyped DEF Render, Typed
  <2>. QED
    BY <1>1, <2>1 DEF Render, Typed, netbird, cache
<1>2. CASE PutRefused(r)
  <2>1. CASE req[r].write = 0
    <3>1. req' \in [Requests -> RequestRecords]
      BY <1>2, <2>1, EndedTyped DEF PutRefused, Typed
    <3>. QED
      BY <1>2, <2>1, <3>1 DEF PutRefused, Typed, netbird, cache
  <2>2. CASE req[r].write # 0
    <3>1. [NoRequest EXCEPT !.pc = "queue", !.user = req[r].user] \in RequestRecords
      BY <1>0, Blanks DEF RequestRecords
    <3>2. req' \in [Requests -> RequestRecords]
      BY <1>2, <2>2, <3>1 DEF PutRefused, Typed
    <3>3. queue' \in [Users -> Seq(Requests)]
      BY <1>0, <1>2, <2>2, EnterTyped DEF PutRefused
    <3>4. entries' \in [Users -> Entries]
      BY <1>2, <2>2, Blanks DEF PutRefused, Invalidated
    <3>. QED
      BY <1>2, <3>2, <3>3, <3>4 DEF PutRefused, Typed, netbird
  <2>. QED
    BY <2>1, <2>2
<1>3. CASE PutAnswered(r)
  <2>1. req[r].write \in DOMAIN writes /\ req[r].write \in 1..MaxWrites
    BY <1>3, CacheConstants DEF PutAnswered, Data, RequestOK, Typed
  <2>2. entries' \in [Users -> Entries]
    BY <1>3, Blanks DEF PutAnswered, Invalidated
  <2>3. ASSUME NEW x \in Requests PROVE req'[x] \in RequestRecords
    <3>0. req[x] \in RequestRecords /\ req[x].late \in Told
      BY DEF Typed, RequestRecords
    <3>1. CASE x # r
      <4>1. req'[x] = [req[x] EXCEPT !.late = IF req[x].pc = "load"
                                              THEN req[x].late \cup {req[r].write} ELSE req[x].late]
        BY <1>3, <3>1 DEF PutAnswered
      <4>2. req[x].late \cup {req[r].write} \in Told
        BY <2>1, <3>0 DEF Told
      <4>. QED
        BY <3>0, <4>1, <4>2 DEF RequestRecords
    <3>2. CASE x = r
      <4>1. [req[r] EXCEPT !.pc = "act"] \in RequestRecords
        BY <1>0 DEF RequestRecords
      <4>. QED
        BY <1>3, <3>2, <4>1, EndedTyped DEF PutAnswered
    <3>. QED
      BY <3>1, <3>2
  <2>4. req' \in [Requests -> RequestRecords]
    BY <1>3, <2>3 DEF PutAnswered
  <2>. QED
    BY <1>3, <2>1, <2>2, <2>4 DEF PutAnswered, Typed, netbird
<1>4. CASE PutLost(r)
  <2>1. req' \in [Requests -> RequestRecords]
    BY <1>4, EndedTyped DEF PutLost, Typed
  <2>. QED
    BY <1>4, <2>1 DEF PutLost, Typed, netbird, cache
<1>5. CASE \E e \in Endpoints : Put(r, e)
  <2>1. PICK e \in Endpoints : Put(r, e)
    BY <1>5
  <2>2. Changes(e)
    BY <2>1 DEF Put
  <2>3. Len(writes) + 1 \in 0..MaxWrites
    BY <2>2, ChangesTyped, CacheConstants DEF Changes
  <2>4. req[r].left - 1 \in 0..2
    BY <1>0, <2>1 DEF Put, RequestRecords
  <2>5. [req[r] EXCEPT !.pc = "put", !.left = @ - 1, !.write = Len(writes) + 1, !.snap = Blank]
          \in RequestRecords
    BY <1>0, <2>3, <2>4, Blanks DEF RequestRecords
  <2>6. req' \in [Requests -> RequestRecords]
    BY <2>1, <2>5 DEF Put, Typed
  <2>7. told' \subseteq DOMAIN writes' /\ UNCHANGED <<entries, queue>>
    BY <2>1, <2>2, ChangesTyped DEF Put, Typed, cache
  <2>8. age' \in [1..MaxWrites -> 0..Oldest] /\ \A w \in 1..MaxWrites : w > Len(writes') => age'[w] = 0
    BY <2>2, ChangesTyped DEF Typed
  <2>. QED
    BY <2>2, <2>6, <2>7, <2>8, ChangesTyped DEF Typed
<1>. QED
  BY <1>1, <1>2, <1>3, <1>4, <1>5 DEF Handle

-----------------------------------------------------------------------------
(* The queues: no request enters or leaves, one enters, the holder leaves. *)

AtLock(q) == q.pc \in {"queue", "load"}

Rest(r) == \A x \in Requests \ {r} : req'[x].pc = req[x].pc /\ req'[x].user = req[x].user

LEMMA Staying ==
  ASSUME Typed, Queued, queue' = queue,
         \A x \in Requests : AtLock(req[x]) => AtLock(req'[x]) /\ req'[x].user = req[x].user,
         \A x \in Requests : req'[x].pc = "load" => AtLock(req[x]) /\ Holder(x)
  PROVE  Queued'
<1>1. ASSUME NEW u \in Users, NEW i \in 1..Len(queue[u])
      PROVE  queue[u][i] \in Requests
  BY DEF Typed
<1>2. \A u \in Users : \A i \in 1..Len(queue'[u]) :
        req'[queue'[u][i]].user = u /\ req'[queue'[u][i]].pc \in {"queue", "load"}
  BY <1>1 DEF Queued, AtLock
<1>3. \A x \in Requests : req'[x].pc = "load" => Holder(x)'
  BY DEF Holder, Key, AtLock
<1>. QED
  BY <1>2, <1>3 DEF Queued

LEMMA Entering ==
  ASSUME Typed, Queued, NEW r \in Requests, NEW u \in Users, Enter(r, u), Rest(r),
         ~AtLock(req[r]), req'[r].pc = "queue", req'[r].user = u
  PROVE  Queued'
<1>1. ASSUME NEW v \in Users
      PROVE  /\ queue[v] \in Seq(Requests) /\ Len(queue[v]) \in Nat
             /\ \A i \in 1..Len(queue[v]) : queue[v][i] \in Requests \ {r}
  BY DEF Typed, Queued, AtLock
<1>2. \A v \in Users \ {u} : queue'[v] = queue[v]
  BY DEF Enter, Key, Typed
<1>3. /\ queue'[u] = Append(queue[u], r)
      /\ Len(queue'[u]) = Len(queue[u]) + 1
      /\ \A i \in 1..Len(queue[u]) : queue'[u][i] = queue[u][i]
      /\ queue'[u][Len(queue[u]) + 1] = r
  BY <1>1 DEF Enter, Key, Typed
<1>4. ASSUME NEW v \in Users, NEW i \in 1..Len(queue'[v])
      PROVE  req'[queue'[v][i]].user = v /\ req'[queue'[v][i]].pc \in {"queue", "load"}
  <2>1. CASE v # u
    BY <1>1, <1>2, <2>1 DEF Queued, Rest
  <2>2. CASE v = u /\ i = Len(queue[u]) + 1
    BY <1>3, <2>2
  <2>3. CASE v = u /\ i # Len(queue[u]) + 1
    <3>1. i \in 1..Len(queue[u])
      BY <1>1, <1>3, <2>3
    <3>2. queue'[v][i] = queue[u][i] /\ queue[u][i] \in Requests \ {r}
      BY <1>1, <1>3, <2>3, <3>1
    <3>3. req[queue[u][i]].user = u /\ req[queue[u][i]].pc \in {"queue", "load"}
      BY <3>1 DEF Queued
    <3>. QED
      BY <2>3, <3>2, <3>3 DEF Rest
  <2>. QED
    BY <2>1, <2>2, <2>3
<1>5. ASSUME NEW v \in Users, NEW i \in 1..Len(queue'[v]), NEW j \in 1..Len(queue'[v]),
             queue'[v][i] = queue'[v][j]
      PROVE  i = j
  <2>1. CASE v # u
    BY <1>2, <1>5, <2>1 DEF Queued
  <2>2. CASE v = u
    <3>1. \A k \in 1..Len(queue'[v]) : k \in 1..Len(queue[u]) \/ k = Len(queue[u]) + 1
      BY <1>1, <1>3, <2>2
    <3>2. \A k \in 1..Len(queue[u]) : queue'[v][k] = queue[u][k] /\ queue[u][k] # r
      BY <1>1, <1>3, <2>2
    <3>3. CASE i \in 1..Len(queue[u]) /\ j \in 1..Len(queue[u])
      BY <1>5, <3>2, <3>3 DEF Queued
    <3>. QED
      BY <1>3, <1>5, <2>2, <3>1, <3>2, <3>3
  <2>. QED
    BY <2>1, <2>2
<1>6. ASSUME NEW x \in Requests, req'[x].pc = "load"
      PROVE  Holder(x)'
  <2>1. x # r /\ req[x].pc = "load" /\ req'[x].user = req[x].user /\ Holder(x)
    BY <1>6 DEF Rest, Queued
  <2>2. req[x].user \in Users
    BY DEF Typed, RequestRecords
  <2>3. CASE req[x].user # u
    BY <1>2, <2>1, <2>2, <2>3 DEF Holder, Key
  <2>4. CASE req[x].user = u
    <3>1. queue[u] # <<>> /\ Head(queue[u]) = x
      BY <2>1, <2>4 DEF Holder, Key
    <3>2. Append(queue[u], r) # <<>> /\ Head(Append(queue[u], r)) = x
      BY <1>1, <3>1
    <3>. QED
      BY <1>3, <2>1, <2>4, <3>2 DEF Holder, Key
  <2>. QED
    BY <2>3, <2>4
<1>. QED
  BY <1>4, <1>5, <1>6 DEF Queued

LEMMA Leaving ==
  ASSUME Typed, Queued, NEW r \in Requests, Holder(r), queue' = Released(r), Rest(r),
         req'[r].pc # "load"
  PROVE  Queued'
<1>. DEFINE u == req[r].user
<1>0. u \in Users
  BY DEF Typed, RequestRecords
<1>1. /\ queue[u] \in Seq(Requests) /\ queue[u] # <<>> /\ Len(queue[u]) \in Nat \ {0}
      /\ queue[u][1] = r
  BY <1>0 DEF Typed, Holder, Key
<1>2. \A v \in Users \ {u} : queue'[v] = queue[v]
  BY <1>0 DEF Released, Key, Typed
<1>3. /\ queue'[u] = Tail(queue[u]) /\ Len(queue'[u]) = Len(queue[u]) - 1
      /\ \A i \in 1..Len(queue'[u]) : i + 1 \in 1..Len(queue[u]) /\ queue'[u][i] = queue[u][i + 1]
  BY <1>0, <1>1 DEF Released, Key, Typed
<1>4. ASSUME NEW v \in Users, NEW i \in 1..Len(queue'[v])
      PROVE  req'[queue'[v][i]].user = v /\ req'[queue'[v][i]].pc \in {"queue", "load"}
  <2>1. CASE v # u
    <3>1. queue'[v][i] \in Requests /\ req[queue'[v][i]].user = v
      BY <1>2, <2>1 DEF Typed, Queued
    <3>. QED
      BY <1>2, <2>1, <3>1 DEF Queued, Rest
  <2>2. CASE v = u
    <3>0. i \in 1..Len(queue'[u]) /\ i + 1 # 1
      BY <2>2
    <3>1. i + 1 \in 1..Len(queue[u]) /\ queue'[u][i] = queue[u][i + 1] /\ 1 \in 1..Len(queue[u])
      BY <1>1, <1>3, <3>0
    <3>2. queue[u][i + 1] # queue[u][1]
      BY <1>0, <3>0, <3>1 DEF Queued
    <3>3. queue[u][i + 1] \in Requests \ {r}
      BY <1>1, <3>1, <3>2
    <3>. QED
      BY <1>0, <2>2, <3>1, <3>3 DEF Queued, Rest
  <2>. QED
    BY <2>1, <2>2
<1>5. ASSUME NEW v \in Users, NEW i \in 1..Len(queue'[v]), NEW j \in 1..Len(queue'[v]),
             queue'[v][i] = queue'[v][j]
      PROVE  i = j
  <2>1. CASE v # u
    BY <1>2, <1>5, <2>1 DEF Queued
  <2>2. CASE v = u
    <3>1. i + 1 \in 1..Len(queue[u]) /\ j + 1 \in 1..Len(queue[u])
          /\ queue[u][i + 1] = queue[u][j + 1]
      BY <1>3, <1>5, <2>2
    <3>2. i + 1 = j + 1
      BY <1>0, <3>1 DEF Queued
    <3>. QED
      BY <1>0, <1>1, <1>3, <2>2, <3>2
  <2>. QED
    BY <2>1, <2>2
<1>6. ASSUME NEW x \in Requests, req'[x].pc = "load"
      PROVE  Holder(x)'
  <2>1. x # r /\ req[x].pc = "load" /\ req'[x].user = req[x].user /\ Holder(x)
    BY <1>6 DEF Rest, Queued
  <2>2. req[x].user \in Users
    BY DEF Typed, RequestRecords
  <2>3. req[x].user # u
    BY <2>1 DEF Holder, Key
  <2>. QED
    BY <1>2, <2>1, <2>2, <2>3 DEF Holder, Key
<1>. QED
  BY <1>4, <1>5, <1>6 DEF Queued

LEMMA ArriveQueued == ASSUME Typed, Queued, NEW r \in Requests, Arrive(r) PROVE Queued'
<1>1. PICK u \in Users : StartToggle(r, u) \/ \E left \in 0..2 : Start(r, u, left)
  BY DEF Arrive
<1>2. CASE StartToggle(r, u)
  <2>1. queue' = queue /\ ~AtLock(req[r]) /\ req'[r].pc = "act"
    BY <1>2 DEF StartToggle, cache, AtLock, Typed, NoRequest
  <2>2. \A x \in Requests \ {r} : req'[x] = req[x]
    BY <1>2 DEF StartToggle, Typed
  <2>. QED
    BY <2>1, <2>2, Staying DEF AtLock, Queued
<1>3. CASE \E left \in 0..2 : Start(r, u, left)
  <2>1. PICK left \in 0..2 : Start(r, u, left)
    BY <1>3
  <2>2. Enter(r, u) /\ ~AtLock(req[r]) /\ req'[r].pc = "queue" /\ req'[r].user = u
    BY <2>1 DEF Start, AtLock, Typed, NoRequest
  <2>3. Rest(r)
    BY <2>1 DEF Start, Typed, Rest
  <2>. QED
    BY <2>2, <2>3, Entering
<1>. QED
  BY <1>1, <1>2, <1>3

LEMMA GetQueued == ASSUME Typed, Queued, NEW r \in Requests, Get(r) PROVE Queued'
<1>1. CASE Hit(r)
  <2>1. req'[r].pc # "load" /\ Rest(r)
    BY <1>1 DEF Hit, Typed, RequestRecords, Rest
  <2>. QED
    BY <1>1, <2>1, Leaving DEF Hit
<1>2. CASE Miss(r)
  <2>1. queue' = queue /\ AtLock(req[r]) /\ AtLock(req'[r]) /\ req'[r].user = req[r].user /\ Holder(r)
    BY <1>2 DEF Miss, cache, AtLock, Typed, RequestRecords
  <2>2. \A x \in Requests \ {r} : req'[x] = req[x]
    BY <1>2 DEF Miss, Typed
  <2>. QED
    BY <2>1, <2>2, Staying DEF AtLock, Queued
<1>3. CASE \E e \in Endpoints : Read(r, e)
  <2>1. PICK e \in Endpoints : Read(r, e)
    BY <1>3
  <2>2. queue' = queue /\ req[r].pc = "load" /\ req'[r].pc = "load" /\ req'[r].user = req[r].user
    BY <2>1 DEF Read, cache, Typed, RequestRecords
  <2>3. \A x \in Requests \ {r} : req'[x] = req[x]
    BY <2>1 DEF Read, Typed
  <2>. QED
    BY <2>2, <2>3, Staying DEF AtLock, Queued
<1>4. CASE Loaded(r)
  <2>1. req'[r].pc # "load" /\ Rest(r)
    BY <1>4 DEF Loaded, Typed, RequestRecords, Rest
  <2>. QED
    BY <1>4, <2>1, Leaving DEF Loaded, Queued
<1>5. CASE LoadFails(r)
  <2>1. req'[r].pc # "load" /\ Rest(r)
    BY <1>5 DEF LoadFails, Typed, RequestRecords, Rest, Ended, NoRequest
  <2>. QED
    BY <1>5, <2>1, Leaving DEF LoadFails, Queued
<1>. QED
  BY <1>1, <1>2, <1>3, <1>4, <1>5 DEF Get

LEMMA HandleQueued == ASSUME Typed, Queued, NEW r \in Requests, Handle(r) PROVE Queued'
<1>1. CASE PutRefused(r) /\ req[r].write # 0
  <2>1. Enter(r, req[r].user) /\ ~AtLock(req[r]) /\ req'[r].pc = "queue"
        /\ req'[r].user = req[r].user /\ req[r].user \in Users
    BY <1>1 DEF PutRefused, AtLock, Typed, RequestRecords, NoRequest
  <2>2. Rest(r)
    BY <1>1 DEF PutRefused, Typed, Rest
  <2>. QED
    BY <2>1, <2>2, Entering
<1>2. CASE ~(PutRefused(r) /\ req[r].write # 0)
  <2>1. queue' = queue
    BY <1>2 DEF Handle, Render, PutRefused, PutAnswered, PutLost, Put, cache
  <2>2. ~AtLock(req[r])
    BY <1>2 DEF Handle, Render, PutRefused, PutAnswered, PutLost, Put, AtLock
  <2>3. req'[r].pc \in {"act", "put", "done", "failed"}
    <3>1. CASE PutAnswered(r)
      BY <3>1 DEF PutAnswered, Typed, RequestRecords, Ended, NoRequest
    <3>2. CASE \E e \in Endpoints : Put(r, e)
      BY <3>2 DEF Put, Typed, RequestRecords
    <3>3. CASE Render(r) \/ PutLost(r) \/ (PutRefused(r) /\ req[r].write = 0)
      BY <3>3 DEF Render, PutLost, PutRefused, Typed, Ended, NoRequest
    <3>. QED
      BY <1>2, <3>1, <3>2, <3>3 DEF Handle
  <2>4. Rest(r)
    <3>1. CASE PutAnswered(r)
      BY <3>1 DEF PutAnswered, Typed, RequestRecords, Rest
    <3>2. CASE \E e \in Endpoints : Put(r, e)
      BY <3>2 DEF Put, Typed, Rest
    <3>3. CASE Render(r) \/ PutLost(r) \/ (PutRefused(r) /\ req[r].write = 0)
      BY <3>3 DEF Render, PutLost, PutRefused, Typed, Rest
    <3>. QED
      BY <1>2, <3>1, <3>2, <3>3 DEF Handle
  <2>. QED
    BY <2>1, <2>2, <2>3, <2>4, Staying DEF AtLock, Rest, Queued
<1>. QED
  BY <1>1, <1>2

-----------------------------------------------------------------------------
(* What the snapshots show. *)

LEMMA BlankFine ==
  ASSUME Typed
  PROVE  \A u, late, limit : Shown(u, Blank, late) /\ Aged(u, Blank, limit) /\ Allowed(u, Blank)
  BY DEF Typed, Shown, Aged, Allowed, Blank

(* A request that is not in NetBird's hands has nothing in its. *)
LEMMA NothingInHand ==
  ASSUME Typed, NEW q, q.snap = Blank, q.pc # "load", q.pc # "put"
  PROVE  RequestOK(q)
  BY BlankFine DEF RequestOK

LEMMA NoEntryFine == ASSUME Typed PROVE \A u : EntryOK(u, NoEntry)
  BY BlankFine DEF EntryOK, NoEntry

(* Steps that leave NetBird alone change at most one request. *)
LEMMA Reading ==
  ASSUME Data, NEW r \in Requests, UNCHANGED <<netbird, told>>,
         \A x \in Requests \ {r} : req'[x] = req[x], RequestOK(req'[r]),
         \A u \in Users : EntryOK(u, entries'[u])
  PROVE  Data'
<1>1. UNCHANGED <<config, writes, age, told>>
  BY DEF netbird
<1>2. \A x \in Requests : RequestOK(req'[x])
  BY DEF Data
<1>3. \A x \in Requests : RequestOK(req[x])'
  BY <1>1, <1>2 DEF RequestOK, Shown, Aged, Allowed, Misses
<1>4. \A u \in Users : EntryOK(u, entries[u])'
  BY <1>1 DEF EntryOK, Shown, Aged, Allowed, Misses, Complete, NoEntry
<1>. QED
  BY <1>1, <1>3, <1>4 DEF Data

LEMMA Ages == ASSUME Typed PROVE \A w \in DOMAIN writes : w \in 1..MaxWrites /\ age[w] \in Nat
<1>1. \A w \in DOMAIN writes : w \in 1..MaxWrites
  BY CacheConstants DEF Typed
<1>2. Oldest \in Nat
  BY CacheConstants DEF Oldest
<1>. QED
  BY <1>1, <1>2 DEF Typed

LEMMA ArriveData == ASSUME Typed, Data, NEW r \in Requests, Arrive(r) PROVE Data'
<1>1. UNCHANGED <<netbird, told, entries>> /\ \A x \in Requests \ {r} : req'[x] = req[x]
  BY DEF Arrive, Start, StartToggle, cache, Typed
<1>2. req'[r].snap = Blank /\ req'[r].pc \in {"queue", "act"}
  <2>1. PICK u \in Users : StartToggle(r, u) \/ \E left \in 0..2 : Start(r, u, left)
    BY DEF Arrive
  <2>2. CASE StartToggle(r, u)
    BY <2>2 DEF StartToggle, Typed, NoRequest
  <2>3. CASE \E left \in 0..2 : Start(r, u, left)
    BY <2>3 DEF Start, Typed, NoRequest
  <2>. QED
    BY <2>1, <2>2, <2>3
<1>3. RequestOK(req'[r])
  BY <1>2, NothingInHand
<1>4. \A u \in Users : EntryOK(u, entries'[u])
  BY <1>1 DEF Data
<1>. QED
  BY <1>1, <1>3, <1>4, Reading

LEMMA GetData == ASSUME Typed, Data, NEW r \in Requests, Get(r) PROVE Data'
<1>. DEFINE u == req[r].user
<1>0. /\ UNCHANGED <<netbird, told>> /\ \A x \in Requests \ {r} : req'[x] = req[x]
      /\ req[r] \in RequestRecords /\ u \in Users /\ RequestOK(req[r]) /\ EntryOK(u, entries[u])
  <2>1. UNCHANGED <<netbird, told>> /\ \A x \in Requests \ {r} : req'[x] = req[x]
    BY DEF Get, Hit, Miss, Read, Loaded, LoadFails, Typed
  <2>2. req[r] \in RequestRecords /\ u \in Users
    BY DEF Typed, RequestRecords
  <2>. QED
    BY <2>1, <2>2 DEF Data
<1>1. CASE Hit(r)
  <2>1. req'[r].pc = "act" /\ req'[r].user = u /\ req'[r].snap = entries[u].snap
    BY <1>0, <1>1 DEF Hit, Key, Typed, RequestRecords
  <2>2. RequestOK(req'[r])
    BY <1>0, <2>1 DEF RequestOK, EntryOK
  <2>3. entries' = entries
    BY <1>1 DEF Hit
  <2>. QED
    BY <1>0, <2>2, <2>3, Reading DEF Data
<1>2. CASE Miss(r)
  <2>1. req'[r].user = u /\ req'[r].pc = "load" /\ req'[r].snap = Blank
    BY <1>0, <1>2 DEF Miss, Typed, RequestRecords
  <2>2. RequestOK(req'[r])
    BY <2>1, BlankFine DEF RequestOK
  <2>3. entries' = entries
    BY <1>2 DEF Miss, cache
  <2>. QED
    BY <1>0, <2>2, <2>3, Reading DEF Data
<1>3. CASE \E e \in Endpoints : Read(r, e)
  <2>1. PICK e \in Endpoints : Read(r, e)
    BY <1>3
  <2>. DEFINE old == req[r].snap
              new == req'[r].snap
  <2>2. /\ req'[r].user = u /\ req[r].pc = "load" /\ req'[r].pc = "load"
        /\ req'[r].late = req[r].late /\ req'[r].took = req[r].took
        /\ new = [old EXCEPT ![e] = Answer(u, e)]
    BY <1>0, <2>1 DEF Read, Typed, RequestRecords
  <2>3. new[e] = Answer(u, e) /\ \A x \in Endpoints \ {e} : new[x] = old[x]
    BY <1>0, <2>2 DEF RequestRecords, Contents
  <2>4. \A w \in DOMAIN writes : writes[w] \in Endpoints
    BY DEF Typed
  <2>5. \A w \in DOMAIN writes : writes[w] = e => ~Misses(u, new, w)
    <3>1. SUFFICES ASSUME NEW w \in DOMAIN writes, writes[w] = e, e \in Sees[u], config[e] < w
                   PROVE  FALSE
      BY <2>3 DEF Misses, Answer
    <3>2. w <= config[e] /\ w \in Nat /\ config[e] \in Nat
      BY <3>1 DEF Data, Typed
    <3>. QED
      BY <3>1, <3>2
  <2>6. \A w \in DOMAIN writes : writes[w] # e => new[writes[w]] = old[writes[w]]
    BY <2>3, <2>4
  <2>7. Shown(u, new, req[r].late)
    BY <1>0, <2>2, <2>5, <2>6 DEF Shown, Misses, RequestOK, Typed
  <2>8. Aged(u, new, req[r].took)
    BY <1>0, <2>2, <2>5, <2>6 DEF Aged, Misses, RequestOK
  <2>9. Allowed(u, new)
    BY <1>0, <2>3 DEF Allowed, Answer, RequestOK
  <2>10. RequestOK(req'[r])
    BY <2>2, <2>7, <2>8, <2>9 DEF RequestOK
  <2>11. entries' = entries
    BY <2>1 DEF Read, cache
  <2>. QED
    BY <1>0, <2>10, <2>11, Reading DEF Data
<1>4. CASE Loaded(r)
  <2>1. req'[r].user = u /\ req'[r].pc = "act" /\ req'[r].snap = req[r].snap /\ req[r].pc = "load"
    BY <1>0, <1>4 DEF Loaded, Typed, RequestRecords
  <2>2. RequestOK(req'[r])
    BY <1>0, <2>1 DEF RequestOK
  <2>. DEFINE entry == [at |-> 0, snap |-> req[r].snap, late |-> req[r].late]
  <2>3. Aged(u, req[r].snap, LoadLimit)
    <3>1. req[r].took \in 0..LoadLimit /\ \A w \in DOMAIN writes : age[w] \in Nat
      BY <1>0, Ages DEF RequestRecords
    <3>. QED
      BY <1>0, <2>1, <3>1, CacheConstants DEF RequestOK, Aged
  <2>4. Complete(req[r].snap)
    BY <1>4 DEF Loaded, Complete
  <2>5. EntryOK(u, entry)
    <3>1. 0 + LoadLimit = LoadLimit
      BY CacheConstants
    <3>. QED
      BY <1>0, <2>1, <2>3, <2>4, <3>1 DEF RequestOK, EntryOK
  <2>6. \A v \in Users : entries'[v] = IF v = u THEN entry ELSE entries[v]
    BY <1>4 DEF Loaded, Key, Typed
  <2>7. \A v \in Users : EntryOK(v, entries'[v])
    BY <2>5, <2>6 DEF Data
  <2>. QED
    BY <1>0, <2>2, <2>7, Reading
<1>5. CASE LoadFails(r)
  <2>1. req'[r].snap = Blank /\ req'[r].pc = "failed" /\ entries' = entries
    BY <1>0, <1>5 DEF LoadFails, Typed, Ended, NoRequest
  <2>2. RequestOK(req'[r])
    BY <2>1, NothingInHand
  <2>. QED
    BY <1>0, <2>1, <2>2, Reading DEF Data
<1>. QED
  BY <1>1, <1>2, <1>3, <1>4, <1>5 DEF Get

(* A new write has age 0 and is not told yet. *)
LEMMA ChangesKeep ==
  ASSUME Typed, NEW e \in Endpoints, Changes(e), told' = told
  PROVE  /\ \A u, snap, late : Shown(u, snap, late) => Shown(u, snap, late)'
         /\ \A u, snap : \A limit \in Nat : Aged(u, snap, limit) => Aged(u, snap, limit)'
<1>1. told \subseteq DOMAIN writes
  BY DEF Typed
<1>2. \A u, snap, late : Shown(u, snap, late) => Shown(u, snap, late)'
  BY <1>1, ChangesTyped DEF Shown, Misses
<1>3. ASSUME NEW u, NEW snap, NEW limit \in Nat, Aged(u, snap, limit),
             NEW w \in DOMAIN writes', snap[writes'[w]] # Unread, Misses(u, snap, w)'
      PROVE  age'[w] <= limit
  <2>1. CASE w = Len(writes) + 1
    BY <2>1, ChangesTyped
  <2>2. CASE w \in DOMAIN writes
    BY <1>3, <2>2, ChangesTyped DEF Aged, Misses
  <2>. QED
    BY <2>1, <2>2, ChangesTyped
<1>. QED
  BY <1>2, <1>3 DEF Aged

LEMMA ChangesData ==
  ASSUME Typed, Data, NEW e \in Endpoints, Changes(e), told' = told, entries' = entries
  PROVE  /\ \A w \in DOMAIN writes' : w <= config'[writes'[w]]
         /\ \A x \in Requests : req'[x] = req[x] => RequestOK(req[x])'
         /\ \A u \in Users : EntryOK(u, entries[u])'
<1>1. ASSUME NEW w \in DOMAIN writes' PROVE w <= config'[writes'[w]]
  <2>1. config' = [config EXCEPT ![e] = Len(writes) + 1]
    BY DEF Changes
  <2>2. CASE w = Len(writes) + 1
    BY <2>1, <2>2, ChangesTyped DEF Typed
  <2>3. CASE w \in DOMAIN writes
    <3>0. w \in Nat /\ w <= Len(writes) /\ writes'[w] = writes[w]
      BY <2>3, ChangesTyped
    <3>1. w <= config[writes[w]] /\ writes[w] \in Endpoints
      BY <2>3 DEF Data, Typed
    <3>. QED
      BY <2>1, <3>0, <3>1, ChangesTyped DEF Typed
  <2>. QED
    BY <2>2, <2>3, ChangesTyped
<1>2. ASSUME NEW x \in Requests, req'[x] = req[x] PROVE RequestOK(req[x])'
  <2>1. RequestOK(req[x]) /\ req[x].took \in Nat
    BY CacheConstants DEF Data, Typed, RequestRecords
  <2>2. DOMAIN writes \subseteq DOMAIN writes'
    BY ChangesTyped
  <2>. QED
    BY <1>2, <2>1, <2>2, ChangesKeep DEF RequestOK, Allowed
<1>3. ASSUME NEW u \in Users PROVE EntryOK(u, entries[u])'
  <2>1. EntryOK(u, entries[u]) /\ entries[u].at + LoadLimit \in Nat
    BY CacheConstants DEF Data, Typed, Entries
  <2>. QED
    BY <2>1, ChangesKeep DEF EntryOK, Allowed, Complete, NoEntry
<1>. QED
  BY <1>1, <1>2, <1>3

LEMMA ElsewhereData == ASSUME Typed, Data, NEW e \in Endpoints, Elsewhere(e) PROVE Data'
<1>1. UNCHANGED <<entries, req, told>> /\ Changes(e)
  BY DEF Elsewhere, cache
<1>. QED
  BY <1>1, ChangesData DEF Data

LEMMA HandleData == ASSUME Typed, Data, NEW r \in Requests, Handle(r) PROVE Data'
<1>1. CASE Render(r) \/ PutLost(r) \/ (PutRefused(r) /\ req[r].write = 0)
  <2>1. UNCHANGED <<netbird, told, entries>> /\ \A x \in Requests \ {r} : req'[x] = req[x]
    BY <1>1 DEF Render, PutLost, PutRefused, cache, Typed
  <2>2. req'[r].snap = Blank /\ req'[r].pc \in {"done", "failed"}
    BY <1>1 DEF Render, PutLost, PutRefused, Typed, Ended, NoRequest
  <2>3. RequestOK(req'[r])
    BY <2>2, NothingInHand
  <2>. QED
    BY <2>1, <2>3, Reading DEF Data
<1>2. CASE PutRefused(r) /\ req[r].write # 0
  <2>1. UNCHANGED <<netbird, told>> /\ \A x \in Requests \ {r} : req'[x] = req[x]
    BY <1>2 DEF PutRefused, Typed
  <2>2. req'[r].snap = Blank /\ req'[r].pc = "queue"
    BY <1>2 DEF PutRefused, Typed, NoRequest
  <2>3. RequestOK(req'[r])
    BY <2>2, NothingInHand
  <2>4. \A u \in Users : entries'[u] = NoEntry
    BY <1>2 DEF PutRefused, Invalidated
  <2>. QED
    BY <2>1, <2>3, <2>4, NoEntryFine, Reading
<1>3. CASE PutAnswered(r)
  <2>1. UNCHANGED <<config, writes, age>> /\ told' = told \cup {req[r].write}
    BY <1>3 DEF PutAnswered, netbird
  <2>2. \A u, late, limit : Shown(u, Blank, late)' /\ Aged(u, Blank, limit)' /\ Allowed(u, Blank)'
    <3>1. \A w \in DOMAIN writes : writes[w] \in Endpoints
      BY DEF Typed
    <3>2. told' \subseteq DOMAIN writes
      BY <1>3, <2>1 DEF PutAnswered, Data, RequestOK, Typed
    <3>. QED
      BY <2>1, <3>1, <3>2 DEF Shown, Aged, Allowed, Blank
  <2>3. ASSUME NEW u \in Users PROVE EntryOK(u, entries[u])'
    <3>1. entries'[u] = NoEntry
      BY <1>3 DEF PutAnswered, Invalidated
    <3>2. entries'[u].snap = Blank /\ entries'[u] = NoEntry'
      BY <3>1 DEF NoEntry, Blank
    <3>3. Blank' = Blank
      BY DEF Blank
    <3>. QED
      BY <2>2, <3>2, <3>3 DEF EntryOK
  <2>4. ASSUME NEW x \in Requests PROVE RequestOK(req[x])'
    <3>1. req[x] \in RequestRecords /\ RequestOK(req[x])
      BY DEF Typed, Data
    <3>2. CASE x # r
      <4>1. req'[x] = [req[x] EXCEPT !.late = IF req[x].pc = "load"
                                              THEN req[x].late \cup {req[r].write} ELSE req[x].late]
        BY <1>3, <3>2 DEF PutAnswered
      <4>2. CASE req[x].pc = "load"
        <5>1. /\ req'[x].pc = "load" /\ req'[x].user = req[x].user /\ req'[x].snap = req[x].snap
              /\ req'[x].late = req[x].late \cup {req[r].write} /\ req'[x].took = req[x].took
          BY <3>1, <4>1, <4>2 DEF RequestRecords
        <5>2. Shown(req[x].user, req[x].snap, req[x].late) /\ Aged(req[x].user, req[x].snap, req[x].took)
          BY <3>1, <4>2 DEF RequestOK
        <5>3. Shown(req[x].user, req[x].snap, req[x].late)'
          BY <2>1, <5>1, <5>2 DEF Shown, Misses
        <5>4. Aged(req[x].user, req[x].snap, req[x].took)'
          BY <2>1, <5>1, <5>2 DEF Aged, Misses
        <5>. QED
          BY <3>1, <5>1, <5>3, <5>4 DEF RequestOK, Allowed
      <4>3. CASE req[x].pc # "load"
        <5>1. req'[x] = req[x]
          BY <3>1, <4>1, <4>3 DEF RequestRecords
        <5>. QED
          BY <2>1, <3>1, <4>3, <5>1 DEF RequestOK, Allowed
      <4>. QED
        BY <4>2, <4>3
    <3>3. CASE x = r /\ req[r].left > 0
      <4>1. req'[x].pc = "act" /\ req'[x].snap = req[x].snap /\ req'[x].user = req[x].user
        BY <1>3, <3>1, <3>3 DEF PutAnswered, RequestRecords
      <4>. QED
        BY <3>1, <4>1 DEF RequestOK, Allowed
    <3>4. CASE x = r /\ ~(req[r].left > 0)
      <4>1. req'[x].pc = "done" /\ req'[x].snap = Blank
        BY <1>3, <3>4 DEF PutAnswered, Ended, NoRequest
      <4>. QED
        BY <4>1, BlankFine DEF RequestOK, Allowed
    <3>. QED
      BY <3>2, <3>3, <3>4
  <2>. QED
    BY <2>1, <2>3, <2>4 DEF Data
<1>4. CASE \E e \in Endpoints : Put(r, e)
  <2>1. PICK e \in Endpoints : Put(r, e)
    BY <1>4
  <2>2. Changes(e) /\ told' = told /\ entries' = entries /\ \A x \in Requests \ {r} : req'[x] = req[x]
    BY <2>1 DEF Put, cache, Typed
  <2>3. req'[r].pc = "put" /\ req'[r].write = Len(writes) + 1 /\ req'[r].snap = Blank
    BY <2>1 DEF Put, Typed, RequestRecords
  <2>4. RequestOK(req[r])'
    <3>1. req'[r].write \in DOMAIN writes'
      BY <2>2, <2>3, ChangesTyped
    <3>2. Allowed(req[r].user, req[r].snap)'
      BY <2>3 DEF Allowed, Blank
    <3>. QED
      BY <2>3, <3>1, <3>2 DEF RequestOK
  <2>5. \A x \in Requests : RequestOK(req[x])'
    BY <2>2, <2>4, ChangesData
  <2>6. \A u \in Users : EntryOK(u, entries[u])'
    BY <2>2, ChangesData
  <2>. QED
    BY <2>2, <2>5, <2>6, ChangesData DEF Data
<1>. QED
  BY <1>1, <1>2, <1>3, <1>4 DEF Handle

LEMMA TickData == ASSUME Typed, Data, Tick PROVE Data'
<1>1. UNCHANGED <<config, writes, told>>
  BY DEF Tick
<1>2. ASSUME NEW w \in DOMAIN writes
      PROVE  age[w] \in Nat /\ age'[w] \in Nat /\ age'[w] <= age[w] + 1 /\ age'[w] <= Oldest
  <2>1. w \in 1..MaxWrites /\ age[w] \in 0..Oldest /\ Oldest \in Nat
    <3>1. w \in 1..MaxWrites /\ Oldest \in Nat
      BY Ages, CacheConstants DEF Oldest
    <3>. QED
      BY <3>1 DEF Typed
  <2>2. age'[w] = Older(age[w], Oldest)
    BY <2>1 DEF Tick
  <2>. QED
    BY <2>1, <2>2 DEF Older
<1>3. ASSUME NEW x \in Requests PROVE RequestOK(req[x])'
  <2>1. req[x] \in RequestRecords /\ RequestOK(req[x])
    BY DEF Typed, Data
  <2>2. CASE req[x].pc = "load"
    <3>1. /\ req'[x].pc = "load" /\ req'[x].user = req[x].user /\ req'[x].snap = req[x].snap
          /\ req'[x].late = req[x].late /\ req'[x].took = req[x].took + 1 /\ req[x].took \in Nat
      BY <2>1, <2>2, CacheConstants DEF Tick, RequestRecords
    <3>2. Shown(req[x].user, req[x].snap, req[x].late)'
      BY <1>1, <2>1, <2>2, <3>1 DEF RequestOK, Shown, Misses
    <3>3. Aged(req[x].user, req[x].snap, req[x].took)'
      BY <1>1, <1>2, <2>1, <2>2, <3>1 DEF RequestOK, Aged, Misses
    <3>. QED
      BY <2>1, <3>1, <3>2, <3>3 DEF RequestOK, Allowed
  <2>3. CASE req[x].pc # "load"
    <3>1. req'[x] = req[x]
      BY <2>3 DEF Tick
    <3>. QED
      BY <1>1, <2>1, <2>3, <3>1 DEF RequestOK, Allowed
  <2>. QED
    BY <2>2, <2>3
<1>4. ASSUME NEW u \in Users PROVE EntryOK(u, entries[u])'
  <2>1. entries[u] \in Entries /\ EntryOK(u, entries[u])
    BY DEF Typed, Data
  <2>2. /\ entries'[u] = [entries[u] EXCEPT !.at = Older(entries[u].at, Ttl)]
        /\ entries'[u].snap = entries[u].snap /\ entries'[u].late = entries[u].late
        /\ entries'[u].at = Older(entries[u].at, Ttl)
    BY <2>1 DEF Tick, Entries
  <2>3. Aged(u, entries[u].snap, entries[u].at + LoadLimit)'
    <3>1. CASE entries[u].at < Ttl
      <4>1. /\ entries'[u].at + LoadLimit = entries[u].at + LoadLimit + 1
            /\ entries[u].at + LoadLimit \in Nat
        BY <2>1, <2>2, <3>1, CacheConstants DEF Older, Entries
      <4>. QED
        BY <1>1, <1>2, <2>1, <2>2, <4>1 DEF EntryOK, Aged, Misses
    <3>2. CASE ~(entries[u].at < Ttl)
      <4>1. entries'[u].at + LoadLimit = Oldest
        BY <2>1, <2>2, <3>2, CacheConstants DEF Older, Entries, Oldest
      <4>. QED
        BY <1>1, <1>2, <4>1 DEF Aged
    <3>. QED
      BY <3>1, <3>2
  <2>4. Shown(u, entries[u].snap, entries[u].late)' /\ Allowed(u, entries[u].snap)'
    BY <1>1, <2>1, <2>2 DEF EntryOK, Shown, Misses, Allowed
  <2>5. (entries[u] = NoEntry \/ Complete(entries[u].snap))'
    <3>1. CASE entries[u] = NoEntry
      <4>1. Older(entries[u].at, Ttl) = Ttl
        BY <3>1, CacheConstants DEF NoEntry, Older
      <4>2. entries'[u] = NoEntry
        BY <2>2, <3>1, <4>1 DEF NoEntry
      <4>. QED
        BY <4>2 DEF NoEntry, Blank
    <3>2. CASE Complete(entries[u].snap)
      BY <2>2, <3>2 DEF Complete
    <3>. QED
      BY <2>1, <3>1, <3>2 DEF EntryOK
  <2>. QED
    BY <2>3, <2>4, <2>5 DEF EntryOK
<1>5. \A w \in DOMAIN writes' : w <= config'[writes'[w]]
  BY <1>1 DEF Data
<1>. QED
  BY <1>3, <1>4, <1>5 DEF Data

LEMMA TickQueued == ASSUME Typed, Queued, Tick PROVE Queued'
<1>1. queue' = queue
  BY DEF Tick
<1>2. \A x \in Requests : req'[x].pc = req[x].pc /\ req'[x].user = req[x].user
  BY DEF Tick, Typed, RequestRecords
<1>. QED
  BY <1>1, <1>2, Staying DEF AtLock, Queued

-----------------------------------------------------------------------------
(* The theorems *)

LEMMA InitInv == Init => Inv
<1>. SUFFICES ASSUME Init PROVE Inv
  OBVIOUS
<1>1. Typed
  <2>1. writes = <<>> /\ Len(writes) = 0 /\ DOMAIN writes = {}
    BY DEF Init
  <2>2. age \in [1..MaxWrites -> 0..Oldest] /\ \A w \in 1..MaxWrites : age[w] = 0
    BY CacheConstants DEF Init, Oldest
  <2>3. config \in [Endpoints -> 0..Len(writes)] /\ queue \in [Users -> Seq(Requests)]
    BY <2>1 DEF Init
  <2>. QED
    BY <2>1, <2>2, <2>3, Blanks, CacheConstants DEF Init, Typed
<1>2. Queued
  BY DEF Init, Queued, NoRequest
<1>3. Data
  <2>1. DOMAIN writes = {} /\ told = {}
    BY DEF Init
  <2>2. \A r \in Requests : RequestOK(req[r])
    BY <1>1, NothingInHand DEF Init, NoRequest
  <2>3. \A u \in Users : EntryOK(u, entries[u])
    BY <1>1, NoEntryFine DEF Init
  <2>. QED
    BY <2>1, <2>2, <2>3 DEF Data
<1>. QED
  BY <1>1, <1>2, <1>3 DEF Inv

LEMMA NextInv == Inv /\ [Next]_vars => Inv'
<1>. SUFFICES ASSUME Inv, [Next]_vars PROVE Inv'
  OBVIOUS
<1>. USE DEF Inv
<1>1. CASE Tick
  BY <1>1, TickTyped, TickQueued, TickData
<1>2. CASE \E e \in Endpoints : Elsewhere(e)
  <2>1. PICK e \in Endpoints : Elsewhere(e)
    BY <1>2
  <2>2. Queued'
    <3>1. queue' = queue /\ req' = req
      BY <2>1 DEF Elsewhere, cache
    <3>. QED
      BY <3>1, Staying DEF AtLock, Queued
  <2>. QED
    BY <2>1, <2>2, ElsewhereTyped, ElsewhereData
<1>3. CASE \E r \in Requests : Arrive(r)
  BY <1>3, ArriveTyped, ArriveQueued, ArriveData
<1>4. CASE \E r \in Requests : Get(r)
  BY <1>4, GetTyped, GetQueued, GetData
<1>5. CASE \E r \in Requests : Handle(r)
  BY <1>5, HandleTyped, HandleQueued, HandleData
<1>6. CASE UNCHANGED vars
  <2>1. UNCHANGED <<config, writes, age, entries, queue, req, told>>
    BY <1>6 DEF vars, netbird, cache
  <2>2. Typed'
    BY <2>1 DEF Typed
  <2>3. Queued'
    BY <2>1, Staying DEF AtLock, Queued
  <2>4. Data'
    BY <2>1 DEF Data, RequestOK, EntryOK, Shown, Aged, Allowed, Misses, Complete, NoEntry
  <2>. QED
    BY <2>2, <2>3, <2>4
<1>. QED
  BY <1>1, <1>2, <1>3, <1>4, <1>5, <1>6 DEF Next

LEMMA AlwaysInv == Spec => []Inv
  BY InitInv, NextInv, PTL DEF Spec

(* The cache, its locks and the requests keep their types; a queue at a    *)
(* user's lock holds only requests of that user which wait or load.        *)
THEOREM CacheTypes == Spec => []TypeOK
<1>1. Inv => TypeOK
  <2>. SUFFICES ASSUME Inv PROVE TypeOK
    OBVIOUS
  <2>1. \A u \in Users : DOMAIN queue[u] = 1..Len(queue[u])
    BY DEF Inv, Typed
  <2>. QED
    BY <2>1 DEF Inv, Typed, Queued, TypeOK
<1>. QED
  BY <1>1, AlwaysInv, PTL

(* For any number of users, requests and writes, an entry that lacks a     *)
(* told write comes from a load that was under way at its invalidation.    *)
THEOREM OnlyLateLoads == Spec => []LateLoadsOnly
<1>1. Inv => LateLoadsOnly
  <2>. SUFFICES ASSUME Inv, NEW u \in Users, NEW w \in told, entries[u] # NoEntry,
                       Misses(u, entries[u].snap, w)
                PROVE  w \in entries[u].late
    BY DEF LateLoadsOnly
  <2>1. EntryOK(u, entries[u]) /\ writes[w] \in Endpoints
    BY DEF Inv, Data, Typed
  <2>. QED
    BY <2>1 DEF EntryOK, Complete, Shown
<1>. QED
  BY <1>1, AlwaysInv, PTL

(* No page of a user is made from what NetBird hides from that user,       *)
(* whatever the others may read and load.                                  *)
THEOREM NeverShared == Spec => []NotShared
<1>1. Inv => NotShared
  BY DEF Inv, Data, RequestOK, Allowed, NotShared
<1>. QED
  BY <1>1, AlwaysInv, PTL

(* No page lacks a change that is older than the lifetime of an entry and  *)
(* the time of a load together.                                            *)
THEOREM BoundedStaleness == Spec => StalenessBounded
<1>1. Inv /\ [Next]_vars =>
        [\A r \in Requests : req[r].pc \in {"queue", "load"} /\ req'[r].pc = "act" =>
           \A w \in DOMAIN writes :
             Misses(req[r].user, req'[r].snap, w) => age[w] < Ttl + LoadLimit]_vars
  <2>. SUFFICES ASSUME Inv, Next, NEW r \in Requests, AtLock(req[r]), req'[r].pc = "act",
                       NEW w \in DOMAIN writes, Misses(req[r].user, req'[r].snap, w)
                PROVE  age[w] < Ttl + LoadLimit
    BY DEF AtLock
  <2>. DEFINE u == req[r].user
  <2>0. /\ req[r] \in RequestRecords /\ u \in Users /\ age[w] \in Nat /\ writes[w] \in Endpoints
        /\ RequestOK(req[r]) /\ EntryOK(u, entries[u]) /\ entries[u] \in Entries
    <3>1. req[r] \in RequestRecords /\ u \in Users
      BY DEF Inv, Typed, RequestRecords
    <3>2. age[w] \in Nat
      BY Ages DEF Inv
    <3>3. writes[w] \in Endpoints /\ entries[u] \in Entries
      BY <3>1 DEF Inv, Typed
    <3>. QED
      BY <3>1, <3>2, <3>3 DEF Inv, Data
  <2>1. Hit(r) \/ Loaded(r)
    <3>1. CASE Tick
      BY <2>0, <3>1 DEF Tick, RequestRecords, AtLock
    <3>2. CASE \E e \in Endpoints : Elsewhere(e)
      BY <3>2 DEF Elsewhere, AtLock
    <3>3. CASE \E x \in Requests : Arrive(x) \/ Get(x) \/ Handle(x)
      <4>1. PICK x \in Requests : Arrive(x) \/ Get(x) \/ Handle(x)
        BY <3>3
      <4>2. CASE Arrive(x)
        BY <2>0, <4>2 DEF Arrive, Start, StartToggle, AtLock, Inv, Typed
      <4>3. CASE Handle(x)
        <5>1. ~AtLock(req[x]) /\ Rest(x)
          <6>1. ~AtLock(req[x])
            BY <4>3 DEF Handle, Render, PutRefused, PutAnswered, PutLost, Put, AtLock
          <6>2. CASE PutAnswered(x)
            BY <6>1, <6>2 DEF PutAnswered, Inv, Typed, RequestRecords, Rest
          <6>3. CASE ~PutAnswered(x)
            BY <4>3, <6>1, <6>3 DEF Handle, Render, PutRefused, PutLost, Put, Inv, Typed, Rest
          <6>. QED
            BY <6>1, <6>2, <6>3
        <5>. QED
          BY <5>1 DEF Rest, AtLock
      <4>4. CASE Get(x)
        <5>1. \A y \in Requests \ {x} : req'[y] = req[y]
          BY <4>4 DEF Get, Hit, Miss, Read, Loaded, LoadFails, Inv, Typed
        <5>2. x = r
          BY <5>1 DEF AtLock
        <5>3. ~Miss(r) /\ ~LoadFails(r) /\ \A e \in Endpoints : ~Read(r, e)
          BY <2>0 DEF Miss, LoadFails, Read, Ended, NoRequest, Inv, Typed, RequestRecords
        <5>. QED
          BY <4>4, <5>2, <5>3 DEF Get
      <4>. QED
        BY <4>1, <4>2, <4>3, <4>4
    <3>. QED
      BY <3>1, <3>2, <3>3 DEF Next
  <2>2. CASE Hit(r)
    <3>1. req'[r].snap = entries[u].snap /\ entries[u].at < Ttl
      BY <2>0, <2>2 DEF Hit, Key, Fresh, Inv, Typed, RequestRecords
    <3>2. Complete(entries[u].snap)
      BY <2>0, <3>1, CacheConstants DEF EntryOK, NoEntry
    <3>3. age[w] <= entries[u].at + LoadLimit
      BY <2>0, <3>1, <3>2 DEF EntryOK, Complete, Aged, Misses
    <3>. QED
      BY <2>0, <3>1, <3>3, CacheConstants DEF Entries
  <2>3. CASE Loaded(r)
    <3>1. req'[r].snap = req[r].snap /\ req[r].pc = "load" /\ req[r].snap[writes[w]] # Unread
      BY <2>0, <2>3 DEF Loaded, Inv, Typed, RequestRecords
    <3>2. age[w] <= req[r].took /\ req[r].took \in 0..LoadLimit
      BY <2>0, <3>1 DEF RequestOK, Aged, Misses, RequestRecords
    <3>. QED
      BY <2>0, <3>2, CacheConstants
  <2>. QED
    BY <2>1, <2>2, <2>3
<1>. QED
  BY <1>1, AlwaysInv, PTL DEF Spec, StalenessBounded
=============================================================================
