------------------------------ MODULE WebEdit -------------------------------
(***************************************************************************)
(* The editors of birdseye-web: what a user changes on a page, the preview *)
(* of it, and the handler that saves it, for groups, users, peers,         *)
(* policies, the matrix, setup keys, networks and the history              *)
(* (routes_groups.py, routes_users.py, routes_peers.py, routes_policies.py, *)
(* routes_quickedit.py, routes_setup_keys.py, routes_networks.py,          *)
(* routes_history.py).                                                     *)
(*                                                                         *)
(* Every handler has one shape: it works through jobs, of which each reads *)
(* NetBird again, makes bodies from what it read, and writes them. An      *)
(* action is what runs up to the next await; handlers of several users     *)
(* interleave there, and NetBird may refuse a write or its answer be lost. *)
(*                                                                         *)
(* An edit says what its user changes on the page: the peers and groups it *)
(* toggles, the fields it fills in. The user is an administrator.          *)
(***************************************************************************)
EXTENDS NetBird

CONSTANTS
  Editors,    \* bound: the edits made, one after the other or at once
  Edits,      \* what a user may do on a page
  Accounts,   \* the accounts to begin with
  MaxFaults   \* bound: refused writes and lost answers

(* What a form may carry. A rule that the user adds has no id, a key is    *)
(* among the keys to be edited, a restored policy has the shape of one.    *)
FormOf(e) ==
  /\ \/ e.kind \in {"group", "new group"} /\ e.type = "groups" /\ e.users \subseteq Users
     \/ e.kind = "user" /\ e.type = "users"
     \/ e.kind = "peer" /\ e.type = "peers"
     \/ e.kind \in {"toggle", "revoke", "allow"} /\ e.type = "policies"
     \/ e.kind = "policy" /\ e.type = "policies" /\ \A x \in e.more : x.id = NoId
     \/ e.kind = "new policy" /\ e.type = "policies" /\ \A x \in e.form.rules : x.id = NoId
     \/ e.kind = "key" /\ e.type = "keys" /\ e.id \in e.keys
     \/ e.kind = "bulk" /\ e.type = "keys" /\ e.action \in {"revoke", "delete"}
     \/ e.kind = "new key" /\ e.type = "keys"
     \/ e.kind \in {"net", "new net"} /\ e.type = "nets"
     \/ e.kind \in {"resource", "new resource"} /\ e.type = "resources"
     \/ e.kind \in {"router", "new router"} /\ e.type = "routers"
     \/ e.kind = "restore" /\ e.type = "groups"
     \/ /\ e.kind = "restore" /\ e.type = "policies" /\ ValidPolicy(PolicyForPut(e.old))
        /\ Apart(e.old.rules) /\ MadeByOthers(e.old.rules, Editors)
     \/ e.kind = "delete"
        /\ e.type \in {"groups", "peers", "policies", "nets", "resources", "routers"}
  /\ e.kind \in {"group", "user", "peer", "policy", "toggle", "revoke", "key", "net", "resource",
                 "router", "delete"} => e.id # None
  /\ e.kind = "group" => e.id \in Groups

(* Accounts are NetBird's: no user of theirs is a refused payload, no rule *)
(* and no policy of theirs was made for an editor.                         *)
ASSUME EditConstants ==
  /\ None \notin Editors /\ Editors \cap Groups = {} /\ MaxFaults \in Nat
  /\ \A a \in Accounts :
       /\ ValidAccount(a) /\ DOMAIN a.groups \subseteq Groups
       /\ \A u \in DOMAIN a.users : a.users[u] # Bad
       /\ DOMAIN a.policies \cap Editors = {}
       /\ \A i \in DOMAIN a.policies :
            Apart(a.policies[i].rules) /\ MadeByOthers(a.policies[i].rules, Editors)
  /\ \A e \in Edits : FormOf(e)

VARIABLES
  acc,     \* NetBird: the account
  edit,    \* [Editors -> the edit]
  faults

editVars == <<acc, edit, faults>>

(* The jobs of a save: those of its first stage and those that come after; *)
(* a stage without jobs is passed over.                                    *)
Staged(first, second) ==
  IF first = {} THEN [now |-> second, after |-> {}] ELSE [now |-> first, after |-> second]

Idle == [pc |-> "none", make |-> [kind |-> "none"], page |-> <<>>, snap |-> <<>>,
         todo |-> Staged({}, {}), job |-> <<>>, plan |-> {}, want |-> {}, shown |-> None,
         alone |-> TRUE, current |-> TRUE, lost |-> FALSE, wrote |-> FALSE]

Write(type, id, net, body, new) ==
  [type |-> type, id |-> id, net |-> net, body |-> body, new |-> new]

To(type, id, body) == Write(type, id, None, body, FALSE)

-----------------------------------------------------------------------------
(* Slips: plausible errors, none of which is in the code.                  *)

(* The users are read once, before the group is written.                   *)
UsersFirst(e, snap) == Staged({<<"users", e.id>>}, {<<"group", e.id>>})

-----------------------------------------------------------------------------
(* Forms: what the page showed, with the user's changes.                   *)

FormPeers(e, page) == Flip(page.groups[e.id].peers, e.peers)

UsersEditable(gid) == gid \notin Synced \cup {AllGroup}

(* The users with the group as the page shows them, and who changes.       *)
Checked(page, gid) == {u \in DOMAIN page.users \ ServiceUsers : gid \in page.users[u].auto}

Picked(e, page, gid) ==
  LET initial == IF gid \in Groups THEN Checked(page, gid) ELSE {}
  IN  UserGroupChanges(Flip(initial, e.users), initial)

(* A user's groups after the change made on the page.                      *)
Chosen(e, page, current, snap) ==
  LET initial == page \cap EditableGroups(snap)
  IN  Edited(current, Flip(initial, e.groups), initial, EditableGroups(snap))

PeerPage(page, pid) == {g \in DOMAIN page.groups : pid \in page.groups[g].peers}

PolicyForm(e, page) ==
  LET pol == page.policies[e.id]
      shown(x) == [EditorRule(x) EXCEPT !.src = Flip(@, e.src), !.tokens = Or(e.tokens, @)]
  IN  [conf |-> pol.conf, on |-> (pol.on # e.flip), posture |-> pol.posture,
       rules |-> {shown(x) : x \in pol.rules} \cup e.more]

OwnAligned(e, snap) == DevicesOf(snap, {e.id}) \cap e.align

-----------------------------------------------------------------------------
(* Previews: the snapshot after the edit, as the page computes it.         *)

AfterGroup(e, page, snap) ==
  LET after == WithGroupMembers(snap, e.id, FormPeers(e, page))
      pick == Picked(e, page, e.id)
  IN  IF UsersEditable(e.id) THEN WithUserAutoGroups(after, e.id, pick.added, pick.removed)
      ELSE after

AfterUser(e, page, snap) ==
  LET want == Chosen(e, page.users[e.id].auto, snap.users[e.id], snap)
      after == WithUserGroups(snap, e.id, want)
      members == [g \in DOMAIN after.groups |-> after.groups[g].peers]
  IN  WithMemberships(after, Alignment(members, ManagedGroups(snap), OwnAligned(e, snap), want))

AfterPeer(e, page, snap) ==
  WithPeerGroups(snap, e.id, Chosen(e, PeerPage(page, e.id), snap.peers[e.id].groups, snap))

(* None where the preview says that the form is not valid.                 *)
AfterPolicy(snap, id, body) == IF body = Bad THEN None ELSE WithPolicy(snap, id, body)

AfterRevoke(e, snap, a) ==
  LET body == Revoke(a.policies[e.id], e.rule, e.mode, e.target)
  IN  IF body = Bad THEN None
      ELSE IF body = Gone THEN WithoutPolicy(snap, e.id) ELSE WithPolicy(snap, e.id, body)

PeerDeletePreview(e, snap) == WithoutPeer(snap, e.id)
PolicyDeletePreview(e, snap) == WithoutPolicy(snap, e.id)
ResourceDeletePreview(e, snap) == WithoutResources(snap, {e.id})
NetworkDeletePreview(e, snap) == WithoutNetwork(snap, e.id)

(* There is none for groups, keys and routers.                             *)
AfterDelete(e, snap) ==
  CASE e.type = "peers" -> PeerDeletePreview(e, snap)
    [] e.type = "policies" -> PolicyDeletePreview(e, snap)
    [] e.type = "resources" -> ResourceDeletePreview(e, snap)
    [] e.type = "nets" -> NetworkDeletePreview(e, snap)
    [] OTHER -> None

AfterResource(e, snap, id, groups) ==
  LET body == ResourceBody(e.net, e.conf, groups)
  IN  IF body = Bad THEN None ELSE WithResource(snap, id, body)

(* An editor that shows what was in the resource when the page was made.   *)
ResourceGroups(e, page) ==
  Flip({g \in DOMAIN page.groups : e.id \in page.groups[g].resources}, e.groups)

RestoreBody(e, snap) ==
  IF e.type = "policies" THEN RestorePolicy(snap, e.id, e.old) ELSE RestoreGroup(snap, e.id, e.old)

(* What a new object is called before it has an id: as the one it gets.    *)
(* A revoke reads NetBird again: a is what it answers.                     *)
After(r, e, page, snap, a) ==
  CASE e.kind = "group" -> AfterGroup(e, page, snap)
    [] e.kind = "user" -> AfterUser(e, page, snap)
    [] e.kind = "peer" -> AfterPeer(e, page, snap)
    [] e.kind = "policy" -> AfterPolicy(snap, e.id, PolicyFromForm(PolicyForm(e, page)))
    [] e.kind = "new policy" -> AfterPolicy(snap, r, PolicyFromForm(e.form))
    [] e.kind = "allow" -> AfterPolicy(snap, r, AllowPolicy(e.src, e.dst, e.svc))
    [] e.kind = "revoke" /\ e.id \in DOMAIN a.policies -> AfterRevoke(e, snap, a)
    [] e.kind = "delete" -> AfterDelete(e, snap)
    [] e.kind = "resource" -> AfterResource(e, snap, e.id, ResourceGroups(e, page))
    [] e.kind = "new resource" -> AfterResource(e, snap, r, e.groups)
    [] e.kind = "restore" /\ RestoreBody(e, snap) # Bad ->
         AfterRestore(snap, e.type, e.id, RestoreBody(e, snap))
    [] OTHER -> None

-----------------------------------------------------------------------------
(* Jobs: what a handler does one after the other, each with its own read.  *)

GroupJobs(e, snap) ==
  Staged({<<"group", e.id>>},
         IF UsersEditable(e.id) /\ e.id \in DOMAIN snap.groups THEN {<<"users", e.id>>} ELSE {})

UserJobs(e, snap) ==
  Staged({<<"user", e.id>>}, IF OwnAligned(e, snap) # {} THEN {<<"align", e.id>>} ELSE {})

PeerJobs(e, page, snap) ==
  LET now == snap.peers[e.id].groups
      new == Chosen(e, PeerPage(page, e.id), now, snap)
  IN  Staged(IF e.conf = Same THEN {} ELSE {<<"settings", e.id>>},
             {<<"member", g>> : g \in Flip(now, new)})

Jobs(r, e, page, snap) ==
  CASE e.kind = "group" -> GroupJobs(e, snap)
    [] e.kind = "new group" -> Staged({<<"post", r>>}, {<<"users", r>>})
    [] e.kind = "user" -> UserJobs(e, snap)
    [] e.kind = "peer" -> IF e.id \in DOMAIN snap.peers THEN PeerJobs(e, page, snap)
                          ELSE Staged({<<"settings", e.id>>}, {})
    [] e.kind = "bulk" -> Staged({<<"key", k>> : k \in e.keys \cap DOMAIN snap.keys}, {})
    [] e.kind = "key" -> Staged({<<"key", e.id>>}, {})
    [] e.kind \in {"new policy", "allow", "new key", "new net", "new resource", "new router"} ->
         Staged({<<"post", r>>}, {})
    [] e.kind \in {"policy", "toggle", "revoke", "net", "resource", "router", "restore", "delete"} ->
         Staged({<<e.kind, e.id>>}, {})

(* What a POST makes.                                                      *)
NewGroup(e) == GroupBody(e.named, e.peers, {})
NewPolicy(e) == PolicyFromForm(e.form)
Allowed(e) == AllowPolicy(e.src, e.dst, e.svc)
NewKey(e) == NewKeyBody(e.days, e.limit, e.groups)
NewNetwork(e) == NetBody(e.conf)
NewResource(e) == ResourceBody(e.net, e.conf, e.groups)
NewRouter(e) == RouterBody(e.peer, e.groups, TRUE)

Posted(e) ==
  CASE e.kind = "new group" -> NewGroup(e)
    [] e.kind = "new policy" -> NewPolicy(e)
    [] e.kind = "allow" -> Allowed(e)
    [] e.kind = "new key" -> NewKey(e)
    [] e.kind = "new net" -> NewNetwork(e)
    [] e.kind = "new resource" -> NewResource(e)
    [] e.kind = "new router" -> NewRouter(e)

(* Each job: the writes it makes of what NetBird answers now. A write that *)
(* would change nothing is left out.                                       *)
GroupWrites(e, page, a) ==
  IF e.id = AllGroup THEN {To("groups", e.id, Bad)}
  ELSE {To("groups", e.id, GroupBody(e.named, FormPeers(e, page), a.groups[e.id].resources))}

UsersWrites(e, page, a, gid) ==
  LET pick == Picked(e, page, gid)
      new(u) == IF u \in pick.added THEN a.users[u].auto \cup {gid} ELSE a.users[u].auto \ {gid}
  IN  {To("users", u, UserBody(a.users[u], new(u), Same, Same)) :
         u \in {x \in (pick.added \cup pick.removed) \cap DOMAIN a.users : new(x) # a.users[x].auto}}

UserWant(e, page, snap, a) == Chosen(e, page.users[e.id].auto, a.users[e.id].auto, snap)

UserWrites(e, page, snap, a) ==
  LET body == UserBody(a.users[e.id], UserWant(e, page, snap, a), e.role, e.blocked)
  IN  IF body = a.users[e.id] THEN {} ELSE {To("users", e.id, body)}

AlignWrites(e, snap, want, a) ==
  LET changes == Alignment([g \in DOMAIN a.groups |-> a.groups[g].peers],
                           ManagedGroups(snap) \cap DOMAIN a.groups, OwnAligned(e, snap), want)
  IN  {To("groups", g, GroupBody(TRUE, changes[g], a.groups[g].resources)) : g \in DOMAIN changes}

SettingsWrites(e, a) ==
  LET body == PeerBody(a.peers[e.id], e.conf, FALSE)
  IN  IF body = a.peers[e.id] THEN {} ELSE {To("peers", e.id, body)}

MemberWrites(e, page, snap, gid, a) ==
  LET joins == gid \in Chosen(e, PeerPage(page, e.id), snap.peers[e.id].groups, snap)
      old == a.groups[gid].peers
      new == IF joins THEN old \cup {e.id} ELSE old \ {e.id}
  IN  IF new = old THEN {} ELSE {To("groups", gid, GroupBody(TRUE, new, a.groups[gid].resources))}

PolicyWrites(e, page, a) ==
  LET body == PolicyFromForm(PolicyForm(e, page))
  IN  {To("policies", e.id, IF body = Bad THEN Bad ELSE CarryOver(a.policies[e.id], body))}

ToggleWrites(e, a) == {To("policies", e.id, PolicyForPut([a.policies[e.id] EXCEPT !.on = ~@]))}

RevokeWrites(e, a) ==
  {To("policies", e.id, Revoke(a.policies[e.id], e.rule, e.mode, e.target))}

(* A key that is not revoked is not deleted, a revoked one not revoked     *)
(* again; in a bulk edit it is passed over.                                *)
BulkWrites(e, k, a) ==
  LET now == a.keys[k]
  IN  IF now.revoked # (e.action = "delete") THEN {}
      ELSE {To("keys", k, IF e.action = "delete" THEN Gone ELSE KeyBody(now, now.groups, TRUE))}

KeyWrites(e, page, snap, k, a) ==
  LET now == a.keys[k]
      body == KeyBody(now, Chosen(e, page.keys[k].groups, now.groups, snap), e.action = "revoke")
  IN  IF body = now THEN {} ELSE {To("keys", k, body)}

DeleteKeyWrites(k, a) == {To("keys", k, IF a.keys[k].revoked THEN Gone ELSE Bad)}

NetWrites(e, a) ==
  IF a.nets[e.id].conf = e.conf THEN {} ELSE {To("nets", e.id, NetBody(e.conf))}

ResourceWrites(e, page, a) ==
  LET body == ResourceBody(e.net, e.conf, ResourceGroups(e, page))
      now == Snap(a).resources[e.id]
  IN  IF body = now THEN {} ELSE {Write("resources", e.id, e.net, body, FALSE)}

RouterWrites(e, a) ==
  LET body == RouterBody(e.peer, e.groups, TRUE)
  IN  IF body = a.nets[e.net].routers[e.id] THEN {}
      ELSE {Write("routers", e.id, e.net, body, FALSE)}

(* A restore was planned before, from the snapshot of the page.            *)
RestoreWrites(r, e, snap) ==
  LET body == RestoreBody(e, snap)
  IN  IF e.id \in (IF e.type = "policies" THEN DOMAIN snap.policies ELSE DOMAIN snap.groups)
      THEN {To(e.type, e.id, body)} ELSE {Write(e.type, r, None, body, TRUE)}

DeleteGroup(e) == To("groups", e.id, Gone)
DeletePeer(e) == To("peers", e.id, Gone)
DeletePolicy(e) == To("policies", e.id, Gone)
DeleteNetwork(e) == To("nets", e.id, Gone)
DeleteResource(e) == Write("resources", e.id, e.net, Gone, FALSE)
DeleteRouter(e) == Write("routers", e.id, e.net, Gone, FALSE)

Removal(e) ==
  CASE e.type = "groups" -> DeleteGroup(e)
    [] e.type = "peers" -> DeletePeer(e)
    [] e.type = "policies" -> DeletePolicy(e)
    [] e.type = "nets" -> DeleteNetwork(e)
    [] e.type = "resources" -> DeleteResource(e)
    [] e.type = "routers" -> DeleteRouter(e)

Writes(r, q, job, a) ==
  LET e == q.make
  IN  CASE job[1] = "group" -> GroupWrites(e, q.page, a)
        [] job[1] = "users" -> UsersWrites(e, q.page, a, job[2])
        [] job[1] = "user" -> UserWrites(e, q.page, q.snap, a)
        [] job[1] = "align" -> AlignWrites(e, q.snap, q.want, a)
        [] job[1] = "settings" -> SettingsWrites(e, a)
        [] job[1] = "member" -> MemberWrites(e, q.page, q.snap, job[2], a)
        [] job[1] = "policy" -> PolicyWrites(e, q.page, a)
        [] job[1] = "toggle" -> ToggleWrites(e, a)
        [] job[1] = "revoke" -> RevokeWrites(e, a)
        [] job[1] = "key" ->
             IF e.kind = "bulk" THEN BulkWrites(e, job[2], a)
             ELSE IF e.action = "delete" THEN DeleteKeyWrites(job[2], a)
             ELSE KeyWrites(e, q.page, q.snap, job[2], a)
        [] job[1] = "net" -> NetWrites(e, a)
        [] job[1] = "resource" -> ResourceWrites(e, q.page, a)
        [] job[1] = "router" -> RouterWrites(e, a)
        [] job[1] = "restore" -> RestoreWrites(r, e, q.snap)
        [] job[1] = "delete" -> {Removal(e)}
        [] job[1] = "post" -> {Write(e.type, r, e.net, Posted(e), TRUE)}

(* What a job reads is there.                                              *)
Reads(e, job, a) ==
  CASE job[1] \in {"group", "member"} -> job[2] \in DOMAIN a.groups
    [] job[1] = "user" -> job[2] \in DOMAIN a.users \ ServiceUsers
    [] job[1] = "settings" -> job[2] \in DOMAIN a.peers
    [] job[1] \in {"policy", "toggle", "revoke"} -> job[2] \in DOMAIN a.policies
    [] job[1] = "key" -> job[2] \in DOMAIN a.keys
    [] job[1] = "net" -> job[2] \in DOMAIN a.nets
    [] job[1] = "resource" -> job[2] \in DOMAIN a.resources
    [] job[1] = "router" -> e.net \in DOMAIN a.nets /\ job[2] \in DOMAIN a.nets[e.net].routers
    [] OTHER -> TRUE

(* After the first stage the answer is that it was saved, but not all.     *)
Answer(job) == IF job[1] \in {"users", "align", "member"} THEN "partial" ELSE "refused"

-----------------------------------------------------------------------------
(* The handlers.                                                           *)

EditInit == acc \in Accounts /\ edit = [r \in Editors |-> Idle] /\ faults = 0

(* A handler's snapshot: a cached one, at most as old as the page, or new. *)
Snapshots(r) == {Snap(edit[r].page), Snap(acc)}

(* An edit of an object that is there, of its page or its preview.         *)
OfObject(e) == e.id # None /\ e.kind \notin {"restore", "bulk"}

Shows(e, a) ==
  /\ e.net # None => e.net \in DOMAIN a.nets
  /\ OfObject(e) => e.id \in Held(a, e.type, e.net)

Shown(e, snap) == OfObject(e) /\ e.type # "routers" => e.id \in DOMAIN snap[e.type]

Becomes(r, q) == edit' = [edit EXCEPT ![r] = q]

(* What a handler does next when it has nothing to write any more.         *)
Goes(q) ==
  [q EXCEPT !.pc = IF q.plan # {} THEN "put" ELSE IF q.todo.now # {} THEN "turn" ELSE "saved"]

(* In a bulk edit a failure on one key does not stop the others.           *)
Failed(q, job) ==
  IF q.make.kind = "bulk" THEN Goes([q EXCEPT !.plan = {}])
  ELSE [q EXCEPT !.pc = Answer(job), !.plan = {}, !.todo = Staged({}, {})]

Rest(todo, job) == Staged(todo.now \ {job}, todo.after)

-----------------------------------------------------------------------------
(* A page is opened, and its user changes something on it.                 *)
Open(r, e) ==
  /\ edit[r].pc = "none" /\ Shows(e, acc)
  /\ Becomes(r, [Idle EXCEPT !.pc = "open", !.make = e, !.page = acc])
  /\ UNCHANGED <<acc, faults>>

(* The preview of the change; the pages without one have nothing to show.  *)
Preview(r) ==
  /\ edit[r].pc = "open"
  /\ \E snap \in Snapshots(r) :
       LET e == edit[r].make
           after == IF Shown(e, snap) THEN After(r, e, edit[r].page, snap, acc) ELSE None
       IN  Becomes(r, [edit[r] EXCEPT !.pc = "shown",
                         !.shown = IF after = None THEN None ELSE Delta(snap, after)])
  /\ UNCHANGED <<acc, faults>>

(* The change is sent.                                                     *)
Submit(r) ==
  /\ edit[r].pc = "shown"
  /\ \E snap \in Snapshots(r) :
       Becomes(r, Goes([edit[r] EXCEPT !.snap = snap,
                          !.todo = Jobs(r, edit[r].make, edit[r].page, snap)]))
  /\ UNCHANGED <<acc, faults>>

(* The next job: NetBird is read, the bodies are made.                     *)
Work(r) ==
  /\ edit[r].pc = "turn"
  /\ \E job \in edit[r].todo.now :
       LET q == [edit[r] EXCEPT !.job = job, !.todo = Rest(@, job), !.current = TRUE]
           e == q.make
           writes == Writes(r, q, job, acc)
           want == IF job[1] = "user" THEN UserWant(e, q.page, q.snap, acc) ELSE q.want
       IN  Becomes(r, IF ~Reads(e, job, acc) THEN Failed(q, job)
                      ELSE IF \E w \in writes : w.body = Bad THEN Failed(q, job)
                      ELSE Goes([q EXCEPT !.plan = writes, !.want = want]))
  /\ UNCHANGED <<acc, faults>>

(* NetBird takes a write. The pages of the others are no longer what is.   *)
Takes(r, w) ==
  /\ Accepts(acc, w)
  /\ acc' = Applied(acc, w, r)

Others(r, q) ==
  edit' = [s \in Editors |->
             IF s = r THEN q ELSE [edit[s] EXCEPT !.alone = FALSE, !.current = FALSE]]

Save(r) ==
  /\ edit[r].pc = "put"
  /\ \E w \in edit[r].plan :
       /\ Takes(r, w)
       /\ Others(r, Goes([edit[r] EXCEPT !.plan = @ \ {w}, !.wrote = TRUE]))
  /\ UNCHANGED faults

(* The write was made, but its answer is an error (a timeout).             *)
AnswerLost(r) ==
  /\ edit[r].pc = "put" /\ faults < MaxFaults
  /\ \E w \in edit[r].plan :
       /\ Takes(r, w)
       /\ Others(r, Failed([edit[r] EXCEPT !.wrote = TRUE, !.lost = TRUE], edit[r].job))
  /\ faults' = faults + 1

(* NetBird refuses a write that it cannot make, or a call fails.           *)
Refused(r) ==
  /\ edit[r].pc = "put"
  /\ IF \E w \in edit[r].plan : ~Accepts(acc, w) THEN UNCHANGED faults
     ELSE faults < MaxFaults /\ faults' = faults + 1
  /\ Becomes(r, Failed(edit[r], edit[r].job))
  /\ UNCHANGED acc

NoAnswer(r) ==
  /\ edit[r].pc = "turn" /\ faults < MaxFaults
  /\ \E job \in edit[r].todo.now :
       Becomes(r, Failed([edit[r] EXCEPT !.job = job, !.todo = Rest(@, job)], job))
  /\ faults' = faults + 1
  /\ UNCHANGED acc

EditNext ==
  \E r \in Editors :
    \/ \E e \in Edits : Open(r, e)
    \/ Preview(r) \/ Submit(r) \/ Work(r) \/ Save(r)
    \/ AnswerLost(r) \/ Refused(r) \/ NoAnswer(r)

EditSpec == EditInit /\ [][EditNext]_editVars

-----------------------------------------------------------------------------
(* Properties.                                                             *)

(* The account as facts, one for each thing that an edit may change alone. *)
GroupFacts(a) ==
  {<<"group", g>> : g \in DOMAIN a.groups}
  \cup (UNION {{<<"member", g, p>> : p \in a.groups[g].peers} : g \in DOMAIN a.groups})
  \cup (UNION {{<<"holds", g, x>> : x \in a.groups[g].resources} : g \in DOMAIN a.groups})

UserFacts(a) ==
  (UNION {{<<"auto", g, u>> : g \in a.users[u].auto} : u \in DOMAIN a.users})
  \cup {<<"user", u, a.users[u].role, a.users[u].blocked>> : u \in DOMAIN a.users}

PeerFacts(a) ==
  {<<"peer", p, a.peers[p].conf>> : p \in DOMAIN a.peers}
  \cup {<<"expiry", p, a.peers[p].idle, a.peers[p].waits>> : p \in DOMAIN a.peers}

KeyFacts(a) ==
  {<<"key", k, a.keys[k].revoked>> : k \in DOMAIN a.keys}
  \cup (UNION {{<<"keygroup", g, k>> : g \in a.keys[k].groups} : k \in DOMAIN a.keys})

PolicyFacts(a) ==
  {<<"policy", i, a.policies[i].on, a.policies[i].posture>> : i \in DOMAIN a.policies}
  \cup (UNION {{<<"rule", i, EditorRule(x)>> : x \in a.policies[i].rules}
                 : i \in DOMAIN a.policies})
  \cup (UNION {{<<"hidden", i, x.id, x.auth, x.srcRef>> : x \in a.policies[i].rules}
                 : i \in DOMAIN a.policies})

NetworkFacts(a) ==
  {<<"net", n, a.nets[n].conf>> : n \in DOMAIN a.nets}
  \cup (UNION {{<<"router", rt, a.nets[n].routers[rt]>> : rt \in DOMAIN a.nets[n].routers}
                 : n \in DOMAIN a.nets})

ResourceFacts(a) == {<<"resource", x, a.resources[x].conf>> : x \in DOMAIN a.resources}

Facts(a) ==
  GroupFacts(a) \cup UserFacts(a) \cup PeerFacts(a) \cup KeyFacts(a)
  \cup PolicyFacts(a) \cup NetworkFacts(a) \cup ResourceFacts(a)

(* What goes with a deletion.                                              *)
GoesWith(e, f, a) ==
  LET gone == {e.id} \cup (IF e.type = "nets"
                THEN ResourcesIn(a, e.id) \cup DOMAIN a.nets[e.id].routers ELSE {})
      refers(i) == \E x \in a.policies[i].rules : {x.srcRef, x.dstRef} \cap gone # {}
  IN  \/ \E n \in DOMAIN f : f[n] \in gone
      \/ f[1] \in {"rule", "hidden"} /\ refers(f[2])

(* Who joined or left a group since its page was made.                     *)
MovedSince(q, a) == Flip(q.page.groups[q.make.id].peers, a.groups[q.make.id].peers)

(* What an edit says about a fact of the account. Two forms hold more than *)
(* their user's changes, and what others changed there is the form's again *)
(* (routes_groups.py:247, routes_policies.py:300): a group is saved with   *)
(* the members of the page, a policy with its switch, checks and rules.    *)
Asked(r, q, f, a) ==
  LET e == q.make
      own == f[2] = e.id
      moves == Propagates /\ f[2] \in e.groups /\ f[3] \in OwnPeers(a, e.id)
      ids(b) == {x.id : x \in b.policies[e.id].rules}
  IN  \/ \E n \in DOMAIN f : f[n] = r
      \/ e.kind = "delete" /\ GoesWith(e, f, a)
      \/ e.kind \in {"restore", "net", "router"} /\ own
      \/ /\ e.kind = "group" /\ own
         /\ \/ f[1] = "auto" /\ f[3] \in e.users
            \/ f[1] = "member" /\ Propagates /\ \E u \in e.users : f[3] \in OwnPeers(a, u)
            \/ f[1] = "member" /\ f[3] \in e.peers \cup MovedSince(q, a)
      \/ /\ e.kind = "user"
         /\ \/ f[1] = "auto" /\ f[2] \in e.groups /\ f[3] = e.id
            \/ f[1] = "user" /\ own /\ (e.role # Same \/ e.blocked # Same)
            \/ f[1] = "member" /\ (f[3] \in e.align \/ moves)
      \/ /\ e.kind = "peer"
         /\ \/ f[1] = "member" /\ f[2] \in e.groups /\ f[3] = e.id
            \/ f[1] = "peer" /\ own /\ e.conf # Same
      \/ /\ e.kind = "policy" /\ own
         /\ f[1] \in {"policy", "rule"} \/ (f[1] = "hidden" /\ f[3] \notin ids(q.page) \cap ids(a))
      \/ e.kind = "toggle" /\ f[1] = "policy" /\ own
      \/ /\ e.kind = "revoke" /\ own
         /\ f[1] \in {"policy", "rule"} \/ (f[1] = "hidden" /\ f[3] = e.rule) \/ e.mode = "delete"
      \/ /\ e.kind \in {"key", "bulk"}
         /\ \/ f[1] = "key" /\ e.action = "revoke" /\ f[2] \in e.keys
            \/ f[1] = "keygroup" /\ f[3] \in e.keys /\ f[2] \in e.groups
            \/ /\ f[1] \in {"key", "keygroup"} /\ e.action = "delete"
               /\ \E k \in e.keys \cap DOMAIN a.keys : a.keys[k].revoked /\ k \in {f[2], f[3]}
      \/ e.kind = "resource" /\ ((f[1] = "holds" /\ f[3] = e.id) \/ (f[1] = "resource" /\ own))

(* A save changes nothing that its user did not ask for, though others     *)
(* changed other things since the page was made: what the form does not    *)
(* hold comes from what NetBird answers just before the write (the         *)
(* resources of a group, routes_groups.py:244; the groups of a user or a   *)
(* key, UserForm.auto_groups; carry_over). Left out are writes that        *)
(* another one overtook after that answer, which the API cannot prevent,   *)
(* and not kept is what two forms hold too much of (see Asked): for        *)
(* groups, MembersKept.                                                    *)
OthersKept ==
  [][\A r \in Editors :
       (acc' # acc /\ edit'[r].plan # edit[r].plan /\ edit[r].current) =>
         \A f \in Flip(Facts(acc), Facts(acc')) : Asked(r, edit[r], f, acc)]_editVars

(* A group is saved with the members that NetBird answers just before,     *)
(* but for those its user changed: "re-read now so resources and           *)
(* concurrent edits by others are not lost between page load and save"     *)
(* (routes_groups.py:242). The code does not keep it: the body takes the   *)
(* peers from the form (247).                                              *)
MembersKept ==
  [][\A r \in Editors :
       (acc' # acc /\ edit'[r].plan # edit[r].plan /\ edit[r].current /\ edit[r].job[1] = "group") =>
         \A f \in Flip(Facts(acc), Facts(acc')) :
           f[1] = "member" => f[3] \in edit[r].make.peers]_editVars

(* The rules with a direct source are shown without it, and saved with it. *)
DirectSource(e, a) ==
  e.kind = "policy" /\ \E x \in a.policies[e.id].rules : x.srcRef # None

(* What the preview showed is what the save did, if nobody else changed    *)
(* anything between the page and the answer.                               *)
PreviewTrue ==
  \A r \in Editors :
    LET q == edit[r]
    IN  (q.pc = "saved" /\ q.alone /\ q.shown # None /\ ~DirectSource(q.make, q.page)) =>
          q.shown = Delta(Snap(q.page), Snap(acc))

(* The change that was asked for, in an account that nobody else changed.  *)
Fulfilled(r, e, page) ==
  LET changed == Flip(Facts(page), Facts(acc))
      aligned == OwnAligned(e, Snap(page))
  IN  CASE e.kind = "group" ->
             /\ UsersEditable(e.id) => \A u \in e.users \ ServiceUsers : <<"auto", e.id, u>> \in changed
             /\ \A p \in e.peers : acc.peers[p].user \in e.users \/ <<"member", e.id, p>> \in changed
        [] e.kind = "new group" ->
             /\ r \in DOMAIN acc.groups /\ e.peers \subseteq acc.groups[r].peers
             /\ \A u \in e.users \ ServiceUsers : r \in acc.users[u].auto
        [] e.kind = "user" ->
             /\ \A g \in e.groups \cap EditableGroups(Snap(page)) : <<"auto", g, e.id>> \in changed
             /\ e.role # Same => acc.users[e.id].role = e.role
             /\ \A p \in aligned : PeerDrift(Snap(acc), p, acc.users[e.id].auto) = {}
        [] e.kind = "peer" ->
             /\ \A g \in e.groups \cap EditableGroups(Snap(page)) : <<"member", g, e.id>> \in changed
             /\ e.conf # Same => acc.peers[e.id].conf = e.conf
        [] e.kind = "key" /\ e.action = "revoke" -> acc.keys[e.id].revoked
        [] OTHER -> TRUE

(* The answer says what happened. A saved edit is made as a whole; of a    *)
(* refused one nothing is written, unless the answer of a write was lost;  *)
(* and "Group saved, but not every user was updated" follows a write.      *)
HonestAnswer ==
  \A r \in Editors :
    LET q == edit[r]
    IN  /\ (q.pc = "saved" /\ q.alone) => Fulfilled(r, q.make, q.page)
        /\ q.pc = "refused" => ~q.wrote \/ q.lost
        /\ (q.pc = "partial" /\ q.make.kind \in {"group", "new group"}) => q.wrote

(* The account stays one that NetBird can show: what it names is there.    *)
EditTypes ==
  /\ ValidAccount(acc)
  /\ faults \in 0..MaxFaults
  /\ \A r \in Editors :
       /\ edit[r].pc \in {"none", "open", "shown", "turn", "put", "saved", "refused", "partial"}
       /\ edit[r].pc = "put" <=> edit[r].plan # {}
       /\ edit[r].pc = "turn" => edit[r].todo.now # {}
=============================================================================
