----------------------------- MODULE EditProofs -----------------------------
(***************************************************************************)
(* The editors of birdseye-web, for every account, form and number of      *)
(* editors: that NetBird's account stays coherent, and that each handler   *)
(* has only the jobs and the writes of its form.                           *)
(***************************************************************************)
EXTENDS WebEdit, TLAPS

(* What one step needs to know of an edit: its parts, a form that a page   *)
(* has, and a page that showed an account.                                 *)
Parts == {"pc", "make", "page", "snap", "todo", "job", "plan", "want", "shown",
          "alone", "current", "lost", "wrote"}

Pcs == {"none", "open", "shown", "turn", "put", "saved", "refused", "partial"}

(* The jobs that an edit of each kind consists of.                         *)
JobOf(r, e, job) ==
  \/ e.kind = "group" /\ job \in {<<"group", e.id>>, <<"users", e.id>>}
  \/ e.kind = "new group" /\ job \in {<<"post", r>>, <<"users", r>>}
  \/ e.kind = "user" /\ job \in {<<"user", e.id>>, <<"align", e.id>>}
  \/ e.kind = "peer" /\ job = <<"settings", e.id>>
  \/ e.kind = "peer" /\ \E g \in e.groups : job = <<"member", g>>
  \/ e.kind = "bulk" /\ \E k \in e.keys : job = <<"key", k>>
  \/ e.kind = "key" /\ job = <<"key", e.id>>
  \/ e.kind \in {"new policy", "allow", "new key", "new net", "new resource", "new router"}
     /\ job = <<"post", r>>
  \/ e.kind \in {"policy", "toggle", "revoke", "net", "resource", "router", "restore", "delete"}
     /\ job = <<e.kind, e.id>>

(* The rules of a body: NetBird numbers those without an id.               *)
ValidBody(w) ==
  /\ w.type = "groups" => DOMAIN w.body = {"peers", "resources"}
  /\ w.type = "policies" => ValidPolicy(w.body)
  /\ w.type = "peers" => DOMAIN w.body = {"user", "conf", "idle", "waits"}
                         /\ w.body.waits \in BOOLEAN
  /\ w.type = "keys" => w.body.revoked \in BOOLEAN
  /\ w.type = "resources" => DOMAIN w.body = {"net", "conf", "groups"} /\ w.body.net = w.net

Types == {"groups", "users", "peers", "policies", "keys", "nets", "resources", "routers"}

ValidWrite(w) ==
  /\ w.type \in Types
  /\ w.type = "users" => w.body # Gone
  /\ w.type \in {"users", "peers"} => ~w.new
  /\ w.body # Gone => ValidBody(w)

ValidEdit(r, q) ==
  /\ DOMAIN q = Parts /\ q.pc \in Pcs
  /\ q.pc = "put" <=> q.plan # {}
  /\ q.pc = "turn" => q.todo.now # {}
  /\ q.pc # "none" => q.make \in Edits /\ ValidAccount(q.page)
  /\ \A j \in q.todo.now \cup q.todo.after : JobOf(r, q.make, j)
  /\ q.pc = "put" => JobOf(r, q.make, q.job)
  /\ \A w \in q.plan : ValidWrite(w)

EditInv ==
  /\ ValidAccount(acc) /\ faults \in 0..MaxFaults
  /\ DOMAIN edit = Editors
  /\ \A r \in Editors : ValidEdit(r, edit[r])

-----------------------------------------------------------------------------
(* Operators on stages and edits.                                          *)

LEMMA StagedIs ==
  ASSUME NEW first, NEW second
  PROVE  /\ Staged(first, second).now \cup Staged(first, second).after = first \cup second
         /\ Staged(first, second).now = {} => second = {} /\ Staged(first, second).after = {}
         /\ first # {} => Staged(first, second).now = first /\ Staged(first, second).after = second
         /\ first = {} => Staged(first, second).now = second /\ Staged(first, second).after = {}
  BY DEF Staged

LEMMA GoesIs ==
  ASSUME NEW q, DOMAIN q = Parts
  PROVE  /\ DOMAIN Goes(q) = Parts
         /\ Goes(q).pc = IF q.plan # {} THEN "put" ELSE IF q.todo.now # {} THEN "turn" ELSE "saved"
         /\ \A x \in Parts \ {"pc"} : Goes(q)[x] = q[x]
  BY DEF Goes, Parts

LEMMA FailedIs ==
  ASSUME NEW q, NEW job, DOMAIN q = Parts
  PROVE  /\ DOMAIN Failed(q, job) = Parts
         /\ Failed(q, job).plan = {}
         /\ \A x \in Parts \ {"pc", "plan", "todo"} : Failed(q, job)[x] = q[x]
         /\ q.make.kind = "bulk" =>
              /\ Failed(q, job).todo = q.todo
              /\ Failed(q, job).pc = IF q.todo.now # {} THEN "turn" ELSE "saved"
         /\ q.make.kind # "bulk" =>
              /\ Failed(q, job).todo = Staged({}, {})
              /\ Failed(q, job).pc = Answer(job)
<1>. DEFINE p == [q EXCEPT !.plan = {}]
<1>1. DOMAIN p = Parts /\ p.plan = {} /\ \A x \in Parts \ {"plan"} : p[x] = q[x]
  BY DEF Parts
<1>2. CASE q.make.kind = "bulk"
  <2>1. Failed(q, job) = Goes(p)
    BY <1>2 DEF Failed
  <2>2. p.todo = q.todo
    BY <1>1 DEF Parts
  <2>. HIDE DEF p
  <2>. QED
    BY <2>1, <2>2, <1>1, <1>2, GoesIs DEF Parts
<1>3. CASE q.make.kind # "bulk"
  <2>1. Failed(q, job) = [q EXCEPT !.pc = Answer(job), !.plan = {}, !.todo = Staged({}, {})]
    BY <1>3 DEF Failed
  <2>. QED
    BY <2>1, <1>3 DEF Parts
<1>. QED
  BY <1>2, <1>3

-----------------------------------------------------------------------------
(* What a write does to the parts of the account.                          *)

AccountParts == {"groups", "users", "peers", "resources", "nets", "policies", "keys"}

(* Nothing but these parts of the account is changed.                      *)
Kept(b, a, changed) == DOMAIN b = DOMAIN a /\ \A x \in AccountParts \ changed : b[x] = a[x]

LEMMA PutGroup ==
  ASSUME NEW a, NEW w, NEW r, Shaped(a), w.type = "groups", w.body # Gone
  PROVE  /\ Applied(a, w, r).groups = Upsert(a.groups, w.id, w.body)
         /\ Kept(Applied(a, w, r), a, {"groups"})
  BY DEF Applied, Put, Shaped, Kept, AccountParts

LEMMA PutPolicy ==
  ASSUME NEW a, NEW w, NEW r, Shaped(a), w.type = "policies", w.body # Gone
  PROVE  /\ Applied(a, w, r).policies = Upsert(a.policies, w.id, Numbered(w.body, r))
         /\ Kept(Applied(a, w, r), a, {"policies"})
  BY DEF Applied, Put, Shaped, Kept, AccountParts

LEMMA PutKey ==
  ASSUME NEW a, NEW w, NEW r, Shaped(a), w.type = "keys", w.body # Gone
  PROVE  /\ Applied(a, w, r).keys = Upsert(a.keys, w.id, w.body)
         /\ Kept(Applied(a, w, r), a, {"keys"})
  BY DEF Applied, Put, Shaped, Kept, AccountParts

LEMMA PutPeer ==
  ASSUME NEW a, NEW w, NEW r, Shaped(a), w.type = "peers", w.body # Gone
  PROVE  /\ Applied(a, w, r).peers = [a.peers EXCEPT ![w.id] = w.body]
         /\ Kept(Applied(a, w, r), a, {"peers"})
  BY DEF Applied, Put, Shaped, Kept, AccountParts

LEMMA PutUser ==
  ASSUME NEW a, NEW w, NEW r, Shaped(a), w.type = "users", w.body # Gone
  PROVE  /\ Applied(a, w, r).users = [a.users EXCEPT ![w.id] = w.body]
         /\ Applied(a, w, r).groups = Propagated(a, w.id, w.body.auto)
         /\ Kept(Applied(a, w, r), a, {"users", "groups"})
  BY DEF Applied, Put, Shaped, Kept, AccountParts

LEMMA PutNetwork ==
  ASSUME NEW a, NEW w, NEW r, Shaped(a), w.type = "nets", w.body # Gone
  PROVE  /\ Applied(a, w, r).nets = Upsert(a.nets, w.id, [conf |-> w.body.conf, routers |->
              IF w.id \in DOMAIN a.nets THEN a.nets[w.id].routers ELSE <<>>])
         /\ Kept(Applied(a, w, r), a, {"nets"})
  BY DEF Applied, Put, Shaped, Kept, AccountParts

LEMMA PutRouter ==
  ASSUME NEW a, NEW w, NEW r, Shaped(a), w.type = "routers", w.body # Gone,
         w.net \in DOMAIN a.nets
  PROVE  /\ Applied(a, w, r).nets =
              [a.nets EXCEPT ![w.net].routers = Upsert(a.nets[w.net].routers, w.id, w.body)]
         /\ Kept(Applied(a, w, r), a, {"nets"})
  BY DEF Applied, Put, Shaped, Kept, AccountParts

LEMMA PutResource ==
  ASSUME NEW a, NEW w, NEW r, Shaped(a), w.type = "resources", w.body # Gone
  PROVE  /\ Applied(a, w, r).resources = Upsert(a.resources, w.id, w.body)
         /\ Applied(a, w, r).groups = Listed(a.groups, w.id, w.body.groups)
         /\ Kept(Applied(a, w, r), a, {"resources", "groups"})
<1>. DEFINE X == Upsert(a.resources, w.id, w.body)
            Y == Listed(a.groups, w.id, w.body.groups)
<1>1. Applied(a, w, r) = [a EXCEPT !.resources = X, !.groups = Y]
  BY DEF Applied, Put
<1>2. DOMAIN a = AccountParts
  BY DEF Shaped, AccountParts
<1>. HIDE DEF X, Y
<1>3. /\ Applied(a, w, r).resources = X /\ Applied(a, w, r).groups = Y
      /\ Kept(Applied(a, w, r), a, {"resources", "groups"})
  BY ONLY <1>1, <1>2 DEF Kept, AccountParts
<1>. QED
  BY <1>3 DEF X, Y

LEMMA DeletedOne ==
  ASSUME NEW a, NEW w, NEW r, Shaped(a), w.body = Gone
  PROVE  /\ w.type = "groups" => /\ Applied(a, w, r).groups = Drop(a.groups, w.id)
                                 /\ Kept(Applied(a, w, r), a, {"groups"})
         /\ w.type = "policies" => /\ Applied(a, w, r).policies = Drop(a.policies, w.id)
                                   /\ Kept(Applied(a, w, r), a, {"policies"})
         /\ w.type = "keys" => /\ Applied(a, w, r).keys = Drop(a.keys, w.id)
                               /\ Kept(Applied(a, w, r), a, {"keys"})
  BY DEF Applied, Deleted, Shaped, Kept, AccountParts

LEMMA DeletedRouter ==
  ASSUME NEW a, NEW w, NEW r, Shaped(a), w.type = "routers", w.body = Gone,
         w.net \in DOMAIN a.nets
  PROVE  /\ Applied(a, w, r).nets =
              [a.nets EXCEPT ![w.net].routers = Drop(a.nets[w.net].routers, w.id)]
         /\ Kept(Applied(a, w, r), a, {"nets"})
  BY DEF Applied, Deleted, Shaped, Kept, AccountParts

LEMMA DeletedPeer ==
  ASSUME NEW a, NEW w, NEW r, Shaped(a), w.type = "peers", w.body = Gone
  PROVE  /\ Applied(a, w, r).peers = Drop(a.peers, w.id)
         /\ Applied(a, w, r).policies = WithoutRefs(a.policies, {w.id})
         /\ Applied(a, w, r).groups = NoPeer(a.groups, w.id)
         /\ Kept(Applied(a, w, r), a, {"peers", "policies", "groups"})
<1>. DEFINE X == Drop(a.peers, w.id)
            Y == WithoutRefs(a.policies, {w.id})
            Z == NoPeer(a.groups, w.id)
<1>1. Applied(a, w, r) = [a EXCEPT !.peers = X, !.policies = Y, !.groups = Z]
  BY DEF Applied, Deleted
<1>2. DOMAIN a = AccountParts
  BY DEF Shaped, AccountParts
<1>. HIDE DEF X, Y, Z
<1>3. /\ Applied(a, w, r).peers = X /\ Applied(a, w, r).policies = Y
      /\ Applied(a, w, r).groups = Z
      /\ Kept(Applied(a, w, r), a, {"peers", "policies", "groups"})
  BY ONLY <1>1, <1>2 DEF Kept, AccountParts
<1>. QED
  BY <1>3 DEF X, Y, Z

LEMMA DroppedResources ==
  ASSUME NEW a, NEW rids, Shaped(a)
  PROVE  /\ DropResources(a, rids).resources = DropAll(a.resources, rids)
         /\ DropResources(a, rids).groups = NoResources(a.groups, rids)
         /\ DropResources(a, rids).policies = WithoutRefs(a.policies, rids)
         /\ Kept(DropResources(a, rids), a, {"resources", "groups", "policies"})
<1>. DEFINE X == DropAll(a.resources, rids)
            Y == NoResources(a.groups, rids)
            Z == WithoutRefs(a.policies, rids)
            b == DropResources(a, rids)
<1>1. b = [a EXCEPT !.resources = X, !.groups = Y, !.policies = Z]
  BY DEF DropResources
<1>2. DOMAIN a = AccountParts
  BY DEF Shaped, AccountParts
<1>. HIDE DEF X, Y, Z, b
<1>3. /\ b.resources = X /\ b.groups = Y /\ b.policies = Z
      /\ Kept(b, a, {"resources", "groups", "policies"})
  BY ONLY <1>1, <1>2 DEF Kept, AccountParts
<1>. QED
  BY <1>3 DEF X, Y, Z, b

LEMMA DeletedResource ==
  ASSUME NEW a, NEW w, NEW r, w.type = "resources", w.body = Gone
  PROVE  Applied(a, w, r) = DropResources(a, {w.id})
  BY DEF Applied, Deleted

LEMMA DeletedNetwork ==
  ASSUME NEW a, NEW w, NEW r, Shaped(a), w.type = "nets", w.body = Gone
  PROVE  /\ Applied(a, w, r).nets = Drop(a.nets, w.id)
         /\ Kept(Applied(a, w, r), DropResources(a, ResourcesIn(a, w.id)), {"nets"})
<1>. DEFINE d == DropResources(a, ResourcesIn(a, w.id))
<1>1. Applied(a, w, r) = [d EXCEPT !.nets = Drop(@, w.id)]
  BY DEF Applied, Deleted
<1>2. DOMAIN d = AccountParts
  BY DroppedResources DEF Kept, Shaped, AccountParts
<1>3. d.nets = a.nets
  BY DroppedResources DEF Kept, AccountParts
<1>. DEFINE X == Drop(a.nets, w.id)
<1>4. Applied(a, w, r) = [d EXCEPT !.nets = X]
  BY <1>1, <1>3
<1>. HIDE DEF d, X
<1>5. Applied(a, w, r).nets = X /\ Kept(Applied(a, w, r), d, {"nets"})
  BY <1>4, <1>2 DEF Kept, AccountParts
<1>. QED
  BY <1>5 DEF d, X

-----------------------------------------------------------------------------
(* Rules that NetBird numbers, and rules that lose their references.       *)

(* Rules that differ in the id and the references at most.                 *)
LikeRule(y, x) ==
  /\ DOMAIN y = DOMAIN x
  /\ y.on = x.on /\ y.both = x.both /\ y.auth = x.auth /\ y.svc = x.svc
  /\ y.src = x.src /\ y.dst = x.dst

NumberedRule(y, x, r) ==
  /\ LikeRule(y, x) /\ y.srcRef = x.srcRef /\ y.dstRef = x.dstRef
  /\ y.id = IF x.id = NoId THEN <<r, x>> ELSE x.id

LEMMA MadeId ==
  ASSUME NEW r, r # None, NEW x
  PROVE  <<r, x>> # NoId
  BY DEF NoId

LEMMA NumberedIs ==
  ASSUME NEW pol, NEW r, ValidPolicy(pol)
  PROVE  /\ DOMAIN Numbered(pol, r) = DOMAIN pol
         /\ Numbered(pol, r).conf = pol.conf /\ Numbered(pol, r).on = pol.on
         /\ Numbered(pol, r).posture = pol.posture
         /\ \A y \in Numbered(pol, r).rules : \E x \in pol.rules : NumberedRule(y, x, r)
         /\ \A x \in pol.rules : \E y \in Numbered(pol, r).rules : NumberedRule(y, x, r)
<1>. DEFINE new(x) == [x EXCEPT !.id = IF x.id = NoId THEN <<r, x>> ELSE x.id]
            rules == {new(x) : x \in pol.rules}
<1>1. \A x \in pol.rules : NumberedRule(new(x), x, r)
  BY DEF ValidPolicy, ValidRule, NumberedRule, LikeRule
<1>2. Numbered(pol, r) = [pol EXCEPT !.rules = rules]
  BY DEF Numbered
<1>3. /\ \A y \in rules : \E x \in pol.rules : y = new(x)
      /\ \A x \in pol.rules : new(x) \in rules
  OBVIOUS
<1>. HIDE DEF rules, new
<1>4. /\ DOMAIN Numbered(pol, r) = DOMAIN pol
      /\ Numbered(pol, r).conf = pol.conf /\ Numbered(pol, r).on = pol.on
      /\ Numbered(pol, r).posture = pol.posture /\ Numbered(pol, r).rules = rules
  BY <1>2 DEF ValidPolicy
<1>. QED
  BY <1>1, <1>3, <1>4

Kept1(ref, gone) == IF ref \in gone THEN None ELSE ref

UnreferredRule(y, x, gone) ==
  /\ LikeRule(y, x) /\ y.id = x.id
  /\ y.srcRef = Kept1(x.srcRef, gone) /\ y.dstRef = Kept1(x.dstRef, gone)

LEMMA WithoutRefsIs ==
  ASSUME NEW policies, NEW gone, NEW i \in DOMAIN policies, ValidPolicy(policies[i])
  PROVE  LET pol == WithoutRefs(policies, gone)[i]
         IN  /\ DOMAIN pol = DOMAIN policies[i]
             /\ pol.conf = policies[i].conf /\ pol.on = policies[i].on
             /\ pol.posture = policies[i].posture
             /\ \A y \in pol.rules : \E x \in policies[i].rules : UnreferredRule(y, x, gone)
             /\ \A x \in policies[i].rules : \E y \in pol.rules : UnreferredRule(y, x, gone)
<1>. DEFINE kept(ref) == IF ref \in gone THEN None ELSE ref
            new(x) == [x EXCEPT !.srcRef = kept(@), !.dstRef = kept(@)]
            rules == {new(x) : x \in policies[i].rules}
            pol == WithoutRefs(policies, gone)[i]
<1>1. \A x \in policies[i].rules : UnreferredRule(new(x), x, gone)
  BY DEF ValidPolicy, ValidRule, UnreferredRule, LikeRule, Kept1
<1>2. pol = [policies[i] EXCEPT !.rules = rules]
  BY DEF WithoutRefs
<1>3. /\ \A y \in rules : \E x \in policies[i].rules : y = new(x)
      /\ \A x \in policies[i].rules : new(x) \in rules
  OBVIOUS
<1>. HIDE DEF rules, new, pol
<1>4. /\ DOMAIN pol = DOMAIN policies[i]
      /\ pol.conf = policies[i].conf /\ pol.on = policies[i].on
      /\ pol.posture = policies[i].posture /\ pol.rules = rules
  BY <1>2 DEF ValidPolicy
<1>5. /\ \A y \in pol.rules : \E x \in policies[i].rules : UnreferredRule(y, x, gone)
      /\ \A x \in policies[i].rules : \E y \in pol.rules : UnreferredRule(y, x, gone)
  BY <1>1, <1>3, <1>4
<1>. QED
  BY <1>4, <1>5 DEF pol

LEMMA WithoutRefsDomain ==
  ASSUME NEW policies, NEW gone
  PROVE  DOMAIN WithoutRefs(policies, gone) = DOMAIN policies
  BY DEF WithoutRefs

-----------------------------------------------------------------------------
(* The account stays valid: one part after the other.                      *)

GroupsValid(a) ==
  /\ \A g \in DOMAIN a.groups : DOMAIN a.groups[g] = {"peers", "resources"}
                                /\ a.groups[g].peers \subseteq DOMAIN a.peers
                                /\ a.groups[g].resources \subseteq DOMAIN a.resources

UsersValid(a) == DOMAIN a.users = Users /\ \A u \in Users : a.users[u].auto \subseteq DOMAIN a.groups

PeersValid(a) ==
  /\ DOMAIN a.peers \subseteq Peers
  /\ \A p \in DOMAIN a.peers : DOMAIN a.peers[p] = {"user", "conf", "idle", "waits"}
                               /\ a.peers[p].waits \in BOOLEAN

ResourcesValid(a) ==
  \A x \in DOMAIN a.resources : DOMAIN a.resources[x] = {"net", "conf", "groups"}
                                /\ a.resources[x].net \in DOMAIN a.nets

NetsValid(a) == \A n \in DOMAIN a.nets : DOMAIN a.nets[n] = {"conf", "routers"}

KeysValid(a) == \A k \in DOMAIN a.keys : a.keys[k].revoked \in BOOLEAN

PolicyIn(pol, groups) ==
  /\ ValidPolicy(pol)
  /\ \A x \in pol.rules : x.id # NoId /\ x.src \cup x.dst \subseteq DOMAIN groups

PoliciesValid(a) == \A i \in DOMAIN a.policies : PolicyIn(a.policies[i], a.groups)

LEMMA ValidParts ==
  ASSUME NEW a
  PROVE  ValidAccount(a) <=>
           /\ DOMAIN a = AccountParts
           /\ GroupsValid(a) /\ UsersValid(a) /\ PeersValid(a) /\ ResourcesValid(a)
           /\ NetsValid(a) /\ KeysValid(a) /\ PoliciesValid(a)
<1>1. ValidAccount(a) =>
        /\ DOMAIN a = AccountParts
        /\ GroupsValid(a) /\ UsersValid(a) /\ PeersValid(a) /\ ResourcesValid(a)
        /\ NetsValid(a) /\ KeysValid(a) /\ PoliciesValid(a)
  BY DEF ValidAccount, Shaped, Coherent, GroupsValid, UsersValid, PeersValid, ResourcesValid,
         NetsValid, KeysValid, PoliciesValid, PolicyIn, AccountParts
<1>2. ASSUME DOMAIN a = AccountParts,
             GroupsValid(a), UsersValid(a), PeersValid(a), ResourcesValid(a),
             NetsValid(a), KeysValid(a), PoliciesValid(a)
      PROVE  ValidAccount(a)
  <2>1. Shaped(a)
    BY <1>2 DEF Shaped, GroupsValid, PeersValid, ResourcesValid,
         NetsValid, KeysValid, PoliciesValid, PolicyIn, AccountParts
  <2>2. Coherent(a)
    BY <1>2 DEF Coherent, GroupsValid, UsersValid, PeersValid, ResourcesValid,
         PoliciesValid, PolicyIn
  <2>. QED
    BY <2>1, <2>2 DEF ValidAccount
<1>. QED
  BY <1>1, <1>2

(* Groups as before, of which the peers and the resources may be others.   *)
LEMMA ValidWithGroups ==
  ASSUME NEW a, NEW b, ValidAccount(a), Kept(b, a, {"groups"}),
         DOMAIN a.groups \subseteq DOMAIN b.groups,
         GroupsValid(b)
  PROVE  ValidAccount(b)
<1>1. /\ b.users = a.users /\ b.peers = a.peers /\ b.resources = a.resources
      /\ b.nets = a.nets /\ b.keys = a.keys /\ b.policies = a.policies /\ DOMAIN b = DOMAIN a
  BY DEF Kept, AccountParts
<1>2. /\ DOMAIN a = AccountParts
      /\ UsersValid(a) /\ PeersValid(a) /\ ResourcesValid(a)
      /\ NetsValid(a) /\ KeysValid(a) /\ PoliciesValid(a)
  BY ValidParts
<1>3. UsersValid(b) /\ PeersValid(b) /\ ResourcesValid(b) /\ NetsValid(b) /\ KeysValid(b)
  BY <1>1, <1>2 DEF UsersValid, PeersValid, ResourcesValid, NetsValid, KeysValid
<1>4. PoliciesValid(b)
  BY <1>1, <1>2 DEF PoliciesValid, PolicyIn
<1>. QED
  BY <1>1, <1>2, <1>3, <1>4, ValidParts

LEMMA ValidPutGroup ==
  ASSUME NEW a, NEW w, NEW r, ValidAccount(a), ValidWrite(w), Accepts(a, w),
         w.type = "groups", w.body # Gone
  PROVE  ValidAccount(Applied(a, w, r))
<1>. DEFINE b == Applied(a, w, r)
<1>1. b.groups = Upsert(a.groups, w.id, w.body) /\ Kept(b, a, {"groups"})
  BY PutGroup DEF ValidAccount
<1>2. /\ DOMAIN w.body = {"peers", "resources"}
      /\ w.body.peers \subseteq DOMAIN a.peers /\ w.body.resources \subseteq DOMAIN a.resources
  BY DEF ValidWrite, ValidBody, Accepts, RefersTo
<1>3. b.peers = a.peers /\ b.resources = a.resources
  BY <1>1 DEF Kept, AccountParts
<1>4. GroupsValid(a)
  BY ValidParts
<1>. HIDE DEF b
<1>5. GroupsValid(b) /\ DOMAIN a.groups \subseteq DOMAIN b.groups
  BY <1>1, <1>2, <1>3, <1>4 DEF GroupsValid, Upsert
<1>6. ValidAccount(b)
  BY <1>1, <1>5, ValidWithGroups
<1>. QED
  BY <1>6 DEF b

LEMMA ValidPutPolicy ==
  ASSUME NEW a, NEW w, NEW r, ValidAccount(a), ValidWrite(w), Accepts(a, w), r # None,
         w.type = "policies", w.body # Gone
  PROVE  ValidAccount(Applied(a, w, r))
<1>. DEFINE b == Applied(a, w, r)
            new == Numbered(w.body, r)
<1>1. b.policies = Upsert(a.policies, w.id, new) /\ Kept(b, a, {"policies"})
  BY PutPolicy DEF ValidAccount
<1>2. ValidPolicy(w.body)
  BY DEF ValidWrite, ValidBody
<1>3. \A x \in w.body.rules : x.src \cup x.dst \subseteq DOMAIN a.groups
  BY DEF Accepts, RefersTo
<1>4. /\ b.users = a.users /\ b.peers = a.peers /\ b.resources = a.resources
      /\ b.nets = a.nets /\ b.keys = a.keys /\ b.groups = a.groups /\ DOMAIN b = DOMAIN a
  BY <1>1 DEF Kept, AccountParts
<1>5. /\ DOMAIN a = AccountParts
      /\ GroupsValid(a) /\ UsersValid(a) /\ PeersValid(a) /\ ResourcesValid(a)
      /\ NetsValid(a) /\ KeysValid(a) /\ PoliciesValid(a)
  BY ValidParts
<1>6. DOMAIN new = DOMAIN w.body /\ \A y \in new.rules : \E x \in w.body.rules : NumberedRule(y, x, r)
  BY <1>2, NumberedIs
<1>10. ASSUME NEW y \in new.rules
       PROVE  /\ y.id # NoId
              /\ ValidRule(y) /\ y.src \cup y.dst \subseteq DOMAIN a.groups
  <2>1. PICK x \in w.body.rules : NumberedRule(y, x, r)
    BY <1>6
  <2>5. LikeRule(y, x) /\ y.srcRef = x.srcRef /\ y.dstRef = x.dstRef
    BY <2>1 DEF NumberedRule
  <2>6. ValidRule(y) /\ y.src \cup y.dst \subseteq DOMAIN a.groups
    BY <2>5, <1>2, <1>3 DEF ValidPolicy, ValidRule, LikeRule
  <2>2. y.id = IF x.id = NoId THEN <<r, x>> ELSE x.id
    BY <2>1 DEF NumberedRule
  <2>. DEFINE made == <<r, x>>
  <2>3. made # NoId
    BY MadeId
  <2>4. y.id = IF x.id = NoId THEN made ELSE x.id
    BY <2>2
  <2>. HIDE DEF made
  <2>7. y.id # NoId
    BY ONLY <2>3, <2>4
  <2>. QED
    BY <2>6, <2>7
<1>7. PolicyIn(new, a.groups)
  <2>1. DOMAIN new = DOMAIN w.body
    BY <1>6
  <2>. HIDE DEF new
  <2>. QED
    BY <1>2, <1>10, <2>1 DEF PolicyIn, ValidPolicy
<1>. HIDE DEF b, new
<1>8. PoliciesValid(b)
  BY <1>1, <1>4, <1>5, <1>7 DEF PoliciesValid, Upsert
<1>9. GroupsValid(b) /\ UsersValid(b) /\ PeersValid(b) /\ ResourcesValid(b) /\ NetsValid(b)
      /\ KeysValid(b)
  BY <1>4, <1>5 DEF GroupsValid, UsersValid, PeersValid, ResourcesValid, NetsValid, KeysValid
<1>11. ValidAccount(b)
  BY <1>4, <1>5, <1>8, <1>9, ValidParts
<1>. QED
  BY <1>11 DEF b

LEMMA ValidPutKey ==
  ASSUME NEW a, NEW w, NEW r, ValidAccount(a), ValidWrite(w), w.type = "keys", w.body # Gone
  PROVE  ValidAccount(Applied(a, w, r))
<1>. DEFINE b == Applied(a, w, r)
<1>1. b.keys = Upsert(a.keys, w.id, w.body) /\ Kept(b, a, {"keys"})
  BY PutKey DEF ValidAccount
<1>2. w.body.revoked \in BOOLEAN
  BY DEF ValidWrite, ValidBody
<1>3. /\ b.users = a.users /\ b.peers = a.peers /\ b.resources = a.resources
      /\ b.nets = a.nets /\ b.policies = a.policies /\ b.groups = a.groups /\ DOMAIN b = DOMAIN a
  BY <1>1 DEF Kept, AccountParts
<1>4. /\ DOMAIN a = AccountParts
      /\ GroupsValid(a) /\ UsersValid(a) /\ PeersValid(a) /\ ResourcesValid(a)
      /\ NetsValid(a) /\ KeysValid(a) /\ PoliciesValid(a)
  BY ValidParts
<1>. HIDE DEF b
<1>5. KeysValid(b)
  BY <1>1, <1>2, <1>4 DEF KeysValid, Upsert
<1>6. GroupsValid(b) /\ UsersValid(b) /\ PeersValid(b) /\ ResourcesValid(b) /\ NetsValid(b)
      /\ PoliciesValid(b)
  BY <1>3, <1>4
     DEF GroupsValid, UsersValid, PeersValid, ResourcesValid, NetsValid, PoliciesValid
<1>7. ValidAccount(b)
  BY <1>3, <1>4, <1>5, <1>6, ValidParts
<1>. QED
  BY <1>7 DEF b

LEMMA ValidPutPeer ==
  ASSUME NEW a, NEW w, NEW r, ValidAccount(a), ValidWrite(w), Accepts(a, w),
         w.type = "peers", w.body # Gone
  PROVE  ValidAccount(Applied(a, w, r))
<1>. DEFINE b == Applied(a, w, r)
<1>1. b.peers = [a.peers EXCEPT ![w.id] = w.body] /\ Kept(b, a, {"peers"})
  BY PutPeer DEF ValidAccount
<1>2. DOMAIN w.body = {"user", "conf", "idle", "waits"} /\ w.body.waits \in BOOLEAN
  BY DEF ValidWrite, ValidBody
<1>3. /\ b.users = a.users /\ b.keys = a.keys /\ b.resources = a.resources
      /\ b.nets = a.nets /\ b.policies = a.policies /\ b.groups = a.groups /\ DOMAIN b = DOMAIN a
  BY <1>1 DEF Kept, AccountParts
<1>4. /\ DOMAIN a = AccountParts
      /\ GroupsValid(a) /\ UsersValid(a) /\ PeersValid(a) /\ ResourcesValid(a)
      /\ NetsValid(a) /\ KeysValid(a) /\ PoliciesValid(a)
  BY ValidParts
<1>. HIDE DEF b
<1>5. PeersValid(b) /\ DOMAIN b.peers = DOMAIN a.peers
  BY <1>1, <1>2, <1>4 DEF PeersValid
<1>6. GroupsValid(b)
  BY <1>3, <1>4, <1>5 DEF GroupsValid
<1>7. UsersValid(b) /\ ResourcesValid(b) /\ NetsValid(b) /\ KeysValid(b) /\ PoliciesValid(b)
  BY <1>3, <1>4
     DEF KeysValid, UsersValid, ResourcesValid, NetsValid, PoliciesValid
<1>8. ValidAccount(b)
  BY <1>3, <1>4, <1>5, <1>6, <1>7, ValidParts
<1>. QED
  BY <1>8 DEF b

(* Groups to which a user's devices follow its change.                     *)
FollowUser(new, a, u, auto) ==
  /\ DOMAIN new = DOMAIN a.groups
  /\ \A g \in DOMAIN a.groups :
       /\ DOMAIN new[g] = {"peers", "resources"}
       /\ new[g].resources = a.groups[g].resources
       /\ new[g].peers =
            IF ~Propagates \/ (g \in auto <=> g \in a.users[u].auto) THEN a.groups[g].peers
            ELSE IF g \in auto THEN a.groups[g].peers \cup OwnPeers(a, u)
            ELSE a.groups[g].peers \ OwnPeers(a, u)

LEMMA PropagatedIs ==
  ASSUME NEW a, NEW u, NEW auto, GroupsValid(a)
  PROVE  FollowUser(Propagated(a, u, auto), a, u, auto)
  BY DEF Propagated, GroupsValid, FollowUser

LEMMA ValidPutUser ==
  ASSUME NEW a, NEW w, NEW r, ValidAccount(a), ValidWrite(w), Accepts(a, w),
         w.type = "users", w.body # Gone
  PROVE  ValidAccount(Applied(a, w, r))
<1>. DEFINE b == Applied(a, w, r)
            new == Propagated(a, w.id, w.body.auto)
<1>1. /\ b.users = [a.users EXCEPT ![w.id] = w.body] /\ b.groups = new
      /\ Kept(b, a, {"users", "groups"})
  BY PutUser DEF ValidAccount
<1>2. w.body.auto \subseteq DOMAIN a.groups
  BY DEF Accepts, RefersTo
<1>3. /\ b.peers = a.peers /\ b.keys = a.keys /\ b.resources = a.resources
      /\ b.nets = a.nets /\ b.policies = a.policies /\ DOMAIN b = DOMAIN a
  BY <1>1 DEF Kept, AccountParts
<1>4. /\ DOMAIN a = AccountParts
      /\ GroupsValid(a) /\ UsersValid(a) /\ PeersValid(a) /\ ResourcesValid(a)
      /\ NetsValid(a) /\ KeysValid(a) /\ PoliciesValid(a)
  BY ValidParts
<1>5. /\ DOMAIN new = DOMAIN a.groups
      /\ \A g \in DOMAIN a.groups : /\ DOMAIN new[g] = {"peers", "resources"}
                                    /\ new[g].resources = a.groups[g].resources
                                    /\ new[g].peers \subseteq a.groups[g].peers \cup DOMAIN a.peers
  <2>1. OwnPeers(a, w.id) \subseteq DOMAIN a.peers
    BY DEF OwnPeers
  <2>2. FollowUser(new, a, w.id, w.body.auto)
    BY <1>4, PropagatedIs
  <2>. HIDE DEF new
  <2>. QED
    BY <2>1, <2>2 DEF FollowUser
<1>. HIDE DEF b, new
<1>6. GroupsValid(b)
  BY <1>1, <1>3, <1>4, <1>5 DEF GroupsValid
<1>7. UsersValid(b)
  BY <1>1, <1>2, <1>4, <1>5 DEF UsersValid
<1>8. PoliciesValid(b)
  BY <1>1, <1>3, <1>4, <1>5 DEF PoliciesValid, PolicyIn
<1>9. PeersValid(b) /\ ResourcesValid(b) /\ NetsValid(b) /\ KeysValid(b)
  BY <1>3, <1>4 DEF KeysValid, PeersValid, ResourcesValid, NetsValid
<1>10. ValidAccount(b)
  BY <1>3, <1>4, <1>6, <1>7, <1>8, <1>9, ValidParts
<1>. QED
  BY <1>10 DEF b

(* Networks as before, of which the routers and the settings are others.   *)
LEMMA ValidWithNets ==
  ASSUME NEW a, NEW b, ValidAccount(a), Kept(b, a, {"nets"}),
         DOMAIN a.nets \subseteq DOMAIN b.nets, NetsValid(b)
  PROVE  ValidAccount(b)
<1>1. /\ b.users = a.users /\ b.peers = a.peers /\ b.resources = a.resources
      /\ b.groups = a.groups /\ b.keys = a.keys /\ b.policies = a.policies /\ DOMAIN b = DOMAIN a
  BY DEF Kept, AccountParts
<1>2. /\ DOMAIN a = AccountParts
      /\ GroupsValid(a) /\ UsersValid(a) /\ PeersValid(a) /\ ResourcesValid(a)
      /\ KeysValid(a) /\ PoliciesValid(a)
  BY ValidParts
<1>3. UsersValid(b) /\ PeersValid(b) /\ KeysValid(b) /\ GroupsValid(b) /\ PoliciesValid(b)
  BY <1>1, <1>2 DEF UsersValid, PeersValid, KeysValid, GroupsValid, PoliciesValid
<1>4. ResourcesValid(b)
  BY <1>1, <1>2 DEF ResourcesValid
<1>. QED
  BY <1>1, <1>2, <1>3, <1>4, ValidParts

LEMMA ValidNetworks ==
  ASSUME NEW a, NEW w, NEW r, ValidAccount(a), ValidWrite(w), Accepts(a, w),
         (w.type = "nets" /\ w.body # Gone) \/ w.type = "routers"
  PROVE  ValidAccount(Applied(a, w, r))
<1>. DEFINE b == Applied(a, w, r)
<1>0. NetsValid(a)
  BY ValidParts
<1>1. CASE w.type = "nets" /\ w.body # Gone
  <2>. DEFINE net == [conf |-> w.body.conf,
                      routers |-> IF w.id \in DOMAIN a.nets THEN a.nets[w.id].routers ELSE <<>>]
  <2>1. b.nets = Upsert(a.nets, w.id, net) /\ Kept(b, a, {"nets"})
    BY <1>1, PutNetwork DEF ValidAccount
  <2>2. DOMAIN net = {"conf", "routers"}
    OBVIOUS
  <2>. HIDE DEF b, net
  <2>3. NetsValid(b) /\ DOMAIN a.nets \subseteq DOMAIN b.nets
    BY <2>1, <2>2, <1>0 DEF NetsValid, Upsert
  <2>4. ValidAccount(b)
    BY <2>1, <2>3, ValidWithNets
  <2>. QED
    BY <2>4 DEF b
<1>2. CASE w.type = "routers"
  <2>1. w.net \in DOMAIN a.nets
    BY <1>2 DEF Accepts
  <2>2. PICK routers : b.nets = [a.nets EXCEPT ![w.net].routers = routers]
                       /\ Kept(b, a, {"nets"})
    <3>. DEFINE less == Drop(a.nets[w.net].routers, w.id)
                more == Upsert(a.nets[w.net].routers, w.id, w.body)
    <3>1. ASSUME w.body = Gone
          PROVE  b.nets = [a.nets EXCEPT ![w.net].routers = less] /\ Kept(b, a, {"nets"})
      BY <3>1, <1>2, <2>1, DeletedRouter DEF ValidAccount
    <3>2. ASSUME w.body # Gone
          PROVE  b.nets = [a.nets EXCEPT ![w.net].routers = more] /\ Kept(b, a, {"nets"})
      BY <3>2, <1>2, <2>1, PutRouter DEF ValidAccount
    <3>. HIDE DEF b, less, more
    <3>. QED
      BY <3>1, <3>2
  <2>. HIDE DEF b
  <2>3. NetsValid(b) /\ DOMAIN a.nets = DOMAIN b.nets
    BY <2>1, <2>2, <1>0 DEF NetsValid
  <2>4. ValidAccount(b)
    BY <2>2, <2>3, ValidWithNets
  <2>. QED
    BY <2>4 DEF b
<1>. QED
  BY <1>1, <1>2

ListResource(new, a, rid, gids) ==
  /\ DOMAIN new = DOMAIN a.groups
  /\ \A g \in DOMAIN a.groups :
       /\ DOMAIN new[g] = {"peers", "resources"}
       /\ new[g].peers = a.groups[g].peers
       /\ new[g].resources = IF g \in gids THEN a.groups[g].resources \cup {rid}
                             ELSE a.groups[g].resources \ {rid}

LEMMA ListedIs ==
  ASSUME NEW a, NEW rid, NEW gids, GroupsValid(a)
  PROVE  ListResource(Listed(a.groups, rid, gids), a, rid, gids)
  BY DEF Listed, GroupsValid, ListResource

LEMMA ValidPutResource ==
  ASSUME NEW a, NEW w, NEW r, ValidAccount(a), ValidWrite(w), Accepts(a, w),
         w.type = "resources", w.body # Gone
  PROVE  ValidAccount(Applied(a, w, r))
<1>. DEFINE b == Applied(a, w, r)
            new == Listed(a.groups, w.id, w.body.groups)
<1>1. /\ b.resources = Upsert(a.resources, w.id, w.body) /\ b.groups = new
      /\ Kept(b, a, {"resources", "groups"})
  BY PutResource DEF ValidAccount
<1>2. DOMAIN w.body = {"net", "conf", "groups"} /\ w.body.net \in DOMAIN a.nets
  BY DEF Accepts, ValidWrite, ValidBody
<1>3. /\ b.peers = a.peers /\ b.keys = a.keys /\ b.users = a.users
      /\ b.nets = a.nets /\ b.policies = a.policies /\ DOMAIN b = DOMAIN a
  BY <1>1 DEF Kept, AccountParts
<1>4. /\ DOMAIN a = AccountParts
      /\ GroupsValid(a) /\ UsersValid(a) /\ PeersValid(a) /\ ResourcesValid(a)
      /\ NetsValid(a) /\ KeysValid(a) /\ PoliciesValid(a)
  BY ValidParts
<1>5. /\ DOMAIN new = DOMAIN a.groups
      /\ \A g \in DOMAIN a.groups : /\ DOMAIN new[g] = {"peers", "resources"}
                                    /\ new[g].peers = a.groups[g].peers
                                    /\ new[g].resources \subseteq a.groups[g].resources \cup {w.id}
  <2>1. ListResource(new, a, w.id, w.body.groups)
    BY <1>4, ListedIs
  <2>. HIDE DEF new
  <2>. QED
    BY <2>1 DEF ListResource
<1>. HIDE DEF b, new
<1>6. ResourcesValid(b) /\ DOMAIN b.resources = DOMAIN a.resources \cup {w.id}
  BY <1>1, <1>2, <1>3, <1>4 DEF ResourcesValid, Upsert
<1>7. GroupsValid(b)
  BY <1>1, <1>3, <1>4, <1>5, <1>6 DEF GroupsValid
<1>8. UsersValid(b) /\ PoliciesValid(b)
  BY <1>1, <1>3, <1>4, <1>5 DEF UsersValid, PoliciesValid, PolicyIn
<1>9. PeersValid(b) /\ NetsValid(b) /\ KeysValid(b)
  BY <1>3, <1>4 DEF KeysValid, PeersValid, NetsValid
<1>10. ValidAccount(b)
  BY <1>3, <1>4, <1>6, <1>7, <1>8, <1>9, ValidParts
<1>. QED
  BY <1>10 DEF b

LeaveOut(new, a, pids, rids) ==
  /\ DOMAIN new = DOMAIN a.groups
  /\ \A g \in DOMAIN a.groups :
       /\ DOMAIN new[g] = {"peers", "resources"}
       /\ new[g].peers = a.groups[g].peers \ pids
       /\ new[g].resources = a.groups[g].resources \ rids

LEMMA NoPeerIs ==
  ASSUME NEW a, NEW pid, GroupsValid(a)
  PROVE  LeaveOut(NoPeer(a.groups, pid), a, {pid}, {})
  BY DEF NoPeer, GroupsValid, LeaveOut

LEMMA NoResourcesIs ==
  ASSUME NEW a, NEW rids, GroupsValid(a)
  PROVE  LeaveOut(NoResources(a.groups, rids), a, {}, rids)
  BY DEF NoResources, GroupsValid, LeaveOut

LEMMA ValidWithoutRefs ==
  ASSUME NEW a, NEW gone, PoliciesValid(a)
  PROVE  \A i \in DOMAIN a.policies : PolicyIn(WithoutRefs(a.policies, gone)[i], a.groups)
<1>. SUFFICES ASSUME NEW i \in DOMAIN a.policies
              PROVE  PolicyIn(WithoutRefs(a.policies, gone)[i], a.groups)
  OBVIOUS
<1>. DEFINE pol == WithoutRefs(a.policies, gone)[i]
<1>1. PolicyIn(a.policies[i], a.groups)
  BY DEF PoliciesValid
<1>2. /\ DOMAIN pol = DOMAIN a.policies[i]
      /\ \A y \in pol.rules : \E x \in a.policies[i].rules : UnreferredRule(y, x, gone)
  BY <1>1, WithoutRefsIs DEF PolicyIn
<1>. HIDE DEF pol
<1>3. PolicyIn(pol, a.groups)
  BY <1>1, <1>2 DEF PolicyIn, ValidPolicy, ValidRule, UnreferredRule, LikeRule, Kept1
<1>. QED
  BY <1>3 DEF pol

LEMMA ValidDeletedOne ==
  ASSUME NEW a, NEW w, NEW r, ValidAccount(a), Accepts(a, w),
         w.type \in {"groups", "policies", "keys"}, w.body = Gone
  PROVE  ValidAccount(Applied(a, w, r))
<1>. DEFINE b == Applied(a, w, r)
<1>1. /\ DOMAIN a = AccountParts
      /\ GroupsValid(a) /\ UsersValid(a) /\ PeersValid(a) /\ ResourcesValid(a)
      /\ NetsValid(a) /\ KeysValid(a) /\ PoliciesValid(a)
  BY ValidParts
<1>2. CASE w.type = "groups"
  <2>1. b.groups = Drop(a.groups, w.id) /\ Kept(b, a, {"groups"})
    BY <1>2, DeletedOne DEF ValidAccount
  <2>2. /\ \A i \in DOMAIN a.policies : \A x \in a.policies[i].rules : w.id \notin x.src \cup x.dst
        /\ \A u \in DOMAIN a.users : w.id \notin a.users[u].auto
    BY <1>2 DEF Accepts, GroupInUse
  <2>. HIDE DEF b
  <2>3. /\ b.users = a.users /\ b.peers = a.peers /\ b.resources = a.resources
        /\ b.nets = a.nets /\ b.policies = a.policies /\ b.keys = a.keys /\ DOMAIN b = DOMAIN a
    BY <2>1 DEF Kept, AccountParts
  <2>4. DOMAIN b.groups = DOMAIN a.groups \ {w.id} /\ \A g \in DOMAIN b.groups : b.groups[g] = a.groups[g]
    BY <2>1 DEF Drop, DropAll
  <2>5. GroupsValid(b)
    BY <1>1, <2>3, <2>4 DEF GroupsValid
  <2>6. UsersValid(b)
    BY <1>1, <2>2, <2>3, <2>4 DEF UsersValid
  <2>7. PoliciesValid(b)
    BY <1>1, <2>2, <2>3, <2>4 DEF PoliciesValid, PolicyIn
  <2>8. PeersValid(b) /\ ResourcesValid(b) /\ NetsValid(b) /\ KeysValid(b)
    BY <1>1, <2>3 DEF PeersValid, ResourcesValid, NetsValid, KeysValid
  <2>9. ValidAccount(b)
    BY <1>1, <2>3, <2>5, <2>6, <2>7, <2>8, ValidParts
  <2>. QED
    BY <2>9 DEF b
<1>3. CASE w.type = "policies"
  <2>1. b.policies = Drop(a.policies, w.id) /\ Kept(b, a, {"policies"})
    BY <1>3, DeletedOne DEF ValidAccount
  <2>. HIDE DEF b
  <2>2. /\ b.users = a.users /\ b.peers = a.peers /\ b.resources = a.resources
        /\ b.nets = a.nets /\ b.groups = a.groups /\ b.keys = a.keys /\ DOMAIN b = DOMAIN a
    BY <2>1 DEF Kept, AccountParts
  <2>3. PoliciesValid(b)
    BY <1>1, <2>1, <2>2 DEF PoliciesValid, Drop, DropAll
  <2>4. GroupsValid(b) /\ UsersValid(b) /\ PeersValid(b) /\ ResourcesValid(b) /\ NetsValid(b)
        /\ KeysValid(b)
    BY <1>1, <2>2 DEF GroupsValid, UsersValid, PeersValid, ResourcesValid, NetsValid, KeysValid
  <2>5. ValidAccount(b)
    BY <1>1, <2>2, <2>3, <2>4, ValidParts
  <2>. QED
    BY <2>5 DEF b
<1>4. CASE w.type = "keys"
  <2>1. b.keys = Drop(a.keys, w.id) /\ Kept(b, a, {"keys"})
    BY <1>4, DeletedOne DEF ValidAccount
  <2>. HIDE DEF b
  <2>2. /\ b.users = a.users /\ b.peers = a.peers /\ b.resources = a.resources
        /\ b.nets = a.nets /\ b.groups = a.groups /\ b.policies = a.policies /\ DOMAIN b = DOMAIN a
    BY <2>1 DEF Kept, AccountParts
  <2>3. KeysValid(b)
    BY <1>1, <2>1 DEF KeysValid, Drop, DropAll
  <2>4. GroupsValid(b) /\ UsersValid(b) /\ PeersValid(b) /\ ResourcesValid(b) /\ NetsValid(b)
        /\ PoliciesValid(b)
    BY <1>1, <2>2 DEF GroupsValid, UsersValid, PeersValid, ResourcesValid, NetsValid, PoliciesValid
  <2>5. ValidAccount(b)
    BY <1>1, <2>2, <2>3, <2>4, ValidParts
  <2>. QED
    BY <2>5 DEF b
<1>. QED
  BY <1>2, <1>3, <1>4

LEMMA ValidDeletedPeer ==
  ASSUME NEW a, NEW w, NEW r, ValidAccount(a), w.type = "peers", w.body = Gone
  PROVE  ValidAccount(Applied(a, w, r))
<1>. DEFINE b == Applied(a, w, r)
            groups == NoPeer(a.groups, w.id)
            policies == WithoutRefs(a.policies, {w.id})
<1>1. /\ DOMAIN a = AccountParts
      /\ GroupsValid(a) /\ UsersValid(a) /\ PeersValid(a) /\ ResourcesValid(a)
      /\ NetsValid(a) /\ KeysValid(a) /\ PoliciesValid(a)
  BY ValidParts
<1>2. /\ b.peers = Drop(a.peers, w.id) /\ b.policies = policies /\ b.groups = groups
      /\ Kept(b, a, {"peers", "policies", "groups"})
  BY DeletedPeer DEF ValidAccount
<1>3. /\ b.users = a.users /\ b.resources = a.resources
      /\ b.nets = a.nets /\ b.keys = a.keys /\ DOMAIN b = DOMAIN a
  BY <1>2 DEF Kept, AccountParts
<1>4. LeaveOut(groups, a, {w.id}, {})
  BY <1>1, NoPeerIs
<1>5. DOMAIN policies = DOMAIN a.policies
      /\ \A i \in DOMAIN a.policies : PolicyIn(policies[i], a.groups)
  BY <1>1, ValidWithoutRefs, WithoutRefsDomain
<1>. HIDE DEF b, groups, policies
<1>6. GroupsValid(b)
  BY <1>1, <1>2, <1>3, <1>4 DEF GroupsValid, LeaveOut, Drop, DropAll
<1>7. PeersValid(b)
  BY <1>1, <1>2 DEF PeersValid, Drop, DropAll
<1>8. PoliciesValid(b)
  BY <1>2, <1>4, <1>5 DEF PoliciesValid, PolicyIn, LeaveOut
<1>9. UsersValid(b) /\ ResourcesValid(b) /\ NetsValid(b) /\ KeysValid(b)
  BY <1>1, <1>2, <1>3, <1>4 DEF UsersValid, ResourcesValid, NetsValid, KeysValid, LeaveOut
<1>10. ValidAccount(b)
  BY <1>1, <1>3, <1>6, <1>7, <1>8, <1>9, ValidParts
<1>. QED
  BY <1>10 DEF b

(* Without some resources, whatever becomes of the networks.               *)
LEMMA ValidDropped ==
  ASSUME NEW a, NEW b, NEW rids, ValidAccount(a),
         Kept(b, DropResources(a, rids), {"nets"}), NetsValid(b),
         \A x \in DOMAIN a.resources \ rids : a.resources[x].net \in DOMAIN b.nets
  PROVE  ValidAccount(b)
<1>. DEFINE d == DropResources(a, rids)
            groups == NoResources(a.groups, rids)
            policies == WithoutRefs(a.policies, rids)
<1>1. /\ DOMAIN a = AccountParts
      /\ GroupsValid(a) /\ UsersValid(a) /\ PeersValid(a) /\ ResourcesValid(a)
      /\ NetsValid(a) /\ KeysValid(a) /\ PoliciesValid(a)
  BY ValidParts
<1>2. /\ d.resources = DropAll(a.resources, rids) /\ d.policies = policies /\ d.groups = groups
      /\ Kept(d, a, {"resources", "groups", "policies"})
  BY DroppedResources DEF ValidAccount
<1>3. Kept(b, d, {"nets"})
  OBVIOUS
<1>4. LeaveOut(groups, a, {}, rids)
  BY <1>1, NoResourcesIs
<1>5. DOMAIN policies = DOMAIN a.policies
      /\ \A i \in DOMAIN a.policies : PolicyIn(policies[i], a.groups)
  BY <1>1, ValidWithoutRefs, WithoutRefsDomain
<1>. HIDE DEF d, groups, policies
<1>6. /\ b.users = a.users /\ b.peers = a.peers /\ b.keys = a.keys /\ DOMAIN b = DOMAIN a
      /\ b.resources = DropAll(a.resources, rids) /\ b.policies = policies /\ b.groups = groups
  <2>1. /\ d.users = a.users /\ d.peers = a.peers /\ d.keys = a.keys /\ DOMAIN d = DOMAIN a
    BY <1>2 DEF Kept, AccountParts
  <2>2. /\ b.users = d.users /\ b.peers = d.peers /\ b.keys = d.keys /\ DOMAIN b = DOMAIN d
        /\ b.resources = d.resources /\ b.policies = d.policies /\ b.groups = d.groups
    BY <1>3 DEF Kept, AccountParts
  <2>. QED
    BY <1>2, <2>1, <2>2
<1>7. GroupsValid(b)
  <2>1. DOMAIN b.resources = DOMAIN a.resources \ rids
    BY <1>6 DEF DropAll
  <2>2. \A g \in DOMAIN groups : /\ DOMAIN groups[g] = {"peers", "resources"}
                                 /\ groups[g].peers \subseteq DOMAIN a.peers
                                 /\ groups[g].resources \subseteq DOMAIN a.resources \ rids
    BY <1>1, <1>4 DEF GroupsValid, LeaveOut
  <2>. QED
    BY <1>6, <2>1, <2>2 DEF GroupsValid
<1>8. ResourcesValid(b)
  BY <1>1, <1>6 DEF ResourcesValid, DropAll
<1>9. PoliciesValid(b)
  BY <1>4, <1>5, <1>6 DEF PoliciesValid, PolicyIn, LeaveOut
<1>10. UsersValid(b) /\ PeersValid(b) /\ KeysValid(b)
  BY <1>1, <1>4, <1>6 DEF UsersValid, PeersValid, KeysValid, LeaveOut
<1>. QED
  BY <1>1, <1>6, <1>7, <1>8, <1>9, <1>10, ValidParts

LEMMA ValidDeletedResource ==
  ASSUME NEW a, NEW w, NEW r, ValidAccount(a), w.type = "resources", w.body = Gone
  PROVE  ValidAccount(Applied(a, w, r))
<1>. DEFINE d == DropResources(a, {w.id})
<1>1. Applied(a, w, r) = d
  BY DeletedResource
<1>2. Kept(d, a, {"resources", "groups", "policies"})
  BY DroppedResources DEF ValidAccount
<1>3. NetsValid(a) /\ ResourcesValid(a)
  BY ValidParts
<1>4. Kept(d, d, {"nets"})
  BY DEF Kept
<1>5. d.nets = a.nets
  BY <1>2 DEF Kept, AccountParts
<1>6. NetsValid(d) /\ \A x \in DOMAIN a.resources \ {w.id} : a.resources[x].net \in DOMAIN d.nets
  BY <1>3, <1>5 DEF NetsValid, ResourcesValid
<1>. QED
  BY <1>1, <1>4, <1>6, ValidDropped

LEMMA ValidDeletedNetwork ==
  ASSUME NEW a, NEW w, NEW r, ValidAccount(a), w.type = "nets", w.body = Gone
  PROVE  ValidAccount(Applied(a, w, r))
<1>. DEFINE b == Applied(a, w, r)
            rids == ResourcesIn(a, w.id)
<1>1. b.nets = Drop(a.nets, w.id) /\ Kept(b, DropResources(a, rids), {"nets"})
  BY DeletedNetwork DEF ValidAccount
<1>2. NetsValid(a) /\ ResourcesValid(a)
  BY ValidParts
<1>3. NetsValid(b)
  BY <1>1, <1>2 DEF NetsValid, Drop, DropAll
<1>4. \A x \in DOMAIN a.resources \ rids : a.resources[x].net \in DOMAIN b.nets
  BY <1>1, <1>2 DEF ResourcesValid, Drop, DropAll, ResourcesIn
<1>. QED
  BY <1>1, <1>3, <1>4, ValidDropped

(* Whatever NetBird accepts leaves a valid account.                        *)
LEMMA AppliedValid ==
  ASSUME NEW a, NEW w, NEW r, ValidAccount(a), ValidWrite(w), Accepts(a, w), r # None
  PROVE  ValidAccount(Applied(a, w, r))
<1>1. CASE w.body = Gone
  BY <1>1, ValidDeletedOne, ValidDeletedPeer, ValidDeletedResource, ValidDeletedNetwork,
     ValidNetworks DEF ValidWrite, Types
<1>2. CASE w.body # Gone
  BY <1>2, ValidPutGroup, ValidPutPolicy, ValidPutKey, ValidPutPeer, ValidPutUser,
     ValidPutResource, ValidNetworks DEF ValidWrite, Types
<1>. QED
  BY <1>1, <1>2

-----------------------------------------------------------------------------
(* The change that a form applies to what NetBird answers.                 *)

LEMMA FlipIs ==
  ASSUME NEW S, NEW T, NEW x
  PROVE  x \in Flip(S, T) <=> (x \in S /\ x \notin T) \/ (x \in T /\ x \notin S)
  BY DEF Flip

(* A user's groups after the change made on the page: of the groups that   *)
(* may be edited, those that were toggled are as the page did not show     *)
(* them, and all others as they are now.                                   *)
LEMMA ChosenIs ==
  ASSUME NEW e, NEW page, NEW current, NEW snap, NEW g
  PROVE  g \in Chosen(e, page, current, snap) <=>
           IF g \in e.groups /\ g \in EditableGroups(snap) THEN g \notin page ELSE g \in current
  BY DEF Chosen, Edited, Flip

LEMMA ChosenFlips ==
  ASSUME NEW e, NEW page, NEW current, NEW snap
  PROVE  Flip(current, Chosen(e, page, current, snap)) \subseteq e.groups
  BY ChosenIs, FlipIs

(* The users that gain or lose a group are those that were toggled.        *)
LEMMA PickedIs ==
  ASSUME NEW e, NEW page, NEW gid
  PROVE  LET had == IF gid \in Groups THEN Checked(page, gid) ELSE {}
         IN  /\ Picked(e, page, gid).added = (e.users \ had) \ ServiceUsers
             /\ Picked(e, page, gid).removed = e.users \cap had
<1>. DEFINE had == IF gid \in Groups THEN Checked(page, gid) ELSE {}
<1>1. had \cap ServiceUsers = {}
  BY DEF Checked
<1>2. Picked(e, page, gid) = UserGroupChanges(Flip(had, e.users), had)
  BY DEF Picked
<1>. HIDE DEF had
<1>3. /\ Picked(e, page, gid).added = (e.users \ had) \ ServiceUsers
      /\ Picked(e, page, gid).removed = e.users \cap had
  BY <1>1, <1>2 DEF UserGroupChanges, Flip
<1>. QED
  BY <1>3 DEF had

-----------------------------------------------------------------------------
(* The writes of each job.                                                 *)

IsTo(w, type, id) == w.type = type /\ w.id = id /\ w.net = None /\ ~w.new

LEMMA ToIs ==
  ASSUME NEW type, NEW id, NEW body
  PROVE  IsTo(To(type, id, body), type, id) /\ To(type, id, body).body = body
  BY DEF IsTo, To, Write

LEMMA GroupWritesAre ==
  ASSUME NEW e, NEW page, NEW a, NEW w \in GroupWrites(e, page, a), w.body # Bad
  PROVE  /\ IsTo(w, "groups", e.id) /\ e.id # AllGroup
         /\ w.body = [peers |-> FormPeers(e, page), resources |-> a.groups[e.id].resources]
  BY ToIs DEF GroupWrites, GroupBody

(* One of the users that gain or lose a group.                             *)
UsersWrite(w, a, pick, gid) ==
  /\ IsTo(w, "users", w.id) /\ w.id \in DOMAIN a.users
  /\ w.id \in pick.added \cup pick.removed
  /\ w.body = [role |-> a.users[w.id].role, auto |-> w.body.auto,
               blocked |-> a.users[w.id].blocked]
  /\ w.body.auto = IF w.id \in pick.added THEN a.users[w.id].auto \cup {gid}
                   ELSE a.users[w.id].auto \ {gid}
  /\ w.body.auto # a.users[w.id].auto

LEMMA UsersWritesAre ==
  ASSUME NEW e, NEW page, NEW a, NEW gid, NEW w \in UsersWrites(e, page, a, gid)
  PROVE  UsersWrite(w, a, Picked(e, page, gid), gid)
<1>. DEFINE pick == Picked(e, page, gid)
            new(u) == IF u \in pick.added THEN a.users[u].auto \cup {gid} ELSE a.users[u].auto \ {gid}
<1>1. PICK u \in {x \in (pick.added \cup pick.removed) \cap DOMAIN a.users :
                    new(x) # a.users[x].auto} :
        w = To("users", u, UserBody(a.users[u], new(u), Same, Same))
  BY DEF UsersWrites
<1>2. UserBody(a.users[u], new(u), Same, Same)
        = [role |-> a.users[u].role, auto |-> new(u), blocked |-> a.users[u].blocked]
  BY DEF UserBody, Or
<1>3. IsTo(w, "users", u) /\ w.id = u
  BY <1>1, ToIs DEF IsTo
<1>4. w.body = [role |-> a.users[u].role, auto |-> new(u), blocked |-> a.users[u].blocked]
  BY <1>1, <1>2, ToIs
<1>5. u \in pick.added \cup pick.removed /\ u \in DOMAIN a.users /\ new(u) # a.users[u].auto
  BY <1>1
<1>6. new(u) = IF u \in pick.added THEN a.users[u].auto \cup {gid} ELSE a.users[u].auto \ {gid}
  OBVIOUS
<1>. HIDE DEF new, pick
<1>7. w.body.auto = new(u)
  BY <1>4
<1>8. UsersWrite(w, a, pick, gid)
  BY <1>3, <1>4, <1>5, <1>6, <1>7 DEF UsersWrite
<1>. QED
  BY <1>8 DEF pick

UserWrite(w, e, now, auto) ==
  /\ IsTo(w, "users", e.id)
  /\ w.body = [role |-> Or(e.role, now.role), auto |-> auto, blocked |-> Or(e.blocked, now.blocked)]

LEMMA UserWritesAre ==
  ASSUME NEW e, NEW page, NEW snap, NEW a, NEW w \in UserWrites(e, page, snap, a), w.body # Bad
  PROVE  UserWrite(w, e, a.users[e.id], UserWant(e, page, snap, a))
  BY ToIs DEF UserWrites, UserBody, UserWrite

(* A group in which the devices are as their user's groups want it.        *)
AlignWrite(w, a, own, managed, want) ==
  /\ IsTo(w, "groups", w.id) /\ w.id \in DOMAIN a.groups /\ w.id \in managed
  /\ w.body.peers = (a.groups[w.id].peers \ own) \cup (IF w.id \in want THEN own ELSE {})
  /\ w.body = [peers |-> w.body.peers, resources |-> a.groups[w.id].resources]
  /\ w.body.peers # a.groups[w.id].peers

LEMMA AlignWritesAre ==
  ASSUME NEW e, NEW snap, NEW want, NEW a, NEW w \in AlignWrites(e, snap, want, a)
  PROVE  AlignWrite(w, a, OwnAligned(e, snap), ManagedGroups(snap), want)
<1>. DEFINE own == OwnAligned(e, snap)
            members == [g \in DOMAIN a.groups |-> a.groups[g].peers]
            changes == Alignment(members, ManagedGroups(snap) \cap DOMAIN a.groups, own, want)
<1>1. PICK g \in DOMAIN changes : w = To("groups", g, GroupBody(TRUE, changes[g], a.groups[g].resources))
  BY DEF AlignWrites
<1>2. /\ g \in ManagedGroups(snap) \cap DOMAIN a.groups
      /\ changes[g] = (members[g] \ own) \cup (IF g \in want THEN own ELSE {})
      /\ changes[g] # members[g]
  BY DEF Alignment
<1>3. members[g] = a.groups[g].peers
  <2>1. \A x \in DOMAIN a.groups : members[x] = a.groups[x].peers
    OBVIOUS
  <2>. HIDE DEF members, changes, own
  <2>. QED
    BY <1>2, <2>1
<1>4. IsTo(w, "groups", g) /\ w.id = g
  <2>1. \A body : w = To("groups", g, body) => IsTo(w, "groups", g)
    BY ToIs
  <2>. HIDE DEF members, changes, own
  <2>. QED
    BY <1>1, <2>1 DEF IsTo
<1>5. w.body = [peers |-> changes[g], resources |-> a.groups[g].resources]
  BY <1>1, ToIs DEF GroupBody
<1>. HIDE DEF members, own, changes
<1>6. w.body.peers = changes[g]
  BY <1>5
<1>7. w.body.peers = (a.groups[g].peers \ own) \cup (IF g \in want THEN own ELSE {})
      /\ w.body.peers # a.groups[g].peers
  BY <1>2, <1>3, <1>6
<1>8. AlignWrite(w, a, own, ManagedGroups(snap), want)
  BY <1>2, <1>4, <1>5, <1>6, <1>7 DEF AlignWrite
<1>. QED
  BY <1>8 DEF own

SettingsWrite(w, e, now) ==
  /\ IsTo(w, "peers", e.id)
  /\ DOMAIN w.body = {"user", "conf", "idle", "waits"}
  /\ w.body.user = now.user /\ w.body.idle = now.idle /\ w.body.waits = now.waits
  /\ w.body.conf = Or(e.conf, now.conf)

LEMMA SettingsWritesAre ==
  ASSUME NEW e, NEW a, NEW w \in SettingsWrites(e, a), PeersValid(a), e.id \in DOMAIN a.peers
  PROVE  SettingsWrite(w, e, a.peers[e.id])
<1>1. DOMAIN a.peers[e.id] = {"user", "conf", "idle", "waits"} /\ a.peers[e.id].waits \in BOOLEAN
  BY DEF PeersValid
<1>2. w = To("peers", e.id, PeerBody(a.peers[e.id], e.conf, FALSE))
  BY DEF SettingsWrites
<1>3. w.body = PeerBody(a.peers[e.id], e.conf, FALSE) /\ IsTo(w, "peers", e.id)
  BY <1>2, ToIs
<1>. QED
  BY <1>1, <1>3 DEF PeerBody, SettingsWrite

(* The peer joins the group or leaves it.                                  *)
MemberWrite(w, a, gid, pid, joining) ==
  /\ IsTo(w, "groups", gid)
  /\ w.body = [peers |-> IF gid \in joining THEN a.groups[gid].peers \cup {pid}
                         ELSE a.groups[gid].peers \ {pid},
               resources |-> a.groups[gid].resources]

LEMMA MemberWritesAre ==
  ASSUME NEW e, NEW page, NEW snap, NEW gid, NEW a, NEW w \in MemberWrites(e, page, snap, gid, a)
  PROVE  MemberWrite(w, a, gid, e.id, Chosen(e, PeerPage(page, e.id), snap.peers[e.id].groups, snap))
  BY ToIs DEF MemberWrites, GroupBody, MemberWrite

LEMMA PolicyWritesAre ==
  ASSUME NEW e, NEW page, NEW a, NEW w \in PolicyWrites(e, page, a), w.body # Bad
  PROVE  /\ IsTo(w, "policies", e.id)
         /\ PolicyFromForm(PolicyForm(e, page)) # Bad
         /\ w.body = CarryOver(a.policies[e.id], PolicyFromForm(PolicyForm(e, page)))
  BY ToIs DEF PolicyWrites

LEMMA ToggleWritesAre ==
  ASSUME NEW e, NEW a, NEW w \in ToggleWrites(e, a)
  PROVE  /\ IsTo(w, "policies", e.id)
         /\ w.body = PolicyForPut([a.policies[e.id] EXCEPT !.on = ~@])
  BY ToIs DEF ToggleWrites

LEMMA RevokeWritesAre ==
  ASSUME NEW e, NEW a, NEW w \in RevokeWrites(e, a)
  PROVE  IsTo(w, "policies", e.id) /\ w.body = Revoke(a.policies[e.id], e.rule, e.mode, e.target)
  BY ToIs DEF RevokeWrites

RevokedKey(fresh) == KeyBody(fresh, fresh.groups, TRUE)

LEMMA RevokedKeyIs ==
  ASSUME NEW fresh
  PROVE  RevokedKey(fresh).groups = fresh.groups /\ RevokedKey(fresh).revoked = TRUE
  BY DEF RevokedKey, KeyBody

LEMMA BulkWritesAre ==
  ASSUME NEW e, NEW k, NEW a, NEW w \in BulkWrites(e, k, a)
  PROVE  /\ IsTo(w, "keys", k)
         /\ \/ e.action = "delete" /\ w.body = Gone /\ a.keys[k].revoked
            \/ e.action # "delete" /\ w.body = RevokedKey(a.keys[k])
<1>1. CASE e.action = "delete"
  <2>1. w = To("keys", k, Gone) /\ a.keys[k].revoked
    BY <1>1 DEF BulkWrites
  <2>. QED
    BY <1>1, <2>1, ToIs
<1>2. CASE e.action # "delete"
  <2>1. w = To("keys", k, RevokedKey(a.keys[k]))
    BY <1>2 DEF BulkWrites, RevokedKey
  <2>. QED
    BY <1>2, <2>1, ToIs
<1>. QED
  BY <1>1, <1>2

LEMMA KeyWritesAre ==
  ASSUME NEW e, NEW page, NEW snap, NEW k, NEW a, NEW w \in KeyWrites(e, page, snap, k, a)
  PROVE  /\ IsTo(w, "keys", k)
         /\ w.body = KeyBody(a.keys[k], Chosen(e, page.keys[k].groups, a.keys[k].groups, snap),
                             e.action = "revoke")
  BY ToIs DEF KeyWrites

LEMMA DeleteKeyWritesAre ==
  ASSUME NEW k, NEW a, NEW w \in DeleteKeyWrites(k, a), w.body # Bad
  PROVE  IsTo(w, "keys", k) /\ w.body = Gone /\ a.keys[k].revoked
<1>1. w = To("keys", k, IF a.keys[k].revoked THEN Gone ELSE Bad)
  BY DEF DeleteKeyWrites
<1>2. IsTo(w, "keys", k) /\ w.body = IF a.keys[k].revoked THEN Gone ELSE Bad
  BY <1>1, ToIs
<1>. QED
  BY <1>2

LEMMA NetWritesAre ==
  ASSUME NEW e, NEW a, NEW w \in NetWrites(e, a)
  PROVE  IsTo(w, "nets", e.id) /\ w.body = NetBody(e.conf)
  BY ToIs DEF NetWrites

LEMMA ResourceWritesAre ==
  ASSUME NEW e, NEW page, NEW a, NEW w \in ResourceWrites(e, page, a), w.body # Bad
  PROVE  /\ w.type = "resources" /\ w.id = e.id /\ w.net = e.net /\ ~w.new
         /\ w.body = [net |-> e.net, conf |-> e.conf, groups |-> ResourceGroups(e, page)]
  BY DEF ResourceWrites, ResourceBody, Write

LEMMA RouterWritesAre ==
  ASSUME NEW e, NEW a, NEW w \in RouterWrites(e, a), w.body # Bad
  PROVE  /\ w.type = "routers" /\ w.id = e.id /\ w.net = e.net /\ ~w.new
         /\ w.body = [peer |-> e.peer, groups |-> e.groups, on |-> TRUE]
<1>1. w = Write("routers", e.id, e.net, RouterBody(e.peer, e.groups, TRUE), FALSE)
  BY DEF RouterWrites
<1>2. /\ w.type = "routers" /\ w.id = e.id /\ w.net = e.net /\ ~w.new
      /\ w.body = RouterBody(e.peer, e.groups, TRUE)
  BY <1>1 DEF Write
<1>3. RouterBody(e.peer, e.groups, TRUE)
        \in {Bad, [peer |-> e.peer, groups |-> e.groups, on |-> TRUE]}
  BY ZenonT(20) DEF RouterBody
<1>. QED
  BY <1>2, <1>3

LEMMA RestoreWritesAre ==
  ASSUME NEW r, NEW e, NEW snap, NEW w \in RestoreWrites(r, e, snap), w.body # Bad
  PROVE  /\ w.type = e.type /\ w.body = RestoreBody(e, snap) /\ w.net = None
         /\ \/ w.id = e.id /\ ~w.new
            \/ w.id = r /\ w.new
  BY DEF RestoreWrites, To, Write

LEMMA RemovalIs ==
  ASSUME NEW e, e.type \in {"groups", "peers", "policies", "nets", "resources", "routers"}
  PROVE  /\ Removal(e).type = e.type /\ Removal(e).id = e.id /\ Removal(e).body = Gone
         /\ ~Removal(e).new
         /\ e.type \in {"resources", "routers"} => Removal(e).net = e.net
  BY DEF Removal, DeleteGroup, DeletePeer, DeletePolicy, DeleteNetwork, DeleteResource,
         DeleteRouter, To, Write

-----------------------------------------------------------------------------
(* The bodies of policies have the shape of one.                           *)

RuleParts == {"id", "on", "both", "auth", "svc", "src", "srcRef", "dst", "dstRef"}

LEMMA FormPolicyValid ==
  ASSUME NEW form, PolicyFromForm(form) # Bad
  PROVE  ValidPolicy(PolicyFromForm(form))
<1>. DEFINE rules == {BuildRule(r) : r \in form.rules}
            pol == [conf |-> form.conf, on |-> form.on, posture |-> form.posture, rules |-> rules]
<1>1. PolicyFromForm(form) = pol /\ Bad \notin rules
  BY DEF PolicyFromForm
<1>2. ASSUME NEW r \in form.rules
      PROVE  ValidRule(BuildRule(r))
  <2>1. BuildRule(r) # Bad
    BY <1>1
  <2>. QED
    BY <2>1 DEF BuildRule, ValidRule
<1>3. \A x \in rules : ValidRule(x)
  BY <1>2
<1>. HIDE DEF rules
<1>. QED
  BY <1>1, <1>3 DEF ValidPolicy

LEMMA CarryOverValid ==
  ASSUME NEW before, NEW body, ValidPolicy(body)
  PROVE  ValidPolicy(CarryOver(before, body))
<1>. DEFINE prev(r) == {b \in before.rules : b.id = r.id /\ r.id # NoId}
            auth(r) == UNION {b.auth : b \in prev(r)}
            direct(r) == {b.srcRef : b \in prev(r)} \ {None}
            new(r) == [r EXCEPT !.auth = auth(r),
                         !.src = IF direct(r) = {} THEN @ ELSE {},
                         !.srcRef = IF direct(r) = {} THEN @ ELSE CHOOSE x \in direct(r) : TRUE]
            rules == {new(r) : r \in body.rules}
<1>1. CarryOver(before, body) = [body EXCEPT !.rules = rules]
  BY DEF CarryOver
<1>2. ASSUME NEW r \in body.rules
      PROVE  ValidRule(new(r))
  <2>1. ValidRule(r)
    BY DEF ValidPolicy
  <2>. HIDE DEF auth, direct
  <2>. QED
    BY <2>1 DEF ValidRule
<1>3. \A x \in rules : ValidRule(x)
  BY <1>2
<1>. HIDE DEF rules
<1>. QED
  BY <1>1, <1>3 DEF ValidPolicy

RuleShape(x) == DOMAIN x = RuleParts
PolicyShape(pol) == DOMAIN pol = {"conf", "on", "posture", "rules"} /\ \A x \in pol.rules : RuleShape(x)

LEMMA RuleForPutIs ==
  ASSUME NEW x, RuleShape(x)
  PROVE  /\ ValidRule(RuleForPut(x)) /\ RuleShape(RuleForPut(x))
         /\ \A n \in RuleParts \ {"src", "dst"} : RuleForPut(x)[n] = x[n]
         /\ RuleForPut(x).src = IF x.srcRef = None THEN x.src ELSE {}
         /\ RuleForPut(x).dst = IF x.dstRef = None THEN x.dst ELSE {}
  BY DEF RuleForPut, RuleShape, ValidRule, RuleParts

LEMMA ForPutValid ==
  ASSUME NEW pol, PolicyShape(pol)
  PROVE  /\ ValidPolicy(PolicyForPut(pol))
         /\ \A n \in {"conf", "on", "posture"} : PolicyForPut(pol)[n] = pol[n]
         /\ PolicyForPut(pol).rules = {RuleForPut(x) : x \in pol.rules}
<1>. DEFINE rules == {RuleForPut(x) : x \in pol.rules}
<1>1. PolicyForPut(pol) = [pol EXCEPT !.rules = rules]
  BY DEF PolicyForPut
<1>2. \A x \in rules : ValidRule(x)
  BY RuleForPutIs DEF PolicyShape
<1>. HIDE DEF rules
<1>3. /\ ValidPolicy(PolicyForPut(pol))
      /\ \A n \in {"conf", "on", "posture"} : PolicyForPut(pol)[n] = pol[n]
      /\ PolicyForPut(pol).rules = rules
  BY <1>1, <1>2 DEF ValidPolicy, PolicyShape
<1>. QED
  BY <1>3 DEF rules

LEMMA ValidIsShape ==
  ASSUME NEW pol, ValidPolicy(pol)
  PROVE  PolicyShape(pol)
  BY DEF ValidPolicy, PolicyShape, RuleShape, ValidRule, RuleParts

LEMMA RestoredValid ==
  ASSUME NEW snap, NEW id, NEW pol, ValidPolicy(PolicyForPut(pol)), RestorePolicy(snap, id, pol) # Bad
  PROVE  ValidPolicy(RestorePolicy(snap, id, pol))
<1>. DEFINE body == PolicyForPut(pol)
            rules == {[r EXCEPT !.id = NoId] : r \in body.rules}
            anew == [body EXCEPT !.rules = rules]
<1>1. RestorePolicy(snap, id, pol) \in {body, anew}
  BY DEF RestorePolicy
<1>. HIDE DEF body
<1>2. ValidPolicy(body)
  BY DEF body
<1>3. \A x \in rules : ValidRule(x)
  BY <1>2 DEF ValidPolicy, ValidRule
<1>. HIDE DEF rules
<1>4. ValidPolicy(anew)
  BY <1>2, <1>3 DEF ValidPolicy
<1>. QED
  BY <1>1, <1>2, <1>4

(* What is left of a rule without one of a side.                           *)
Lessened(y, x) ==
  /\ RuleShape(y) /\ \A n \in RuleParts \ {"src", "dst"} : y[n] = x[n]
  /\ y.src \subseteq x.src /\ y.dst \subseteq x.dst

LEMMA WithoutIs ==
  ASSUME NEW x, NEW side, NEW target, RuleShape(x), Without(x, side, target) # Bad,
         Without(x, side, target) # None
  PROVE  Lessened(Without(x, side, target), x)
<1>. DEFINE y == Without(x, side, target)
<1>1. y = [x EXCEPT !.src = @ \ {target}] \/ y = [x EXCEPT !.dst = @ \ {target}]
  BY DEF Without
<1>. HIDE DEF y
<1>2. Lessened(y, x)
  BY <1>1 DEF Lessened, RuleShape, RuleParts
<1>. QED
  BY <1>2 DEF y

(* A revoke leaves the other rules, and of its own what Lessened says.     *)
RevokedRules(rules, pol, rid) ==
  \E x \in pol.rules :
    /\ x.id = rid
    /\ \A z \in pol.rules \ {x} : z \in rules
    /\ \A y \in rules : y \in pol.rules \ {x} \/ Lessened(y, RuleForPut(x))

LEMMA RevokeIs ==
  ASSUME NEW pol, NEW rid, NEW mode, NEW target, PolicyShape(pol),
         Revoke(pol, rid, mode, target) # Bad
  PROVE  \/ Revoke(pol, rid, mode, target) = Gone
         \/ /\ mode = "disable"
            /\ Revoke(pol, rid, mode, target) = PolicyForPut([pol EXCEPT !.on = FALSE])
         \/ \E rules : /\ RevokedRules(rules, pol, rid)
                       /\ Revoke(pol, rid, mode, target) = PolicyForPut([pol EXCEPT !.rules = rules])
<1>. DEFINE rule == CHOOSE r \in pol.rules : r.id = rid
            side == IF mode = "remove_source" THEN "source" ELSE "destination"
            kept == Without(RuleForPut(rule), side, target)
            rules == (pol.rules \ {rule}) \cup ({kept} \ {None})
            body == Revoke(pol, rid, mode, target)
<1>1. \E r \in pol.rules : r.id = rid
  BY DEF Revoke
<1>2. rule \in pol.rules /\ rule.id = rid
  BY <1>1
<1>3. \/ body = Gone
      \/ mode = "disable" /\ body = PolicyForPut([pol EXCEPT !.on = FALSE])
      \/ kept # Bad /\ body = PolicyForPut([pol EXCEPT !.rules = rules])
  BY <1>1 DEF Revoke
<1>4. RuleShape(RuleForPut(rule))
  BY <1>2, RuleForPutIs DEF PolicyShape
<1>5. kept # Bad /\ kept # None => Lessened(kept, RuleForPut(rule))
  BY <1>4, WithoutIs
<1>. HIDE DEF rule, kept, body, side
<1>6. kept # Bad => RevokedRules(rules, pol, rid)
  BY <1>2, <1>5 DEF RevokedRules
<1>. HIDE DEF rules
<1>7. \/ body = Gone
      \/ mode = "disable" /\ body = PolicyForPut([pol EXCEPT !.on = FALSE])
      \/ \E s : RevokedRules(s, pol, rid) /\ body = PolicyForPut([pol EXCEPT !.rules = s])
  BY <1>3, <1>6
<1>. QED
  BY <1>7 DEF body

LEMMA RevokeValid ==
  ASSUME NEW pol, NEW rid, NEW mode, NEW target, PolicyShape(pol),
         Revoke(pol, rid, mode, target) # Bad, Revoke(pol, rid, mode, target) # Gone
  PROVE  ValidPolicy(Revoke(pol, rid, mode, target))
<1>1. CASE Revoke(pol, rid, mode, target) = PolicyForPut([pol EXCEPT !.on = FALSE])
  <2>1. PolicyShape([pol EXCEPT !.on = FALSE])
    BY DEF PolicyShape
  <2>. QED
    BY <1>1, <2>1, ForPutValid
<1>2. ASSUME NEW rules, RevokedRules(rules, pol, rid),
             Revoke(pol, rid, mode, target) = PolicyForPut([pol EXCEPT !.rules = rules])
      PROVE  ValidPolicy(Revoke(pol, rid, mode, target))
  <2>1. \A y \in rules : RuleShape(y)
    BY <1>2 DEF RevokedRules, Lessened, PolicyShape
  <2>2. PolicyShape([pol EXCEPT !.rules = rules])
    BY <2>1 DEF PolicyShape
  <2>. QED
    BY <1>2, <2>2, ForPutValid
<1>. QED
  BY <1>1, <1>2, RevokeIs

-----------------------------------------------------------------------------
(* The jobs of an edit, and the shape of what they write.                  *)

LEMMA FormIs ==
  ASSUME NEW e \in Edits
  PROVE  FormOf(e)
  BY EditConstants

LEMMA StagedJobs ==
  ASSUME NEW r, NEW e, NEW first, NEW second, \A j \in first \cup second : JobOf(r, e, j)
  PROVE  \A j \in Staged(first, second).now \cup Staged(first, second).after : JobOf(r, e, j)
  BY StagedIs

LEMMA JobsAre ==
  ASSUME NEW r, NEW e, NEW page, NEW snap, FormOf(e)
  PROVE  \A j \in Jobs(r, e, page, snap).now \cup Jobs(r, e, page, snap).after : JobOf(r, e, j)
<1>1. CASE e.kind = "group"
  <2>. DEFINE second == IF UsersEditable(e.id) /\ e.id \in DOMAIN snap.groups
                        THEN {<<"users", e.id>>} ELSE {}
  <2>1. Jobs(r, e, page, snap) = Staged({<<"group", e.id>>}, second)
    BY <1>1 DEF Jobs, GroupJobs
  <2>2. \A j \in second : j = <<"users", e.id>>
    OBVIOUS
  <2>. DEFINE first == {<<"group", e.id>>}
  <2>. HIDE DEF second
  <2>3. \A j \in first \cup second : JobOf(r, e, j)
    BY <1>1, <2>2 DEF JobOf
  <2>4. Jobs(r, e, page, snap) = Staged(first, second)
    BY <2>1
  <2>. HIDE DEF first
  <2>5. \A j \in Staged(first, second).now \cup Staged(first, second).after : JobOf(r, e, j)
    BY ONLY <2>3, StagedJobs
  <2>. QED
    BY ONLY <2>4, <2>5
<1>2. CASE e.kind = "new group"
  <2>1. Jobs(r, e, page, snap) = Staged({<<"post", r>>}, {<<"users", r>>})
    BY <1>2 DEF Jobs
  <2>2. JobOf(r, e, <<"post", r>>) /\ JobOf(r, e, <<"users", r>>)
    BY <1>2 DEF JobOf
  <2>. QED
    BY <2>1, <2>2, StagedJobs
<1>3. CASE e.kind = "user"
  BY <1>3, StagedIs DEF Jobs, UserJobs, JobOf
<1>4. CASE e.kind = "peer"
  <2>. DEFINE now == snap.peers[e.id].groups
              new == Chosen(e, PeerPage(page, e.id), now, snap)
              first == IF e.conf = Same THEN {} ELSE {<<"settings", e.id>>}
              second == {<<"member", g>> : g \in Flip(now, new)}
  <2>1. Jobs(r, e, page, snap) \in {Staged(first, second), Staged({<<"settings", e.id>>}, {})}
    BY <1>4 DEF Jobs, PeerJobs
  <2>2. \A j \in second : \E g \in e.groups : j = <<"member", g>>
    BY ChosenFlips
  <2>3. \A j \in first : j = <<"settings", e.id>>
    OBVIOUS
  <2>. HIDE DEF first, second
  <2>. QED
    BY <1>4, <2>1, <2>2, <2>3, StagedIs DEF JobOf
<1>5. CASE e.kind = "bulk"
  BY <1>5, StagedIs DEF Jobs, JobOf
<1>6. CASE e.kind = "key"
  <2>1. Jobs(r, e, page, snap) = Staged({<<"key", e.id>>}, {})
    BY <1>6 DEF Jobs
  <2>. QED
    BY <1>6, <2>1, StagedIs DEF JobOf
<1>7. CASE e.kind \in {"new policy", "allow", "new key", "new net", "new resource", "new router"}
  <2>. DEFINE post == Jobs(r, e, page, snap) = Staged({<<"post", r>>}, {})
  <2>1. e.kind = "new policy" => post
    BY DEF Jobs
  <2>2. e.kind = "allow" => post
    BY DEF Jobs
  <2>3. e.kind = "new key" => post
    BY DEF Jobs
  <2>4. e.kind = "new net" => post
    BY DEF Jobs
  <2>5. e.kind = "new resource" => post
    BY DEF Jobs
  <2>6. e.kind = "new router" => post
    BY DEF Jobs
  <2>7. post
    BY <1>7, <2>1, <2>2, <2>3, <2>4, <2>5, <2>6
  <2>8. JobOf(r, e, <<"post", r>>)
    BY <1>7 DEF JobOf
  <2>. QED
    BY <2>7, <2>8, StagedJobs
<1>8. CASE e.kind \in {"policy", "toggle", "revoke", "net", "resource", "router", "restore", "delete"}
  <2>1. Jobs(r, e, page, snap) = Staged({<<e.kind, e.id>>}, {})
    BY <1>8 DEF Jobs
  <2>2. JobOf(r, e, <<e.kind, e.id>>)
    BY <1>8 DEF JobOf
  <2>. QED
    BY <2>1, <2>2, StagedJobs
<1>. QED
  BY <1>1, <1>2, <1>3, <1>4, <1>5, <1>6, <1>7, <1>8 DEF FormOf

Post(r, e) == Write(e.type, r, e.net, Posted(e), TRUE)

LEMMA WritesBy ==
  ASSUME NEW r, NEW q, NEW job, NEW a
  PROVE  LET e == q.make
             page == q.page
             snap == q.snap
         IN  /\ job[1] = "group" => Writes(r, q, job, a) = GroupWrites(e, page, a)
             /\ job[1] = "users" => Writes(r, q, job, a) = UsersWrites(e, page, a, job[2])
             /\ job[1] = "user" => Writes(r, q, job, a) = UserWrites(e, page, snap, a)
             /\ job[1] = "align" => Writes(r, q, job, a) = AlignWrites(e, snap, q.want, a)
             /\ job[1] = "settings" => Writes(r, q, job, a) = SettingsWrites(e, a)
             /\ job[1] = "member" => Writes(r, q, job, a) = MemberWrites(e, page, snap, job[2], a)
             /\ job[1] = "policy" => Writes(r, q, job, a) = PolicyWrites(e, page, a)
             /\ job[1] = "toggle" => Writes(r, q, job, a) = ToggleWrites(e, a)
             /\ job[1] = "revoke" => Writes(r, q, job, a) = RevokeWrites(e, a)
             /\ job[1] = "key" /\ e.kind = "bulk" => Writes(r, q, job, a) = BulkWrites(e, job[2], a)
             /\ job[1] = "key" /\ e.kind # "bulk" =>
                  Writes(r, q, job, a) = IF e.action = "delete" THEN DeleteKeyWrites(job[2], a)
                                      ELSE KeyWrites(e, page, snap, job[2], a)
             /\ job[1] = "net" => Writes(r, q, job, a) = NetWrites(e, a)
             /\ job[1] = "resource" => Writes(r, q, job, a) = ResourceWrites(e, page, a)
             /\ job[1] = "router" => Writes(r, q, job, a) = RouterWrites(e, a)
             /\ job[1] = "restore" => Writes(r, q, job, a) = RestoreWrites(r, e, snap)
             /\ job[1] = "delete" => Writes(r, q, job, a) = {Removal(e)}
             /\ job[1] = "post" => Writes(r, q, job, a) = {Post(r, e)}
  BY DEF Writes, Post

LEMMA NotGone ==
  ASSUME NEW body, NEW x \in DOMAIN body, x # "gone"
  PROVE  body # Gone
  BY DEF Gone

(* A new object has the shape of its type.                                 *)
LEMMA PostedValid ==
  ASSUME NEW r, NEW e, FormOf(e), NEW w, Posted(e) # Bad,
         e.kind \in {"new group", "new policy", "allow", "new key", "new net", "new resource",
                     "new router"},
         w = Post(r, e)
  PROVE  ValidWrite(w)
<1>1. /\ w.type = e.type /\ w.id = r /\ w.net = e.net /\ w.body = Posted(e) /\ w.new
  BY DEF Write, Post
<1>2. CASE e.kind = "new group"
  <2>1. e.type = "groups"
    BY <1>2 DEF FormOf
  <2>2. Posted(e) = [peers |-> e.peers, resources |-> {}]
    <3>1. Posted(e) = GroupBody(e.named, e.peers, {})
      BY <1>2 DEF Posted, NewGroup
    <3>. QED
      BY <3>1 DEF GroupBody
  <2>3. w.body = [peers |-> e.peers, resources |-> {}]
    BY ONLY <1>1, <2>2
  <2>4. DOMAIN w.body = {"peers", "resources"}
    BY ONLY <1>1, <2>3
  <2>. QED
    BY <1>1, <2>1, <2>4 DEF ValidWrite, ValidBody, Types
<1>3. CASE e.kind \in {"new policy", "allow"}
  <2>1. e.type = "policies"
    BY <1>3 DEF FormOf
  <2>2. ValidPolicy(Posted(e))
    BY <1>3, FormPolicyValid DEF Posted, NewPolicy, Allowed, AllowPolicy
  <2>. QED
    BY <1>1, <2>1, <2>2 DEF ValidWrite, ValidBody, Types
<1>4. CASE e.kind = "new key"
  <2>1. e.type = "keys"
    BY <1>4 DEF FormOf
  <2>2. Posted(e) = [groups |-> e.groups, revoked |-> FALSE]
    <3>1. Posted(e) = NewKeyBody(e.days, e.limit, e.groups)
      BY <1>4 DEF Posted, NewKey
    <3>. QED
      BY <3>1 DEF NewKeyBody
  <2>3. w.body = [groups |-> e.groups, revoked |-> FALSE]
    BY ONLY <1>1, <2>2
  <2>4. w.body.revoked \in BOOLEAN
    BY ONLY <1>1, <2>3
  <2>. QED
    BY <1>1, <2>1, <2>4 DEF ValidWrite, ValidBody, Types
<1>5. CASE e.kind \in {"new net", "new router"}
  <2>1. e.type \in {"nets", "routers"}
    BY <1>5 DEF FormOf
  <2>. QED
    BY <1>1, <2>1 DEF ValidWrite, ValidBody, Types
<1>6. CASE e.kind = "new resource"
  <2>1. e.type = "resources"
    BY <1>6 DEF FormOf
  <2>2. Posted(e) = [net |-> e.net, conf |-> e.conf, groups |-> e.groups]
    <3>1. Posted(e) = ResourceBody(e.net, e.conf, e.groups)
      BY <1>6 DEF Posted, NewResource
    <3>. QED
      BY <3>1 DEF ResourceBody
  <2>3. w.body = [net |-> e.net, conf |-> e.conf, groups |-> e.groups]
    BY ONLY <1>1, <2>2
  <2>4. DOMAIN w.body = {"net", "conf", "groups"} /\ w.body.net = w.net
    BY ONLY <1>1, <2>3
  <2>. QED
    BY <1>1, <2>1, <2>4 DEF ValidWrite, ValidBody, Types
<1>. QED
  BY <1>2, <1>3, <1>4, <1>5, <1>6

LEMMA GroupBodyValid ==
  ASSUME NEW w, w.type = "groups", w.body = Gone \/ DOMAIN w.body = {"peers", "resources"}
  PROVE  ValidWrite(w)
  BY DEF ValidWrite, ValidBody, Types

LEMMA PolicyBodyValid ==
  ASSUME NEW w, w.type = "policies", w.body = Gone \/ ValidPolicy(w.body)
  PROVE  ValidWrite(w)
  BY DEF ValidWrite, ValidBody, Types

LEMMA KeyBodyValid ==
  ASSUME NEW w, w.type = "keys", w.body = Gone \/ w.body.revoked \in BOOLEAN
  PROVE  ValidWrite(w)
  BY DEF ValidWrite, ValidBody, Types

LEMMA UserBodyValid ==
  ASSUME NEW w, w.type = "users", ~w.new, NEW role, NEW auto, NEW blocked,
         w.body = [role |-> role, auto |-> auto, blocked |-> blocked]
  PROVE  ValidWrite(w)
<1>1. w.body # Gone
  <2>1. "role" \in DOMAIN w.body
    OBVIOUS
  <2>. QED
    BY ONLY <2>1, NotGone
<1>. QED
  BY <1>1 DEF ValidWrite, ValidBody, Types

LEMMA KeyRevoked ==
  ASSUME NEW fresh, fresh.revoked \in BOOLEAN, NEW groups, NEW revoke, revoke \in BOOLEAN
  PROVE  KeyBody(fresh, groups, revoke).revoked \in BOOLEAN
<1>1. KeyBody(fresh, groups, revoke).revoked = (fresh.revoked \/ revoke)
  BY DEF KeyBody
<1>2. (fresh.revoked \/ revoke) \in BOOLEAN
  BY Zenon
<1>. QED
  BY <1>1, <1>2

LEMMA JobIs ==
  ASSUME NEW r, NEW e, NEW job, JobOf(r, e, job)
  PROVE  /\ job[1] \in {"group", "users", "user", "align", "settings", "member", "key", "post",
                        "policy", "toggle", "revoke", "net", "resource", "router", "restore",
                        "delete"}
         /\ job[1] = "group" => e.kind = "group" /\ job[2] = e.id
         /\ job[1] = "users" => \/ e.kind = "group" /\ job[2] = e.id
                                \/ e.kind = "new group" /\ job[2] = r
         /\ job[1] \in {"user", "align"} => e.kind = "user" /\ job[2] = e.id
         /\ job[1] = "settings" => e.kind = "peer" /\ job[2] = e.id
         /\ job[1] = "member" => e.kind = "peer" /\ job[2] \in e.groups
         /\ job[1] = "key" => \/ e.kind = "key" /\ job[2] = e.id
                              \/ e.kind = "bulk" /\ job[2] \in e.keys
         /\ job[1] = "post" =>
              /\ e.kind \in {"new group", "new policy", "allow", "new key", "new net",
                             "new resource", "new router"}
              /\ job[2] = r
         /\ job[1] \in {"policy", "toggle", "revoke", "net", "resource", "router", "restore",
                        "delete"} => e.kind = job[1] /\ job[2] = e.id
<1>1. CASE e.kind = "group"
  <2>1. job = <<"group", e.id>> \/ job = <<"users", e.id>>
    BY <1>1 DEF JobOf
  <2>2. job[1] \in {"group", "users"} /\ job[2] = e.id
    BY ONLY <2>1
  <2>. QED
    BY <1>1, <2>2
<1>2. CASE e.kind = "new group"
  <2>1. job = <<"post", r>> \/ job = <<"users", r>>
    BY <1>2 DEF JobOf
  <2>2. job[1] \in {"post", "users"} /\ job[2] = r
    BY ONLY <2>1
  <2>. QED
    BY <1>2, <2>2
<1>3. CASE e.kind = "user"
  <2>1. job = <<"user", e.id>> \/ job = <<"align", e.id>>
    BY <1>3 DEF JobOf
  <2>2. job[1] \in {"user", "align"} /\ job[2] = e.id
    BY ONLY <2>1
  <2>. QED
    BY <1>3, <2>2
<1>4. CASE e.kind = "peer"
  <2>1. job = <<"settings", e.id>> \/ \E g \in e.groups : job = <<"member", g>>
    BY <1>4 DEF JobOf
  <2>2. \/ job[1] = "settings" /\ job[2] = e.id
        \/ job[1] = "member" /\ job[2] \in e.groups
    BY ONLY <2>1
  <2>. QED
    BY <1>4, <2>2
<1>5. CASE e.kind \in {"bulk", "key"}
  <2>1. \/ e.kind = "bulk" /\ \E k \in e.keys : job = <<"key", k>>
        \/ e.kind = "key" /\ job = <<"key", e.id>>
    BY <1>5 DEF JobOf
  <2>2. job[1] = "key"
    BY ONLY <2>1
  <2>3. CASE e.kind = "bulk" /\ \E k \in e.keys : job = <<"key", k>>
    <3>1. PICK k \in e.keys : job = <<"key", k>>
      BY <2>3
    <3>2. job[2] = k
      BY ONLY <3>1
    <3>. QED
      BY <2>2, <2>3, <3>2
  <2>4. CASE e.kind = "key" /\ job = <<"key", e.id>>
    <3>1. job[2] = e.id
      BY ONLY <2>4
    <3>. QED
      BY <2>2, <2>4, <3>1
  <2>. QED
    BY <2>1, <2>3, <2>4
<1>6. CASE e.kind \in {"new policy", "allow", "new key", "new net", "new resource", "new router"}
  <2>1. job = <<"post", r>>
    BY <1>6 DEF JobOf
  <2>2. job[1] = "post" /\ job[2] = r
    BY ONLY <2>1
  <2>. QED
    BY <1>6, <2>2
<1>7. CASE e.kind \in {"policy", "toggle", "revoke", "net", "resource", "router", "restore",
                       "delete"}
  <2>1. job = <<e.kind, e.id>>
    BY <1>7 DEF JobOf
  <2>2. job[1] = e.kind /\ job[2] = e.id
    BY ONLY <2>1
  <2>. QED
    BY <1>7, <2>2
<1>. QED
  BY <1>1, <1>2, <1>3, <1>4, <1>5, <1>6, <1>7 DEF JobOf

LEMMA SingleJob ==
  ASSUME NEW r, NEW e, NEW job, JobOf(r, e, job),
         job[1] \in {"policy", "toggle", "revoke", "net", "resource", "router", "restore", "delete"}
  PROVE  e.kind = job[1] /\ job[2] = e.id
  BY ONLY JobOf(r, e, job), JobIs,
     job[1] \in {"policy", "toggle", "revoke", "net", "resource", "router", "restore", "delete"}

(* What a job writes that the handler does not refuse itself.              *)
LEMMA WritesValid ==
  ASSUME NEW r, NEW q, NEW job, NEW a, ValidAccount(a), q.make \in Edits,
         JobOf(r, q.make, job), Reads(q.make, job, a),
         NEW w \in Writes(r, q, job, a), w.body # Bad
  PROVE  ValidWrite(w)
<1>. DEFINE e == q.make
            page == q.page
            snap == q.snap
<1>0. FormOf(e) /\ PeersValid(a) /\ KeysValid(a) /\ PoliciesValid(a)
  BY FormIs, ValidParts
<1>1. CASE job[1] = "group"
  <2>1. w \in GroupWrites(e, page, a)
    BY <1>1, WritesBy
  <2>2. w.type = "groups" /\ w.body = [peers |-> FormPeers(e, page), resources |-> a.groups[e.id].resources]
    BY <2>1, GroupWritesAre DEF IsTo
  <2>. QED
    BY ONLY <2>2, GroupBodyValid
<1>2. CASE job[1] = "align"
  <2>1. w \in AlignWrites(e, snap, q.want, a)
    BY <1>2, WritesBy
  <2>2. w.type = "groups" /\ w.body = [peers |-> w.body.peers, resources |-> a.groups[w.id].resources]
    BY <2>1, AlignWritesAre DEF IsTo, AlignWrite
  <2>. QED
    BY ONLY <2>2, GroupBodyValid
<1>3. CASE job[1] = "member"
  <2>1. w \in MemberWrites(e, page, snap, job[2], a)
    BY <1>3, WritesBy
  <2>. HIDE DEF e, page, snap
  <2>2. PICK joining : MemberWrite(w, a, job[2], e.id, joining)
    BY <2>1, MemberWritesAre
  <2>3. w.type = "groups" /\ DOMAIN w.body = {"peers", "resources"}
    BY ONLY <2>2 DEF IsTo, MemberWrite
  <2>. QED
    BY ONLY <2>3, GroupBodyValid
<1>4. CASE job[1] = "users"
  <2>1. w \in UsersWrites(e, page, a, job[2])
    BY <1>4, WritesBy
  <2>. HIDE DEF e, page, snap
  <2>2. PICK pick : UsersWrite(w, a, pick, job[2])
    BY <2>1, UsersWritesAre
  <2>3. w.type = "users" /\ ~w.new
        /\ w.body = [role |-> a.users[w.id].role, auto |-> w.body.auto, blocked |-> a.users[w.id].blocked]
    BY ONLY <2>2 DEF IsTo, UsersWrite
  <2>. QED
    BY ONLY <2>3, UserBodyValid
<1>5. CASE job[1] = "user"
  <2>1. w \in UserWrites(e, page, snap, a)
    BY <1>5, WritesBy
  <2>. HIDE DEF e, page, snap
  <2>2. PICK now, auto : UserWrite(w, e, now, auto)
    BY <2>1, UserWritesAre
  <2>3. w.type = "users" /\ ~w.new
        /\ w.body = [role |-> Or(e.role, now.role), auto |-> auto,
                     blocked |-> Or(e.blocked, now.blocked)]
    BY ONLY <2>2 DEF IsTo, UserWrite
  <2>. QED
    BY ONLY <2>3, UserBodyValid
<1>6. CASE job[1] = "settings"
  <2>1. e.id \in DOMAIN a.peers
    BY <1>6, JobIs DEF Reads
  <2>2. w \in SettingsWrites(e, a)
    BY <1>6, WritesBy
  <2>3. /\ w.type = "peers" /\ ~w.new /\ DOMAIN w.body = {"user", "conf", "idle", "waits"}
        /\ w.body.waits = a.peers[e.id].waits
    BY <2>1, <2>2, <1>0, SettingsWritesAre DEF IsTo, SettingsWrite
  <2>4. w.body.waits \in BOOLEAN
    BY <2>1, <2>3, <1>0 DEF PeersValid
  <2>. QED
    BY <2>3, <2>4 DEF ValidWrite, ValidBody, Types
<1>7. CASE job[1] = "policy"
  <2>1. w \in PolicyWrites(e, page, a)
    BY <1>7, WritesBy
  <2>2. /\ w.type = "policies" /\ PolicyFromForm(PolicyForm(e, page)) # Bad
        /\ w.body = CarryOver(a.policies[e.id], PolicyFromForm(PolicyForm(e, page)))
    BY <2>1, PolicyWritesAre DEF IsTo
  <2>. QED
    BY <2>2, FormPolicyValid, CarryOverValid, PolicyBodyValid
<1>8. CASE job[1] \in {"toggle", "revoke"}
  <2>1. e.id \in DOMAIN a.policies
    BY <1>8, JobIs DEF Reads
  <2>2. PolicyShape(a.policies[e.id])
    BY <2>1, <1>0, ValidIsShape DEF PoliciesValid, PolicyIn
  <2>3. ASSUME job[1] = "toggle"
        PROVE  w.type = "policies" /\ ValidPolicy(w.body)
    <3>1. w \in ToggleWrites(e, a)
      BY <2>3, WritesBy
    <3>2. w.type = "policies" /\ w.body = PolicyForPut([a.policies[e.id] EXCEPT !.on = ~@])
      BY <3>1, ToggleWritesAre DEF IsTo
    <3>3. PolicyShape([a.policies[e.id] EXCEPT !.on = ~@])
      BY <2>2 DEF PolicyShape
    <3>. QED
      BY <3>2, <3>3, ForPutValid
  <2>4. ASSUME job[1] = "revoke"
        PROVE  w.type = "policies" /\ (w.body = Gone \/ ValidPolicy(w.body))
    <3>1. w \in RevokeWrites(e, a)
      BY <2>4, WritesBy
    <3>2. w.type = "policies" /\ w.body = Revoke(a.policies[e.id], e.rule, e.mode, e.target)
      BY <3>1, RevokeWritesAre DEF IsTo
    <3>. QED
      BY <3>2, <2>2, RevokeValid
  <2>. QED
    BY <1>8, <2>3, <2>4, PolicyBodyValid
<1>9. CASE job[1] = "key"
  <2>1. /\ job[2] \in DOMAIN a.keys /\ a.keys[job[2]].revoked \in BOOLEAN
        /\ e.kind \in {"bulk", "key"}
    BY <1>9, <1>0, JobIs DEF Reads, KeysValid
  <2>2. CASE e.kind = "bulk"
    <3>1. w \in BulkWrites(e, job[2], a)
      BY <1>9, <2>2, WritesBy
    <3>. HIDE DEF e, page, snap
    <3>2. IsTo(w, "keys", job[2]) /\ (w.body = Gone \/ w.body = RevokedKey(a.keys[job[2]]))
      BY ONLY <3>1, BulkWritesAre
    <3>3. w.body = Gone \/ w.body.revoked \in BOOLEAN
      BY <3>2, RevokedKeyIs
    <3>. QED
      BY <3>2, <3>3, KeyBodyValid DEF IsTo
  <2>3. CASE e.kind = "key" /\ e.action = "delete"
    <3>1. w \in DeleteKeyWrites(job[2], a)
      BY <1>9, <2>3, WritesBy
    <3>. QED
      BY <3>1, DeleteKeyWritesAre, KeyBodyValid DEF IsTo
  <2>4. CASE e.kind = "key" /\ e.action # "delete"
    <3>. DEFINE chosen == Chosen(e, page.keys[job[2]].groups, a.keys[job[2]].groups, snap)
                revoke == e.action = "revoke"
    <3>1. w \in KeyWrites(e, page, snap, job[2], a)
      BY <1>9, <2>4, WritesBy
    <3>2. w.type = "keys" /\ w.body = KeyBody(a.keys[job[2]], chosen, revoke)
      BY <3>1, KeyWritesAre DEF IsTo
    <3>3. revoke \in BOOLEAN
      OBVIOUS
    <3>. HIDE DEF e, page, snap, chosen, revoke
    <3>4. KeyBody(a.keys[job[2]], chosen, revoke).revoked \in BOOLEAN
      BY <2>1, <3>3, KeyRevoked
    <3>. QED
      BY <3>2, <3>4, KeyBodyValid
  <2>. QED
    BY <2>1, <2>2, <2>3, <2>4
<1>10. CASE job[1] = "resource"
  <2>1. w \in ResourceWrites(e, page, a)
    BY <1>10, WritesBy
  <2>2. /\ w.type = "resources" /\ w.net = e.net
        /\ w.body = [net |-> e.net, conf |-> e.conf, groups |-> ResourceGroups(e, page)]
    BY <2>1, ResourceWritesAre
  <2>3. DOMAIN w.body = {"net", "conf", "groups"} /\ w.body.net = w.net
    BY ONLY <2>2
  <2>. QED
    BY <2>2, <2>3 DEF ValidWrite, ValidBody, Types
<1>11. CASE job[1] \in {"net", "router"}
  <2>1. w \in NetWrites(e, a) \/ w \in RouterWrites(e, a)
    BY <1>11, WritesBy
  <2>2. w.type \in {"nets", "routers"}
    BY <2>1, NetWritesAre, RouterWritesAre DEF IsTo
  <2>. QED
    BY <2>2 DEF ValidWrite, ValidBody, Types
<1>12. CASE job[1] = "restore"
  <2>1. w \in RestoreWrites(r, e, snap)
    BY <1>12, WritesBy
  <2>5. e.kind = "restore"
    BY <1>12, JobIs
  <2>2. w.type = e.type /\ w.body = RestoreBody(e, snap)
    BY <2>1, RestoreWritesAre
  <2>3. CASE e.type = "policies"
    <3>1. ValidPolicy(PolicyForPut(e.old))
      BY <1>0, <2>5, <2>3 DEF FormOf
    <3>2. w.body = RestorePolicy(snap, e.id, e.old)
      BY <2>2, <2>3 DEF RestoreBody
    <3>. QED
      BY <2>2, <2>3, <3>1, <3>2, RestoredValid, PolicyBodyValid
  <2>4. CASE e.type = "groups"
    <3>1. w.body = RestoreGroup(snap, e.id, e.old)
      BY <2>2, <2>4 DEF RestoreBody
    <3>2. DOMAIN w.body = {"peers", "resources"}
      BY <3>1 DEF RestoreGroup
    <3>. QED
      BY <2>2, <2>4, <3>2, GroupBodyValid
  <2>. QED
    BY <1>0, <2>5, <2>3, <2>4 DEF FormOf
<1>13. CASE job[1] = "delete"
  <2>0. Writes(r, q, job, a) = {Removal(e)}
    BY <1>13, WritesBy
  <2>1. w = Removal(e)
    BY <2>0
  <2>4. e.kind = "delete"
    <3>1. e.kind = job[1]
      BY <1>13, SingleJob
    <3>. QED
      BY <1>13, <3>1
  <2>2. e.type \in {"groups", "peers", "policies", "nets", "resources", "routers"}
    BY <1>0, <2>4 DEF FormOf
  <2>3. w.body = Gone /\ w.type = e.type /\ ~w.new
    BY <2>1, <2>2, RemovalIs
  <2>. QED
    BY <2>2, <2>3 DEF ValidWrite, Types
<1>14. CASE job[1] = "post"
  <2>1. w = Post(r, e)
    BY <1>14, WritesBy
  <2>2. e.kind \in {"new group", "new policy", "allow", "new key", "new net", "new resource",
                    "new router"}
    BY <1>14, JobIs
  <2>3. Posted(e) # Bad
    BY <2>1 DEF Write, Post
  <2>. HIDE DEF e
  <2>. QED
    BY <1>0, <2>1, <2>2, <2>3, PostedValid
<1>. QED
  BY <1>1, <1>2, <1>3, <1>4, <1>5, <1>6, <1>7, <1>8, <1>9, <1>10, <1>11, <1>12, <1>13, <1>14, JobIs

-----------------------------------------------------------------------------
(* What the editors keep: every page showed an account that is valid, and  *)
(* every write that is still to be made has the shape of its type.         *)

LEMMA ValidGoes ==
  ASSUME NEW r, NEW q, DOMAIN q = Parts, q.pc # "none", q.make \in Edits, ValidAccount(q.page),
         \A j \in q.todo.now \cup q.todo.after : JobOf(r, q.make, j),
         q.plan # {} => JobOf(r, q.make, q.job),
         \A w \in q.plan : ValidWrite(w)
  PROVE  ValidEdit(r, Goes(q))
<1>. DEFINE p == Goes(q)
<1>1. /\ DOMAIN p = Parts
      /\ p.pc = IF q.plan # {} THEN "put" ELSE IF q.todo.now # {} THEN "turn" ELSE "saved"
      /\ \A x \in Parts \ {"pc"} : p[x] = q[x]
  BY GoesIs
<1>. HIDE DEF p
<1>2. ValidEdit(r, p)
  BY <1>1 DEF ValidEdit, Parts, Pcs
<1>. QED
  BY <1>2 DEF p

LEMMA ValidFailed ==
  ASSUME NEW r, NEW q, NEW job, DOMAIN q = Parts, q.pc # "none", q.make \in Edits,
         ValidAccount(q.page),
         \A j \in q.todo.now \cup q.todo.after : JobOf(r, q.make, j)
  PROVE  ValidEdit(r, Failed(q, job))
<1>. DEFINE p == Failed(q, job)
<1>1. /\ DOMAIN p = Parts /\ p.plan = {}
      /\ \A x \in Parts \ {"pc", "plan", "todo"} : p[x] = q[x]
      /\ q.make.kind = "bulk" => /\ p.todo = q.todo
                                 /\ p.pc = IF q.todo.now # {} THEN "turn" ELSE "saved"
      /\ q.make.kind # "bulk" => p.todo = Staged({}, {}) /\ p.pc = Answer(job)
  BY FailedIs
<1>2. Answer(job) \in {"partial", "refused"}
  BY DEF Answer
<1>3. Staged({}, {}).now = {} /\ Staged({}, {}).after = {}
  BY DEF Staged
<1>. HIDE DEF p
<1>4. ValidEdit(r, p)
  BY <1>1, <1>2, <1>3 DEF ValidEdit, Parts, Pcs
<1>. QED
  BY <1>4 DEF p

LEMMA ValidIdle ==
  ASSUME NEW r
  PROVE  ValidEdit(r, Idle)
<1>1. /\ DOMAIN Idle = Parts /\ Idle.pc = "none" /\ Idle.plan = {}
      /\ Idle.todo = Staged({}, {})
  BY DEF Idle, Parts
<1>2. Staged({}, {}).now = {} /\ Staged({}, {}).after = {}
  BY DEF Staged
<1>. QED
  BY <1>1, <1>2 DEF ValidEdit, Pcs

LEMMA InvBecomes ==
  ASSUME EditInv, NEW r \in Editors, NEW q, Becomes(r, q), ValidEdit(r, q),
         ValidAccount(acc'), faults' \in 0..MaxFaults
  PROVE  EditInv'
<1>1. DOMAIN edit' = Editors /\ \A s \in Editors : edit'[s] = IF s = r THEN q ELSE edit[s]
  BY DEF Becomes, EditInv
<1>2. \A s \in Editors : ValidEdit(s, edit'[s])
  BY <1>1 DEF EditInv
<1>. QED
  BY <1>1, <1>2 DEF EditInv

(* What another one's write leaves of an edit.                             *)
LEMMA OvertakenIs ==
  ASSUME NEW q, DOMAIN q = Parts
  PROVE  LET p == [q EXCEPT !.alone = FALSE, !.current = FALSE]
         IN  /\ DOMAIN p = Parts /\ ~p.alone /\ ~p.current
             /\ \A x \in Parts \ {"alone", "current"} : p[x] = q[x]
  BY DEF Parts

LEMMA InvOthers ==
  ASSUME EditInv, NEW r \in Editors, NEW q, Others(r, q), ValidEdit(r, q),
         ValidAccount(acc'), faults' \in 0..MaxFaults
  PROVE  EditInv'
<1>1. DOMAIN edit' = Editors
  BY DEF Others
<1>2. ASSUME NEW s \in Editors
      PROVE  ValidEdit(s, edit'[s])
  <2>1. CASE s = r
    BY <2>1 DEF Others
  <2>2. CASE s # r
    <3>. DEFINE p == [edit[s] EXCEPT !.alone = FALSE, !.current = FALSE]
    <3>1. edit'[s] = p
      BY <2>2 DEF Others
    <3>2. ValidEdit(s, edit[s])
      BY DEF EditInv
    <3>3. DOMAIN p = Parts /\ \A x \in Parts \ {"alone", "current"} : p[x] = edit[s][x]
      BY <3>2, OvertakenIs DEF ValidEdit
    <3>. HIDE DEF p
    <3>4. ValidEdit(s, p)
      BY <3>2, <3>3 DEF ValidEdit, Parts
    <3>. QED
      BY <3>1, <3>4
  <2>. QED
    BY <2>1, <2>2
<1>. QED
  BY <1>1, <1>2 DEF EditInv

LEMMA EditorIsNot ==
  ASSUME NEW r \in Editors
  PROVE  r # None
  BY EditConstants

LEMMA InvInit ==
  ASSUME EditInit
  PROVE  EditInv
<1>1. acc \in Accounts /\ edit = [r \in Editors |-> Idle] /\ faults = 0
  BY DEF EditInit
<1>2. ValidAccount(acc) /\ MaxFaults \in Nat
  BY <1>1, EditConstants
<1>3. DOMAIN edit = Editors /\ \A r \in Editors : edit[r] = Idle
  BY <1>1
<1>. QED
  BY <1>1, <1>2, <1>3, ValidIdle DEF EditInv

LEMMA InvOpen ==
  ASSUME EditInv, NEW r \in Editors, NEW e \in Edits, Open(r, e)
  PROVE  EditInv'
<1>. DEFINE q == [Idle EXCEPT !.pc = "open", !.make = e, !.page = acc]
<1>1. Becomes(r, q) /\ acc' = acc /\ faults' = faults
  BY DEF Open
<1>2. /\ DOMAIN q = Parts /\ q.pc = "open" /\ q.make = e /\ q.page = acc
      /\ q.plan = {} /\ q.todo = Staged({}, {})
  BY DEF Idle, Parts
<1>3. Staged({}, {}).now = {} /\ Staged({}, {}).after = {}
  BY DEF Staged
<1>. HIDE DEF q
<1>4. ValidAccount(acc) /\ faults \in 0..MaxFaults
  BY DEF EditInv
<1>5. ValidEdit(r, q)
  BY <1>2, <1>3, <1>4 DEF ValidEdit, Pcs
<1>. QED
  BY <1>1, <1>4, <1>5, InvBecomes

LEMMA InvPreview ==
  ASSUME EditInv, NEW r \in Editors, Preview(r)
  PROVE  EditInv'
<1>1. PICK shown : Becomes(r, [edit[r] EXCEPT !.pc = "shown", !.shown = shown])
  BY DEF Preview
<1>. DEFINE q == [edit[r] EXCEPT !.pc = "shown", !.shown = shown]
<1>2. edit[r].pc = "open" /\ acc' = acc /\ faults' = faults
  BY DEF Preview
<1>3. ValidEdit(r, edit[r]) /\ ValidAccount(acc) /\ faults \in 0..MaxFaults
  BY DEF EditInv
<1>4. DOMAIN q = Parts /\ q.pc = "shown" /\ \A x \in Parts \ {"pc", "shown"} : q[x] = edit[r][x]
  BY <1>3 DEF ValidEdit, Parts
<1>. HIDE DEF q
<1>5. ValidEdit(r, q)
  BY <1>2, <1>3, <1>4 DEF ValidEdit, Parts, Pcs
<1>6. Becomes(r, q)
  BY <1>1 DEF q
<1>. QED
  BY <1>2, <1>3, <1>5, <1>6, InvBecomes

LEMMA InvSubmit ==
  ASSUME EditInv, NEW r \in Editors, Submit(r)
  PROVE  EditInv'
<1>1. PICK snap : Becomes(r, Goes([edit[r] EXCEPT !.snap = snap,
                                     !.todo = Jobs(r, edit[r].make, edit[r].page, snap)]))
  BY DEF Submit
<1>. DEFINE jobs == Jobs(r, edit[r].make, edit[r].page, snap)
            q == [edit[r] EXCEPT !.snap = snap, !.todo = jobs]
<1>2. edit[r].pc = "shown" /\ acc' = acc /\ faults' = faults
  BY DEF Submit
<1>3. ValidEdit(r, edit[r]) /\ ValidAccount(acc) /\ faults \in 0..MaxFaults
  BY DEF EditInv
<1>4. DOMAIN q = Parts /\ q.todo = jobs /\ \A x \in Parts \ {"snap", "todo"} : q[x] = edit[r][x]
  BY <1>3 DEF ValidEdit, Parts
<1>5. \A j \in jobs.now \cup jobs.after : JobOf(r, edit[r].make, j)
  BY <1>2, <1>3, FormIs, JobsAre DEF ValidEdit
<1>6. Becomes(r, Goes(q))
  BY <1>1
<1>. HIDE DEF q, jobs
<1>7. /\ q.pc = "shown" /\ q.make = edit[r].make /\ q.page = edit[r].page
      /\ q.plan = edit[r].plan /\ q.todo = jobs
  BY <1>2, <1>4 DEF Parts
<1>8. ValidEdit(r, Goes(q))
  BY <1>2, <1>3, <1>4, <1>5, <1>7, ValidGoes DEF ValidEdit
<1>. QED
  BY <1>2, <1>3, <1>6, <1>8, InvBecomes

(* A job that is taken up.                                                 *)
LEMMA RestJobs ==
  ASSUME NEW r, NEW e, NEW todo, NEW job,
         \A j \in todo.now \cup todo.after : JobOf(r, e, j)
  PROVE  \A j \in Rest(todo, job).now \cup Rest(todo, job).after : JobOf(r, e, j)
  BY StagedIs DEF Rest

LEMMA InvWork ==
  ASSUME EditInv, NEW r \in Editors, Work(r)
  PROVE  EditInv'
<1>1. PICK job \in edit[r].todo.now :
        LET q == [edit[r] EXCEPT !.job = job, !.todo = Rest(@, job), !.current = TRUE]
            e == q.make
            writes == Writes(r, q, job, acc)
            want == IF job[1] = "user" THEN UserWant(e, q.page, q.snap, acc) ELSE q.want
        IN  Becomes(r, IF ~Reads(e, job, acc) THEN Failed(q, job)
                       ELSE IF \E w \in writes : w.body = Bad THEN Failed(q, job)
                       ELSE Goes([q EXCEPT !.plan = writes, !.want = want]))
  BY DEF Work
<1>. DEFINE q == [edit[r] EXCEPT !.job = job, !.todo = Rest(edit[r].todo, job), !.current = TRUE]
            writes == Writes(r, q, job, acc)
            want == IF job[1] = "user" THEN UserWant(q.make, q.page, q.snap, acc) ELSE q.want
            p == [q EXCEPT !.plan = writes, !.want = want]
<1>2. \/ Becomes(r, Failed(q, job))
      \/ /\ Becomes(r, Goes(p))
         /\ Reads(q.make, job, acc) /\ \A w \in writes : w.body # Bad
  BY <1>1
<1>3. edit[r].pc = "turn" /\ acc' = acc /\ faults' = faults
  BY DEF Work
<1>4. ValidEdit(r, edit[r]) /\ ValidAccount(acc) /\ faults \in 0..MaxFaults
  BY DEF EditInv
<1>5. /\ DOMAIN q = Parts /\ q.job = job /\ q.todo = Rest(edit[r].todo, job)
      /\ \A x \in Parts \ {"job", "todo", "current"} : q[x] = edit[r][x]
  BY <1>4 DEF ValidEdit, Parts
<1>6. DOMAIN p = Parts /\ p.plan = writes /\ \A x \in Parts \ {"plan", "want"} : p[x] = q[x]
  BY <1>5 DEF Parts
<1>7. \A j \in edit[r].todo.now \cup edit[r].todo.after : JobOf(r, edit[r].make, j)
  BY <1>4 DEF ValidEdit
<1>8. \A j \in q.todo.now \cup q.todo.after : JobOf(r, edit[r].make, j)
  BY <1>5, <1>7, RestJobs
<1>. HIDE DEF q, p, writes, want
<1>9. q.pc = "turn" /\ q.make = edit[r].make /\ q.page = edit[r].page
  BY <1>3, <1>5 DEF Parts
<1>10. edit[r].make \in Edits /\ ValidAccount(edit[r].page)
  BY <1>3, <1>4 DEF ValidEdit
<1>11. CASE Becomes(r, Failed(q, job))
  <2>1. ValidEdit(r, Failed(q, job))
    BY <1>5, <1>8, <1>9, <1>10, ValidFailed
  <2>. QED
    BY <1>3, <1>4, <1>11, <2>1, InvBecomes
<1>12. CASE Becomes(r, Goes(p)) /\ Reads(q.make, job, acc) /\ \A w \in writes : w.body # Bad
  <2>1. \A w \in writes : ValidWrite(w)
    BY <1>4, <1>7, <1>9, <1>10, <1>12, WritesValid DEF writes
  <2>2. /\ p.pc = "turn" /\ p.make = edit[r].make /\ p.page = edit[r].page
        /\ p.todo = q.todo /\ p.job = job /\ p.plan = writes
    BY <1>5, <1>6, <1>9 DEF Parts
  <2>3. ValidEdit(r, Goes(p))
    BY <2>1, <2>2, <1>6, <1>7, <1>8, <1>10, ValidGoes
  <2>. QED
    BY <1>3, <1>4, <1>12, <2>3, InvBecomes
<1>. QED
  BY <1>2, <1>11, <1>12

LEMMA InvTakes ==
  ASSUME EditInv, NEW r \in Editors, NEW w, ValidWrite(w), Takes(r, w)
  PROVE  ValidAccount(acc')
  BY AppliedValid, EditorIsNot DEF EditInv, Takes

LEMMA InvSave ==
  ASSUME EditInv, NEW r \in Editors, Save(r)
  PROVE  EditInv'
<1>1. PICK w \in edit[r].plan :
        /\ Takes(r, w)
        /\ Others(r, Goes([edit[r] EXCEPT !.plan = edit[r].plan \ {w}, !.wrote = TRUE]))
  BY DEF Save
<1>. DEFINE q == [edit[r] EXCEPT !.plan = edit[r].plan \ {w}, !.wrote = TRUE]
<1>2. edit[r].pc = "put" /\ faults' = faults
  BY DEF Save
<1>3. ValidEdit(r, edit[r]) /\ ValidAccount(acc) /\ faults \in 0..MaxFaults
  BY DEF EditInv
<1>4. /\ DOMAIN q = Parts /\ q.plan = edit[r].plan \ {w}
      /\ \A x \in Parts \ {"plan", "wrote"} : q[x] = edit[r][x]
  BY <1>3 DEF ValidEdit, Parts
<1>5. Others(r, Goes(q)) /\ Takes(r, w)
  BY <1>1
<1>. HIDE DEF q
<1>6. /\ q.pc = "put" /\ q.make = edit[r].make /\ q.page = edit[r].page
      /\ q.todo = edit[r].todo /\ q.job = edit[r].job
  BY <1>2, <1>4 DEF Parts
<1>7. ValidEdit(r, Goes(q))
  BY <1>2, <1>3, <1>4, <1>6, ValidGoes DEF ValidEdit
<1>8. ValidAccount(acc')
  BY <1>3, <1>5, InvTakes DEF ValidEdit
<1>. QED
  BY <1>2, <1>3, <1>5, <1>7, <1>8, InvOthers

LEMMA InvAnswerLost ==
  ASSUME EditInv, NEW r \in Editors, AnswerLost(r)
  PROVE  EditInv'
<1>1. PICK w \in edit[r].plan :
        /\ Takes(r, w)
        /\ Others(r, Failed([edit[r] EXCEPT !.wrote = TRUE, !.lost = TRUE], edit[r].job))
  BY DEF AnswerLost
<1>. DEFINE q == [edit[r] EXCEPT !.wrote = TRUE, !.lost = TRUE]
<1>2. edit[r].pc = "put" /\ faults < MaxFaults /\ faults' = faults + 1
  BY DEF AnswerLost
<1>3. ValidEdit(r, edit[r]) /\ ValidAccount(acc) /\ faults \in 0..MaxFaults
  BY DEF EditInv
<1>4. DOMAIN q = Parts /\ \A x \in Parts \ {"wrote", "lost"} : q[x] = edit[r][x]
  BY <1>3 DEF ValidEdit, Parts
<1>5. Others(r, Failed(q, edit[r].job)) /\ Takes(r, w)
  BY <1>1
<1>. HIDE DEF q
<1>6. /\ q.pc = "put" /\ q.make = edit[r].make /\ q.page = edit[r].page
      /\ q.todo = edit[r].todo
  BY <1>2, <1>4 DEF Parts
<1>7. ValidEdit(r, Failed(q, edit[r].job))
  BY <1>2, <1>3, <1>4, <1>6, ValidFailed DEF ValidEdit
<1>8. ValidAccount(acc')
  BY <1>3, <1>5, InvTakes DEF ValidEdit
<1>9. faults' \in 0..MaxFaults
  BY <1>2, <1>3, EditConstants
<1>. QED
  BY <1>5, <1>7, <1>8, <1>9, InvOthers

LEMMA InvRefused ==
  ASSUME EditInv, NEW r \in Editors, Refused(r)
  PROVE  EditInv'
<1>1. edit[r].pc = "put" /\ Becomes(r, Failed(edit[r], edit[r].job)) /\ acc' = acc
  BY DEF Refused
<1>. DEFINE refuses == \E w \in edit[r].plan : ~Accepts(acc, w)
<1>2. faults' = faults \/ (faults < MaxFaults /\ faults' = faults + 1)
  <2>1. IF refuses THEN faults' = faults ELSE faults < MaxFaults /\ faults' = faults + 1
    BY DEF Refused
  <2>. HIDE DEF refuses
  <2>. QED
    BY <2>1
<1>3. ValidEdit(r, edit[r]) /\ ValidAccount(acc) /\ faults \in 0..MaxFaults
  BY DEF EditInv
<1>4. ValidEdit(r, Failed(edit[r], edit[r].job))
  BY <1>1, <1>3, ValidFailed DEF ValidEdit
<1>5. faults' \in 0..MaxFaults
  BY <1>2, <1>3, EditConstants
<1>. QED
  BY <1>1, <1>3, <1>4, <1>5, InvBecomes

LEMMA InvNoAnswer ==
  ASSUME EditInv, NEW r \in Editors, NoAnswer(r)
  PROVE  EditInv'
<1>1. PICK job \in edit[r].todo.now :
        Becomes(r, Failed([edit[r] EXCEPT !.job = job, !.todo = Rest(edit[r].todo, job)], job))
  BY DEF NoAnswer
<1>. DEFINE q == [edit[r] EXCEPT !.job = job, !.todo = Rest(edit[r].todo, job)]
<1>2. edit[r].pc = "turn" /\ faults < MaxFaults /\ faults' = faults + 1 /\ acc' = acc
  BY DEF NoAnswer
<1>3. ValidEdit(r, edit[r]) /\ ValidAccount(acc) /\ faults \in 0..MaxFaults
  BY DEF EditInv
<1>4. /\ DOMAIN q = Parts /\ q.todo = Rest(edit[r].todo, job)
      /\ \A x \in Parts \ {"job", "todo"} : q[x] = edit[r][x]
  BY <1>3 DEF ValidEdit, Parts
<1>5. \A j \in q.todo.now \cup q.todo.after : JobOf(r, edit[r].make, j)
  BY <1>3, <1>4, RestJobs DEF ValidEdit
<1>6. Becomes(r, Failed(q, job))
  BY <1>1
<1>. HIDE DEF q
<1>7. q.pc = "turn" /\ q.make = edit[r].make /\ q.page = edit[r].page
  BY <1>2, <1>4 DEF Parts
<1>8. ValidEdit(r, Failed(q, job))
  BY <1>2, <1>3, <1>4, <1>5, <1>7, ValidFailed DEF ValidEdit
<1>9. faults' \in 0..MaxFaults
  BY <1>2, <1>3, EditConstants
<1>. QED
  BY <1>2, <1>3, <1>6, <1>8, <1>9, InvBecomes

LEMMA InvNext ==
  ASSUME EditInv, [EditNext]_editVars
  PROVE  EditInv'
<1>1. CASE EditNext
  BY <1>1, InvOpen, InvPreview, InvSubmit, InvWork, InvSave, InvAnswerLost, InvRefused,
     InvNoAnswer DEF EditNext
<1>2. CASE UNCHANGED editVars
  <2>1. acc' = acc /\ edit' = edit /\ faults' = faults
    BY <1>2 DEF editVars
  <2>. QED
    BY <2>1 DEF EditInv
<1>. QED
  BY <1>1, <1>2

(* An account stays one that NetBird can show, whatever the editors save   *)
(* at once, and an editor that is about to write has something to write    *)
(* (WebEdit.EditTypes): every body that an editor makes has the shape of   *)
(* its object, and NetBird refuses what names an object that is not there. *)
THEOREM AccountStaysValid == EditSpec => []EditTypes
<1>1. EditInit => EditInv
  BY InvInit
<1>2. EditInv /\ [EditNext]_editVars => EditInv'
  BY InvNext
<1>3. EditInv => EditTypes
  BY DEF EditInv, ValidEdit, EditTypes, Pcs
<1>. QED
  BY <1>1, <1>2, <1>3, PTL DEF EditSpec

-----------------------------------------------------------------------------
(* Who reaches what, from two snapshots that say the same in other words.  *)

ListedIn(s, g) ==
  IF g \in DOMAIN s.groups THEN s.groups[g].peers \cup s.groups[g].resources ELSE {}

(* A group that a peer or a resource says it is in lists it.               *)
Agreed(s) ==
  /\ \A g \in DOMAIN s.groups : DOMAIN s.groups[g] = {"peers", "resources"}
  /\ \A p \in DOMAIN s.peers : /\ DOMAIN s.peers[p] = {"user", "groups"}
                               /\ \A g \in s.peers[p].groups :
                                    g \in DOMAIN s.groups /\ p \in s.groups[g].peers
  /\ \A x \in DOMAIN s.resources : \A g \in s.resources[x].groups :
       g \in DOMAIN s.groups /\ x \in s.groups[g].resources

LEMMA MembersListed ==
  ASSUME NEW s, Agreed(s), NEW g
  PROVE  GroupMembers(s, g) = ListedIn(s, g)
<1>. DEFINE P == {p \in DOMAIN s.peers : g \in s.peers[p].groups}
            R == {x \in DOMAIN s.resources : g \in s.resources[x].groups}
<1>1. P \subseteq ListedIn(s, g) /\ R \subseteq ListedIn(s, g)
  BY DEF Agreed, ListedIn
<1>2. GroupMembers(s, g) = ListedIn(s, g) \cup P \cup R
  BY DEF GroupMembers, ListedIn
<1>. QED
  BY <1>1, <1>2

Allows(policies, grant) ==
  \E i \in DOMAIN policies :
    policies[i].on /\ \E x \in policies[i].rules : x.on /\ grant \in RuleGrants(x)

LEMMA GrantsAre ==
  ASSUME NEW s, NEW grant
  PROVE  grant \in Grants(s) <=> Allows(s.policies, grant)
<1>. DEFINE ruled(pol) == UNION {RuleGrants(rule) : rule \in {x \in pol.rules : x.on}}
            pols == {s.policies[id] : id \in {i \in DOMAIN s.policies : s.policies[i].on}}
<1>1. \A pol : grant \in ruled(pol) <=> \E x \in pol.rules : x.on /\ grant \in RuleGrants(x)
  OBVIOUS
<1>2. Grants(s) = UNION {ruled(pol) : pol \in pols}
  BY DEF Grants
<1>3. \A pol : pol \in pols <=>
        \E i \in DOMAIN s.policies : s.policies[i].on /\ pol = s.policies[i]
  OBVIOUS
<1>. HIDE DEF ruled, pols
<1>4. grant \in Grants(s) <=> \E pol \in pols : grant \in ruled(pol)
  BY <1>2
<1>. QED
  BY <1>1, <1>3, <1>4 DEF Allows

LEMMA AccessSame ==
  ASSUME NEW s, NEW t, Grants(s) = Grants(t),
         \A grant \in Grants(s) : \A g \in grant.src \cup grant.dst :
           GroupMembers(s, g) = GroupMembers(t, g)
  PROVE  AccessSet(s) = AccessSet(t)
<1>1. ASSUME NEW grant \in Grants(s)
      PROVE  Edges(s, grant) = Edges(t, grant)
  <2>1. {GroupMembers(s, g) : g \in grant.src} = {GroupMembers(t, g) : g \in grant.src}
    OBVIOUS
  <2>2. {GroupMembers(s, g) : g \in grant.dst} = {GroupMembers(t, g) : g \in grant.dst}
    OBVIOUS
  <2>3. Side(s, grant.src, grant.srcRef) = Side(t, grant.src, grant.srcRef)
    BY <2>1 DEF Side
  <2>4. Side(s, grant.dst, grant.dstRef) = Side(t, grant.dst, grant.dstRef)
    BY <2>2 DEF Side
  <2>. QED
    BY <2>3, <2>4 DEF Edges
<1>. DEFINE of(u, grant) == {<<e[1], e[2], grant.svc>> : e \in Edges(u, grant)}
<1>2. \A grant \in Grants(s) : of(s, grant) = of(t, grant)
  BY <1>1
<1>3. AccessSet(s) = UNION {of(s, grant) : grant \in Grants(s)}
      /\ AccessSet(t) = UNION {of(t, grant) : grant \in Grants(t)}
  BY DEF AccessSet
<1>. HIDE DEF of
<1>4. {of(s, grant) : grant \in Grants(s)} = {of(t, grant) : grant \in Grants(t)}
  BY <1>2
<1>. QED
  BY <1>3, <1>4

(* Rules that allow the same: they differ in id and users at most.         *)
AlikeRule(y, x) ==
  /\ y.on = x.on /\ y.both = x.both /\ y.svc = x.svc /\ y.src = x.src /\ y.dst = x.dst
  /\ y.srcRef = x.srcRef /\ y.dstRef = x.dstRef

AlikePolicy(p, q) ==
  /\ p.on = q.on
  /\ \A y \in p.rules : \E x \in q.rules : AlikeRule(y, x)
  /\ \A x \in q.rules : \E y \in p.rules : AlikeRule(y, x)

LEMMA AlikeGrants ==
  ASSUME NEW y, NEW x, AlikeRule(y, x)
  PROVE  RuleGrants(y) = RuleGrants(x)
  BY DEF AlikeRule, RuleGrants

LEMMA AlikeAllows ==
  ASSUME NEW p, NEW q, AlikePolicy(p, q), NEW grant
  PROVE  (p.on /\ \E y \in p.rules : y.on /\ grant \in RuleGrants(y)) <=>
         (q.on /\ \E x \in q.rules : x.on /\ grant \in RuleGrants(x))
<1>1. \A y, x : AlikeRule(y, x) => y.on = x.on /\ RuleGrants(y) = RuleGrants(x)
  BY AlikeGrants DEF AlikeRule
<1>. QED
  BY <1>1 DEF AlikePolicy

(* The policies are the same but for one, which may have another id.       *)
LEMMA SameGrants ==
  ASSUME NEW s, NEW t, NEW policies, NEW i, NEW j, NEW p, NEW q, AlikePolicy(p, q),
         s.policies = Upsert(policies, i, p), t.policies = Upsert(policies, j, q),
         i = j \/ (i \notin DOMAIN policies /\ j \notin DOMAIN policies)
  PROVE  Grants(s) = Grants(t)
<1>1. ASSUME NEW grant
      PROVE  Allows(s.policies, grant) <=> Allows(t.policies, grant)
  <2>. DEFINE in(pol) == pol.on /\ \E x \in pol.rules : x.on /\ grant \in RuleGrants(x)
              rest == \E n \in DOMAIN policies \ {i, j} : in(policies[n])
  <2>1. Allows(s.policies, grant) <=> in(p) \/ \E n \in DOMAIN policies \ {i} : in(policies[n])
    BY DEF Allows, Upsert
  <2>2. Allows(t.policies, grant) <=> in(q) \/ \E n \in DOMAIN policies \ {j} : in(policies[n])
    BY DEF Allows, Upsert
  <2>3. in(p) <=> in(q)
    BY AlikeAllows
  <2>4. DOMAIN policies \ {i} = DOMAIN policies \ {j}
    OBVIOUS
  <2>. HIDE DEF in
  <2>. QED
    BY <2>1, <2>2, <2>3, <2>4
<1>. QED
  BY <1>1, GrantsAre

LEMMA SnapAgreed ==
  ASSUME NEW a, ValidAccount(a)
  PROVE  Agreed(Snap(a))
<1>. DEFINE s == Snap(a)
<1>1. /\ s.groups = a.groups /\ s.policies = a.policies
      /\ s.peers = [p \in DOMAIN a.peers |-> PeerOf(a, p)]
      /\ s.resources = [x \in DOMAIN a.resources |-> ResourceOf(a, x)]
  BY DEF Snap
<1>2. \A p : DOMAIN PeerOf(a, p) = {"user", "groups"}
             /\ PeerOf(a, p).groups = {g \in DOMAIN a.groups : p \in a.groups[g].peers}
  BY DEF PeerOf
<1>3. \A x \in DOMAIN a.resources :
        ResourceOf(a, x).groups = {g \in DOMAIN a.groups : x \in a.groups[g].resources}
  BY DEF ResourceOf, ValidAccount, Shaped
<1>4. \A g \in DOMAIN a.groups : DOMAIN a.groups[g] = {"peers", "resources"}
  BY DEF ValidAccount, Shaped
<1>. HIDE DEF s
<1>5. Agreed(s)
  BY <1>1, <1>2, <1>3, <1>4 DEF Agreed
<1>. QED
  BY <1>5 DEF s

(* Two snapshots with the same policies and the same groups.               *)
LEMMA SameView ==
  ASSUME NEW s, NEW t, Agreed(s), Agreed(t), Grants(s) = Grants(t),
         \A grant \in Grants(s) : \A g \in grant.src \cup grant.dst : ListedIn(s, g) = ListedIn(t, g)
  PROVE  AccessSet(s) = AccessSet(t)
  BY MembersListed, AccessSame

-----------------------------------------------------------------------------
(* Snapshots after an edit of memberships.                                 *)

SnapParts == {"groups", "policies", "keys", "peers", "users", "resources", "nets"}

IsView(s) == DOMAIN s = SnapParts /\ Agreed(s)

LEMMA SnapView ==
  ASSUME NEW a, ValidAccount(a)
  PROVE  IsView(Snap(a))
<1>1. DOMAIN Snap(a) = SnapParts
  BY DEF Snap, SnapParts
<1>. QED
  BY <1>1, SnapAgreed DEF IsView

(* t is s but for the peers of some groups.                                *)
Moved(t, s, members) ==
  /\ IsView(t) /\ t.policies = s.policies
  /\ DOMAIN t.groups = DOMAIN s.groups
  /\ \A g \in DOMAIN s.groups :
       /\ t.groups[g].resources = s.groups[g].resources
       /\ t.groups[g].peers = IF g \in DOMAIN members THEN members[g] ELSE s.groups[g].peers
  /\ DOMAIN t.peers = DOMAIN s.peers
  /\ \A p \in DOMAIN s.peers : t.peers[p].user = s.peers[p].user

LEMMA MembershipsMoved ==
  ASSUME NEW s, NEW members, IsView(s), DOMAIN members \subseteq DOMAIN s.groups
  PROVE  Moved(WithMemberships(s, members), s, members)
<1>. DEFINE old(g) == s.groups[g]
            G == [g \in DOMAIN s.groups |-> [s.groups[g] EXCEPT !.peers =
                    IF g \in DOMAIN members THEN members[g] ELSE @]]
            P == [p \in DOMAIN s.peers |-> [s.peers[p] EXCEPT !.groups =
                    (@ \ DOMAIN members) \cup {g \in DOMAIN members : p \in members[g]}]]
            t == WithMemberships(s, members)
<1>1. t = [s EXCEPT !.groups = G, !.peers = P]
  BY DEF WithMemberships
<1>2. /\ DOMAIN G = DOMAIN s.groups
      /\ \A g \in DOMAIN s.groups :
           /\ DOMAIN G[g] = {"peers", "resources"} /\ G[g].resources = s.groups[g].resources
           /\ G[g].peers = IF g \in DOMAIN members THEN members[g] ELSE s.groups[g].peers
  BY DEF IsView, Agreed
<1>3. /\ DOMAIN P = DOMAIN s.peers
      /\ \A p \in DOMAIN s.peers :
           /\ DOMAIN P[p] = {"user", "groups"} /\ P[p].user = s.peers[p].user
           /\ P[p].groups = (s.peers[p].groups \ DOMAIN members)
                            \cup {g \in DOMAIN members : p \in members[g]}
  BY DEF IsView, Agreed
<1>. HIDE DEF G, P
<1>4. /\ DOMAIN t = SnapParts /\ t.groups = G /\ t.peers = P
      /\ t.policies = s.policies /\ t.resources = s.resources
  BY <1>1 DEF IsView, SnapParts
<1>. HIDE DEF t
<1>5. Agreed(t)
  <2>1. Agreed(s)
    BY DEF IsView
  <2>2. ASSUME NEW p \in DOMAIN P, NEW g \in P[p].groups
        PROVE  g \in DOMAIN G /\ p \in G[g].peers
    <3>1. CASE g \in DOMAIN members
      BY <1>2, <1>3, <2>2, <3>1
    <3>2. CASE g \notin DOMAIN members
      BY <1>2, <1>3, <2>1, <2>2, <3>2 DEF Agreed
    <3>. QED
      BY <3>1, <3>2
  <2>3. \A x \in DOMAIN s.resources : \A g \in s.resources[x].groups :
          g \in DOMAIN G /\ x \in G[g].resources
    BY <1>2, <2>1 DEF Agreed
  <2>. QED
    BY <1>2, <1>3, <1>4, <2>2, <2>3 DEF Agreed
<1>6. Moved(t, s, members)
  BY <1>2, <1>3, <1>4, <1>5 DEF Moved, IsView
<1>. QED
  BY <1>6 DEF t

MovedOne(t, s, gid, peers) ==
  /\ Moved(t, s, [g \in {gid} |-> peers]) /\ t.groups[gid].peers = peers
  /\ \A g \in DOMAIN s.groups : g # gid => t.groups[g].peers = s.groups[g].peers

LEMMA GroupMoved ==
  ASSUME NEW s, NEW gid, NEW peers, IsView(s), gid \in DOMAIN s.groups
  PROVE  MovedOne(WithGroupMembers(s, gid, peers), s, gid, peers)
<1>. DEFINE members == [g \in {gid} |-> peers]
<1>1. WithGroupMembers(s, gid, peers) = WithMemberships(s, members)
  BY DEF WithGroupMembers
<1>2. DOMAIN members = {gid} /\ members[gid] = peers
  OBVIOUS
<1>. HIDE DEF members
<1>3. Moved(WithMemberships(s, members), s, members)
  BY <1>2, MembershipsMoved
<1>4. /\ WithMemberships(s, members).groups[gid].peers = peers
      /\ \A g \in DOMAIN s.groups : g # gid =>
           WithMemberships(s, members).groups[g].peers = s.groups[g].peers
  BY <1>2, <1>3 DEF Moved
<1>. QED
  BY <1>1, <1>3, <1>4 DEF members, MovedOne

(* The users' groups do not matter for who reaches what.                   *)
LikeView(t, s) ==
  /\ DOMAIN t = DOMAIN s
  /\ t.groups = s.groups /\ t.policies = s.policies /\ t.peers = s.peers
  /\ t.resources = s.resources

LEMMA LikeIsView ==
  ASSUME NEW s, NEW t, LikeView(t, s), IsView(s)
  PROVE  IsView(t)
  BY DEF LikeView, IsView, Agreed

LEMMA MovedLike ==
  ASSUME NEW u, NEW t, NEW s, NEW members, LikeView(t, s), Moved(u, t, members)
  PROVE  Moved(u, s, members)
  BY DEF LikeView, Moved

LEMMA MovedNot ==
  ASSUME NEW t, NEW s, LikeView(t, s), IsView(s)
  PROVE  Moved(t, s, <<>>)
<1>1. DOMAIN << >> = {}
  OBVIOUS
<1>. QED
  BY <1>1, LikeIsView DEF LikeView, Moved

(* The whole of it: what is reached depends on who is in which group.      *)
SameGroups(s, t) ==
  /\ s.policies = t.policies /\ DOMAIN s.groups = DOMAIN t.groups
  /\ \A g \in DOMAIN s.groups :
       s.groups[g].peers = t.groups[g].peers /\ s.groups[g].resources = t.groups[g].resources

LEMMA SameGroupsAccess ==
  ASSUME NEW s, NEW t, Agreed(s), Agreed(t), SameGroups(s, t)
  PROVE  AccessSet(s) = AccessSet(t)
<1>1. \A g : ListedIn(s, g) = ListedIn(t, g)
  BY DEF ListedIn, SameGroups
<1>2. \A grant : grant \in Grants(s) <=> grant \in Grants(t)
  BY GrantsAre DEF SameGroups
<1>3. Grants(s) = Grants(t)
  BY <1>2
<1>. QED
  BY <1>1, <1>3, SameView
=============================================================================
