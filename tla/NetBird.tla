------------------------------ MODULE NetBird -------------------------------
(***************************************************************************)
(* NetBird as birdseye uses it (not part of the repository): the account,  *)
(* the snapshot of it that the API shows, and what a write does to it.     *)
(*                                                                         *)
(* The account holds a membership once, in the group. What NetBird does    *)
(* besides the write itself is what the comments and the previews of the   *)
(* code rely on: the devices of a user follow its groups, and references   *)
(* to what is deleted go with it.                                          *)
(*                                                                         *)
(* A write is [type, id, net, body, new]: net is the network of a router   *)
(* or a resource, and new says that it is a POST.                          *)
(***************************************************************************)
EXTENDS Payloads

PeerOf(a, p) ==
  [user |-> a.peers[p].user, groups |-> {g \in DOMAIN a.groups : p \in a.groups[g].peers}]

ResourceOf(a, r) ==
  [a.resources[r] EXCEPT !.groups = {g \in DOMAIN a.groups : r \in a.groups[g].resources}]

Snap(a) ==
  [groups |-> a.groups, policies |-> a.policies, keys |-> a.keys,
   peers |-> [p \in DOMAIN a.peers |-> PeerOf(a, p)],
   users |-> [u \in DOMAIN a.users |-> a.users[u].auto],
   resources |-> [r \in DOMAIN a.resources |-> ResourceOf(a, r)],
   nets |-> [n \in DOMAIN a.nets |-> a.nets[n].routers]]

OwnPeers(a, u) == {p \in DOMAIN a.peers : a.peers[p].user = u}

(* The devices of a user whose groups change, if the account says so.      *)
Propagated(a, u, auto) ==
  [g \in DOMAIN a.groups |->
     [a.groups[g] EXCEPT !.peers =
        IF ~Propagates \/ (g \in auto <=> g \in a.users[u].auto) THEN @
        ELSE IF g \in auto THEN @ \cup OwnPeers(a, u) ELSE @ \ OwnPeers(a, u)]]

(* A rule without an id gets one of its own.                               *)
Numbered(pol, r) ==
  [pol EXCEPT !.rules = {[x EXCEPT !.id = IF x.id = NoId THEN <<r, x>> ELSE x.id] : x \in @}]

DropResources(a, rids) ==
  [a EXCEPT !.resources = DropAll(a.resources, rids), !.groups = NoResources(a.groups, rids),
            !.policies = WithoutRefs(a.policies, rids)]

Deleted(a, w) ==
  CASE w.type = "groups" -> [a EXCEPT !.groups = Drop(@, w.id)]
    [] w.type = "policies" -> [a EXCEPT !.policies = Drop(@, w.id)]
    [] w.type = "keys" -> [a EXCEPT !.keys = Drop(@, w.id)]
    [] w.type = "peers" ->
         [a EXCEPT !.peers = Drop(a.peers, w.id), !.policies = WithoutRefs(a.policies, {w.id}),
                   !.groups = NoPeer(a.groups, w.id)]
    [] w.type = "resources" -> DropResources(a, {w.id})
    [] w.type = "routers" -> [a EXCEPT !.nets[w.net].routers = Drop(@, w.id)]
    [] w.type = "nets" ->
         [DropResources(a, ResourcesIn(a, w.id)) EXCEPT !.nets = Drop(@, w.id)]

Put(a, w, r) ==
  CASE w.type = "groups" -> [a EXCEPT !.groups = Upsert(@, w.id, w.body)]
    [] w.type = "policies" -> [a EXCEPT !.policies = Upsert(@, w.id, Numbered(w.body, r))]
    [] w.type = "keys" -> [a EXCEPT !.keys = Upsert(@, w.id, w.body)]
    [] w.type = "peers" -> [a EXCEPT !.peers[w.id] = w.body]
    [] w.type = "users" -> [a EXCEPT !.users[w.id] = w.body,
                                     !.groups = Propagated(a, w.id, w.body.auto)]
    [] w.type = "nets" ->
         [a EXCEPT !.nets = Upsert(@, w.id, [conf |-> w.body.conf, routers |->
            IF w.id \in DOMAIN @ THEN @[w.id].routers ELSE <<>>])]
    [] w.type = "routers" -> [a EXCEPT !.nets[w.net].routers = Upsert(@, w.id, w.body)]
    [] w.type = "resources" ->
         [a EXCEPT !.resources = Upsert(a.resources, w.id, w.body),
                   !.groups = Listed(a.groups, w.id, w.body.groups)]

Held(a, type, net) == IF type = "routers" THEN DOMAIN a.nets[net].routers ELSE DOMAIN a[type]

(* What a body refers to is there.                                         *)
RefersTo(a, w) ==
  CASE w.type = "policies" ->
         /\ (UNION {x.src \cup x.dst : x \in w.body.rules}) \subseteq DOMAIN a.groups
         /\ (UNION {{x.srcRef, x.dstRef} : x \in w.body.rules}) \ {None}
              \subseteq DOMAIN a.peers \cup DOMAIN a.resources
    [] w.type = "users" -> w.body.auto \subseteq DOMAIN a.groups
    [] w.type \in {"keys", "resources", "routers"} -> w.body.groups \subseteq DOMAIN a.groups
    [] w.type = "groups" -> w.body.peers \subseteq DOMAIN a.peers
                            /\ w.body.resources \subseteq DOMAIN a.resources
    [] OTHER -> TRUE

(* NetBird deletes no group that something refers to, and changes nothing  *)
(* that is not there.                                                      *)
GroupInUse(a, g) ==
  \/ \E p \in DOMAIN a.policies : \E x \in a.policies[p].rules : g \in x.src \cup x.dst
  \/ \E u \in DOMAIN a.users : g \in a.users[u].auto
  \/ \E k \in DOMAIN a.keys : g \in a.keys[k].groups
  \/ \E r \in a.groups[g].resources : TRUE
  \/ g \in RouterGroups(Snap(a))

Accepts(a, w) ==
  /\ w.type \in {"routers", "resources"} => w.net \in DOMAIN a.nets
  /\ w.body = Gone \/ ~w.new => w.id \in Held(a, w.type, w.net)
  /\ w.body # Gone => RefersTo(a, w)
  /\ w.body = Gone /\ w.type = "groups" => ~GroupInUse(a, w.id)

Applied(a, w, r) == IF w.body = Gone THEN Deleted(a, w) ELSE Put(a, w, r)

-----------------------------------------------------------------------------
(* An account that NetBird can show.                                       *)

(* A side of a rule is groups or a direct reference, never both.           *)
ValidRule(x) ==
  /\ DOMAIN x = {"id", "on", "both", "auth", "svc", "src", "srcRef", "dst", "dstRef"}
  /\ x.srcRef = None \/ x.src = {}
  /\ x.dstRef = None \/ x.dst = {}

ValidPolicy(pol) ==
  DOMAIN pol = {"conf", "on", "posture", "rules"} /\ \A x \in pol.rules : ValidRule(x)

Shaped(a) ==
  /\ DOMAIN a = {"groups", "users", "peers", "resources", "nets", "policies", "keys"}
  /\ \A g \in DOMAIN a.groups : DOMAIN a.groups[g] = {"peers", "resources"}
  /\ \A p \in DOMAIN a.peers : DOMAIN a.peers[p] = {"user", "conf", "idle", "waits"}
                                /\ a.peers[p].waits \in BOOLEAN
  /\ \A x \in DOMAIN a.resources : DOMAIN a.resources[x] = {"net", "conf", "groups"}
  /\ \A n \in DOMAIN a.nets : DOMAIN a.nets[n] = {"conf", "routers"}
  /\ \A k \in DOMAIN a.keys : a.keys[k].revoked \in BOOLEAN
  /\ \A i \in DOMAIN a.policies : ValidPolicy(a.policies[i])

(* What the account names is there.                                        *)
Coherent(a) ==
  /\ DOMAIN a.users = Users /\ DOMAIN a.peers \subseteq Peers
  /\ \A g \in DOMAIN a.groups : a.groups[g].peers \subseteq DOMAIN a.peers
                                 /\ a.groups[g].resources \subseteq DOMAIN a.resources
  /\ \A u \in Users : a.users[u].auto \subseteq DOMAIN a.groups
  /\ \A x \in DOMAIN a.resources : a.resources[x].net \in DOMAIN a.nets
  /\ \A i \in DOMAIN a.policies : \A x \in a.policies[i].rules :
       x.id # NoId /\ x.src \cup x.dst \subseteq DOMAIN a.groups

ValidAccount(a) == Shaped(a) /\ Coherent(a)

(* Rules with ids of their own, that were given by none of these.          *)
Apart(rules) == \A x, y \in rules : x.id = y.id => x = y
MadeByOthers(rules, makers) == \A x \in rules : x.id[1] \notin makers
=============================================================================
