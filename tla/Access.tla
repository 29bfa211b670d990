------------------------------- MODULE Access -------------------------------
(***************************************************************************)
(* What the pages of birdseye-web compute from a snapshot of the account:  *)
(* who reaches what (birdseye_web/access.py), the snapshot as it will be   *)
(* after an edit (diff.py), which of a user's devices have drifted         *)
(* (drift.py), and which groups may be edited (peers.py).                  *)
(*                                                                         *)
(* A snapshot holds memberships twice, as NetBird's API does: a group      *)
(* lists its peers and resources, a peer and a resource list their groups. *)
(* Ids of peers and resources are disjoint, so an id is also the Ref.      *)
(***************************************************************************)
EXTENDS Naturals, FiniteSets

CONSTANTS
  Peers, Users, Groups, Resources,   \* ids
  AllGroup,      \* the group "All"
  Synced,        \* groups the identity provider or an integration writes
  ServiceUsers,  \* users without devices
  Propagates,    \* account setting: a user's groups are its devices' groups
  None           \* a missing reference, id or field

ASSUME AccessConstants ==
  /\ AllGroup \in Groups /\ Synced \subseteq Groups /\ ServiceUsers \subseteq Users
  /\ Peers \cap Resources = {} /\ None \notin Peers \cup Resources \cup Groups
  /\ Propagates \in BOOLEAN

Flip(S, T) == (S \ T) \cup (T \ S)

(* A dictionary with one entry put in or replaced, and without some.       *)
Upsert(f, id, v) == [x \in DOMAIN f \cup {id} |-> IF x = id THEN v ELSE f[x]]
DropAll(f, ids) == [x \in DOMAIN f \ ids |-> f[x]]
Drop(f, id) == DropAll(f, {id})

-----------------------------------------------------------------------------
(* access.py. A rule is [id, on, src, srcRef, dst, dstRef, both, svc, ...]. *)

(* One directed permission of a rule, and its reverse.                     *)
RuleGrants(rule) ==
  LET forward == [src |-> rule.src, srcRef |-> rule.srcRef,
                  dst |-> rule.dst, dstRef |-> rule.dstRef, svc |-> rule.svc]
      back == [src |-> rule.dst, srcRef |-> rule.dstRef,
               dst |-> rule.src, dstRef |-> rule.srcRef, svc |-> rule.svc]
  IN  IF rule.both THEN {forward, back} ELSE {forward}

Grants(snap) ==
  UNION {UNION {RuleGrants(rule) : rule \in {x \in pol.rules : x.on}}
           : pol \in {snap.policies[id] : id \in {i \in DOMAIN snap.policies :
                                                    snap.policies[i].on}}}

GroupMembers(snap, gid) ==
  LET listed == IF gid \in DOMAIN snap.groups
                THEN snap.groups[gid].peers \cup snap.groups[gid].resources ELSE {}
  IN  listed \cup {p \in DOMAIN snap.peers : gid \in snap.peers[p].groups}
             \cup {r \in DOMAIN snap.resources : gid \in snap.resources[r].groups}

Side(snap, gids, ref) ==
  ({ref} \ {None}) \cup UNION {GroupMembers(snap, gid) : gid \in gids}

(* Resources never initiate traffic, and no peer needs a rule for itself.  *)
Edges(snap, grant) ==
  {e \in (Side(snap, grant.src, grant.srcRef) \cap Peers)
         \X Side(snap, grant.dst, grant.dstRef) : e[1] # e[2]}

(* Who reaches what with which service, and what an edit changes of it.    *)
AccessSet(snap) ==
  UNION {{<<e[1], e[2], grant.svc>> : e \in Edges(snap, grant)} : grant \in Grants(snap)}

Delta(before, after) ==
  LET b == AccessSet(before)
      a == AccessSet(after)
  IN  [gained |-> a \ b, lost |-> b \ a]

-----------------------------------------------------------------------------
(* diff.py: the snapshot after an edit.                                    *)

WithPolicy(snap, id, pol) == [snap EXCEPT !.policies = Upsert(@, id, pol)]

WithoutPolicy(snap, id) == [snap EXCEPT !.policies = Drop(@, id)]

(* Groups with new sets of peers, on both sides of the relation.           *)
WithMemberships(snap, members) ==
  [snap EXCEPT
     !.groups = [gid \in DOMAIN snap.groups |-> [snap.groups[gid] EXCEPT !.peers =
                   IF gid \in DOMAIN members THEN members[gid] ELSE @]],
     !.peers = [p \in DOMAIN snap.peers |->
                  [snap.peers[p] EXCEPT !.groups = (@ \ DOMAIN members)
                                          \cup {g \in DOMAIN members : p \in members[g]}]]]

WithGroupMembers(snap, gid, peers) == WithMemberships(snap, [g \in {gid} |-> peers])

DevicesOf(snap, uids) == {p \in DOMAIN snap.peers : snap.peers[p].user \in uids}

(* Users gain or lose a group; their devices move with them if the account *)
(* says so.                                                                *)
WithUserAutoGroups(snap, gid, added, removed) ==
  LET assigned == [snap EXCEPT !.users = [u \in DOMAIN @ |->
                     IF u \in added THEN @[u] \cup {gid}
                     ELSE IF u \in removed THEN @[u] \ {gid} ELSE @[u]]]
      peers == (snap.groups[gid].peers \ DevicesOf(snap, removed)) \cup DevicesOf(snap, added)
  IN  IF Propagates THEN WithGroupMembers(assigned, gid, peers) ELSE assigned

(* The same for one user and all its groups.                               *)
WithUserGroups(snap, uid, new) ==
  LET changed == Flip(snap.users[uid], new) \cap DOMAIN snap.groups
      own == DevicesOf(snap, {uid})
      members == [g \in changed |-> IF g \in new THEN snap.groups[g].peers \cup own
                                    ELSE snap.groups[g].peers \ own]
      assigned == [snap EXCEPT !.users[uid] = new]
  IN  IF Propagates THEN WithMemberships(assigned, members) ELSE assigned

WithPeerGroups(snap, pid, want) ==
  WithMemberships(snap,
    [g \in Flip(snap.peers[pid].groups, want) \cap DOMAIN snap.groups |->
       IF g \in want THEN snap.groups[g].peers \cup {pid} ELSE snap.groups[g].peers \ {pid}])

(* Groups without a peer, without resources, and where a resource is in    *)
(* those that it names.                                                    *)
NoPeer(groups, pid) == [g \in DOMAIN groups |-> [groups[g] EXCEPT !.peers = @ \ {pid}]]
NoResources(groups, rids) ==
  [g \in DOMAIN groups |-> [groups[g] EXCEPT !.resources = @ \ rids]]
Listed(groups, rid, gids) ==
  [g \in DOMAIN groups |-> [groups[g] EXCEPT !.resources =
     IF g \in gids THEN @ \cup {rid} ELSE @ \ {rid}]]

(* Policies without the direct references to what is gone.                 *)
WithoutRefs(policies, gone) ==
  LET kept(ref) == IF ref \in gone THEN None ELSE ref
  IN  [p \in DOMAIN policies |->
         [policies[p] EXCEPT !.rules =
            {[r EXCEPT !.srcRef = kept(@), !.dstRef = kept(@)] : r \in @}]]

(* A slip, which is not in the code: direct references to the peer stay.   *)
KeepsRefs(snap, pid) ==
  [snap EXCEPT !.peers = Drop(snap.peers, pid), !.groups = NoPeer(snap.groups, pid)]

WithoutPeer(snap, pid) ==
  [snap EXCEPT !.peers = Drop(snap.peers, pid), !.groups = NoPeer(snap.groups, pid),
               !.policies = WithoutRefs(snap.policies, {pid})]

(* A resource names its groups; the groups follow.                         *)
WithResource(snap, rid, res) ==
  [snap EXCEPT !.resources = Upsert(snap.resources, rid, res),
               !.groups = Listed(snap.groups, rid, res.groups)]

WithoutResources(snap, rids) ==
  [snap EXCEPT !.resources = DropAll(snap.resources, rids),
               !.groups = NoResources(snap.groups, rids),
               !.policies = WithoutRefs(snap.policies, rids)]

ResourcesIn(snap, nid) == {r \in DOMAIN snap.resources : snap.resources[r].net = nid}

WithoutNetwork(snap, nid) ==
  [WithoutResources(snap, ResourcesIn(snap, nid)) EXCEPT !.nets = Drop(@, nid)]

WithGroupResources(snap, gid, rids) ==
  [snap EXCEPT !.groups[gid].resources = rids,
               !.resources = [r \in DOMAIN snap.resources |-> [snap.resources[r] EXCEPT !.groups =
                  IF r \in rids THEN @ \cup {gid} ELSE @ \ {gid}]]]

-----------------------------------------------------------------------------
(* drift.py and peers.py: the groups that editors may change, and those    *)
(* that a device shares with its user.                                     *)

EditableGroups(snap) == DOMAIN snap.groups \ (Synced \cup {AllGroup})

RouterGroups(snap) ==
  UNION {UNION {snap.nets[n][rt].groups : rt \in {x \in DOMAIN snap.nets[n] : snap.nets[n][x].on}}
           : n \in DOMAIN snap.nets}

ManagedGroups(snap) == EditableGroups(snap) \ RouterGroups(snap)

(* The managed groups that a peer has and should not have, or the reverse. *)
PeerDrift(snap, pid, want) == Flip(snap.peers[pid].groups, want) \cap ManagedGroups(snap)

(* The memberships that put the peers into exactly the wanted groups.      *)
Alignment(members, managed, pids, want) ==
  LET new(g) == (members[g] \ pids) \cup (IF g \in want THEN pids ELSE {})
  IN  [g \in {x \in managed : new(x) # members[x]} |-> new(g)]
=============================================================================
