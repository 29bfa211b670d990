----------------------------- MODULE SaveProofs -----------------------------
(***************************************************************************)
(* What a save does to the account, for any editors, edits and accounts:   *)
(* it changes nothing that its user did not ask for (WebEdit.OthersKept),  *)
(* what it answers is what happened (WebEdit.HonestAnswer), and what was   *)
(* shown before it is what it did (WebEdit.PreviewTrue).                   *)
(*                                                                         *)
(* For the first: which facts change between two accounts and what a write *)
(* does to them; then, job by job, that the facts a write changes are those*)
(* the form says; last, the invariant that makes both hold at every write. *)
(*                                                                         *)
(* For the second: the steps as a relation between two records of an edit; *)
(* the order of the jobs, which says what a refusal may leave behind; then,*)
(* for a group, a peer, a user and a key, that each thing asked for is     *)
(* done, planned, or still to be done, until nothing is left to do.        *)
(*                                                                         *)
(* For the third: that a write makes of the account what the preview of it *)
(* computed from the page; for the edits of several writes, how far the    *)
(* groups are on their way to those of the preview; and last, that what is *)
(* made anew is not there before, so that a preview may name it for its    *)
(* editor.                                                                 *)
(***************************************************************************)
EXTENDS EditProofs

-----------------------------------------------------------------------------
(* The facts that change between two accounts.                             *)

Says(f, n, x) == n \in DOMAIN f /\ f[n] = x

(* A fact of a group that is in one account only, or of its members.       *)
GroupChange(f, a, b) ==
  \/ \E g \in Flip(DOMAIN a.groups, DOMAIN b.groups) : Says(f, 2, g)
  \/ \E g \in DOMAIN a.groups \cap DOMAIN b.groups :
       \/ \E p \in Flip(a.groups[g].peers, b.groups[g].peers) : f = <<"member", g, p>>
       \/ \E x \in Flip(a.groups[g].resources, b.groups[g].resources) : f = <<"holds", g, x>>

LEMMA GroupFactIs ==
  ASSUME NEW a, NEW f
  PROVE  f \in GroupFacts(a) <=>
           \E g \in DOMAIN a.groups :
              \/ f = <<"group", g>>
              \/ \E p \in a.groups[g].peers : f = <<"member", g, p>>
              \/ \E x \in a.groups[g].resources : f = <<"holds", g, x>>
<1>. DEFINE A == {<<"group", g>> : g \in DOMAIN a.groups}
            B == UNION {{<<"member", g, p>> : p \in a.groups[g].peers} : g \in DOMAIN a.groups}
            C == UNION {{<<"holds", g, x>> : x \in a.groups[g].resources} : g \in DOMAIN a.groups}
<1>1. f \in A <=> \E g \in DOMAIN a.groups : f = <<"group", g>>
  OBVIOUS
<1>2. f \in B <=> \E g \in DOMAIN a.groups : \E p \in a.groups[g].peers : f = <<"member", g, p>>
  OBVIOUS
<1>3. f \in C <=> \E g \in DOMAIN a.groups : \E x \in a.groups[g].resources : f = <<"holds", g, x>>
  OBVIOUS
<1>4. GroupFacts(a) = A \cup B \cup C
  BY DEF GroupFacts
<1>. HIDE DEF A, B, C
<1>. QED
  BY <1>1, <1>2, <1>3, <1>4, Zenon

LEMMA SecondOf ==
  ASSUME NEW f, NEW t, NEW g
  PROVE  /\ f = <<t, g>> => Says(f, 2, g)
         /\ \A p : f = <<t, g, p>> => Says(f, 2, g) /\ Says(f, 3, p) /\ f[1] = t
  BY DEF Says

LEMMA GroupHalf ==
  ASSUME NEW a, NEW b, NEW f \in GroupFacts(a), f \notin GroupFacts(b)
  PROVE  GroupChange(f, a, b)
<1>1. PICK g \in DOMAIN a.groups :
         \/ f = <<"group", g>>
         \/ \E p \in a.groups[g].peers : f = <<"member", g, p>>
         \/ \E x \in a.groups[g].resources : f = <<"holds", g, x>>
  BY GroupFactIs
<1>2. Says(f, 2, g)
  BY <1>1, SecondOf
<1>3. CASE g \notin DOMAIN b.groups
  BY <1>2, <1>3 DEF GroupChange, Flip
<1>4. CASE g \in DOMAIN b.groups
  <2>1. ~(f = <<"group", g>>)
    BY <1>4, GroupFactIs
  <2>2. \A p \in b.groups[g].peers : f # <<"member", g, p>>
    BY <1>4, GroupFactIs
  <2>3. \A x \in b.groups[g].resources : f # <<"holds", g, x>>
    BY <1>4, GroupFactIs
  <2>. QED
    BY <1>1, <1>4, <2>1, <2>2, <2>3 DEF GroupChange, Flip
<1>. QED
  BY <1>3, <1>4

LEMMA GroupChangeSym ==
  ASSUME NEW a, NEW b, NEW f, GroupChange(f, b, a)
  PROVE  GroupChange(f, a, b)
  BY DEF GroupChange, Flip

LEMMA GroupFlips ==
  ASSUME NEW a, NEW b, NEW f \in Flip(GroupFacts(a), GroupFacts(b))
  PROVE  GroupChange(f, a, b)
  BY GroupHalf, GroupChangeSym, FlipIs

LEMMA Fields ==
  ASSUME NEW f, NEW t, NEW x, NEW y, NEW z
  PROVE  /\ f = <<t, x>> => f[1] = t /\ Says(f, 2, x)
         /\ f = <<t, x, y>> => f[1] = t /\ Says(f, 2, x) /\ Says(f, 3, y)
         /\ f = <<t, x, y, z>> => f[1] = t /\ Says(f, 2, x) /\ Says(f, 3, y)
  BY DEF Says

(* The groups of a user, its role or whether it is blocked.                *)
UserChange(f, a, b) ==
  \E u \in DOMAIN a.users :
    \/ \E g \in Flip(a.users[u].auto, b.users[u].auto) : f = <<"auto", g, u>>
    \/ /\ a.users[u].role # b.users[u].role \/ a.users[u].blocked # b.users[u].blocked
       /\ f[1] = "user" /\ Says(f, 2, u)

LEMMA UserFactIs ==
  ASSUME NEW a, NEW f
  PROVE  f \in UserFacts(a) <=>
           \E u \in DOMAIN a.users :
              \/ \E g \in a.users[u].auto : f = <<"auto", g, u>>
              \/ f = <<"user", u, a.users[u].role, a.users[u].blocked>>
<1>. DEFINE A == UNION {{<<"auto", g, u>> : g \in a.users[u].auto} : u \in DOMAIN a.users}
            B == {<<"user", u, a.users[u].role, a.users[u].blocked>> : u \in DOMAIN a.users}
<1>1. f \in A <=> \E u \in DOMAIN a.users : \E g \in a.users[u].auto : f = <<"auto", g, u>>
  OBVIOUS
<1>2. f \in B <=> \E u \in DOMAIN a.users : f = <<"user", u, a.users[u].role, a.users[u].blocked>>
  OBVIOUS
<1>3. UserFacts(a) = A \cup B
  BY DEF UserFacts
<1>. HIDE DEF A, B
<1>. QED
  BY <1>1, <1>2, <1>3, Zenon

LEMMA UserHalf ==
  ASSUME NEW a, NEW b, NEW f \in UserFacts(a), f \notin UserFacts(b), DOMAIN a.users = DOMAIN b.users
  PROVE  UserChange(f, a, b)
<1>1. PICK u \in DOMAIN a.users : \/ \E g \in a.users[u].auto : f = <<"auto", g, u>>
                                  \/ f = <<"user", u, a.users[u].role, a.users[u].blocked>>
  BY UserFactIs
<1>2. CASE \E g \in a.users[u].auto : f = <<"auto", g, u>>
  <2>1. PICK g \in a.users[u].auto : f = <<"auto", g, u>>
    BY <1>2
  <2>2. g \notin b.users[u].auto
    BY <2>1, UserFactIs
  <2>. QED
    BY <2>1, <2>2 DEF UserChange, Flip
<1>3. CASE f = <<"user", u, a.users[u].role, a.users[u].blocked>>
  <2>1. f # <<"user", u, b.users[u].role, b.users[u].blocked>>
    BY UserFactIs
  <2>2. a.users[u].role # b.users[u].role \/ a.users[u].blocked # b.users[u].blocked
    BY ONLY <1>3, <2>1
  <2>3. f[1] = "user" /\ Says(f, 2, u)
    BY <1>3, Fields
  <2>. QED
    BY <2>2, <2>3 DEF UserChange
<1>. QED
  BY <1>1, <1>2, <1>3

LEMMA UserFlips ==
  ASSUME NEW a, NEW b, NEW f \in Flip(UserFacts(a), UserFacts(b)), DOMAIN a.users = DOMAIN b.users
  PROVE  UserChange(f, a, b)
<1>1. UserChange(f, b, a) => UserChange(f, a, b)
  BY DEF UserChange, Flip
<1>. QED
  BY <1>1, UserHalf, FlipIs

(* A peer that is in one account only, its settings, or its expiry and     *)
(* whether it waits for approval.                                          *)
PeerChange(f, a, b) ==
  \/ \E p \in Flip(DOMAIN a.peers, DOMAIN b.peers) : Says(f, 2, p)
  \/ \E p \in DOMAIN a.peers \cap DOMAIN b.peers :
       /\ Says(f, 2, p)
       /\ \/ f[1] = "peer" /\ a.peers[p].conf # b.peers[p].conf
          \/ a.peers[p].idle # b.peers[p].idle \/ a.peers[p].waits # b.peers[p].waits

LEMMA PeerFactIs ==
  ASSUME NEW a, NEW f
  PROVE  f \in PeerFacts(a) <=>
           \E p \in DOMAIN a.peers :
              \/ f = <<"peer", p, a.peers[p].conf>>
              \/ f = <<"expiry", p, a.peers[p].idle, a.peers[p].waits>>
  BY DEF PeerFacts

LEMMA PeerHalf ==
  ASSUME NEW a, NEW b, NEW f \in PeerFacts(a), f \notin PeerFacts(b)
  PROVE  PeerChange(f, a, b)
<1>1. PICK p \in DOMAIN a.peers : \/ f = <<"peer", p, a.peers[p].conf>>
                                  \/ f = <<"expiry", p, a.peers[p].idle, a.peers[p].waits>>
  BY PeerFactIs
<1>2. Says(f, 2, p)
  BY <1>1, Fields
<1>3. CASE p \notin DOMAIN b.peers
  BY <1>2, <1>3 DEF PeerChange, Flip
<1>4. CASE p \in DOMAIN b.peers
  <2>1. f # <<"peer", p, b.peers[p].conf>>
    BY <1>4, PeerFactIs
  <2>2. f # <<"expiry", p, b.peers[p].idle, b.peers[p].waits>>
    BY <1>4, PeerFactIs
  <2>3. CASE f = <<"peer", p, a.peers[p].conf>>
    <3>1. a.peers[p].conf # b.peers[p].conf
      BY ONLY <2>1, <2>3
    <3>2. f[1] = "peer"
      BY ONLY <2>3
    <3>. QED
      BY <1>2, <1>4, <3>1, <3>2 DEF PeerChange
  <2>4. CASE f = <<"expiry", p, a.peers[p].idle, a.peers[p].waits>>
    <3>1. a.peers[p].idle # b.peers[p].idle \/ a.peers[p].waits # b.peers[p].waits
      BY ONLY <2>2, <2>4
    <3>. QED
      BY <1>2, <1>4, <3>1 DEF PeerChange
  <2>. QED
    BY <1>1, <2>3, <2>4
<1>. QED
  BY <1>3, <1>4

LEMMA PeerFlips ==
  ASSUME NEW a, NEW b, NEW f \in Flip(PeerFacts(a), PeerFacts(b))
  PROVE  PeerChange(f, a, b)
<1>1. PeerChange(f, b, a) => PeerChange(f, a, b)
  BY DEF PeerChange, Flip
<1>. QED
  BY <1>1, PeerHalf, FlipIs

(* A key that is in one account only, whether it is revoked, its groups.   *)
KeyChange(f, a, b) ==
  \/ \E k \in Flip(DOMAIN a.keys, DOMAIN b.keys) :
       \/ f[1] = "key" /\ Says(f, 2, k)
       \/ f[1] = "keygroup" /\ Says(f, 3, k)
  \/ \E k \in DOMAIN a.keys \cap DOMAIN b.keys :
       \/ f[1] = "key" /\ Says(f, 2, k) /\ a.keys[k].revoked # b.keys[k].revoked
       \/ \E g \in Flip(a.keys[k].groups, b.keys[k].groups) : f = <<"keygroup", g, k>>

LEMMA KeyFactIs ==
  ASSUME NEW a, NEW f
  PROVE  f \in KeyFacts(a) <=>
           \E k \in DOMAIN a.keys :
              \/ f = <<"key", k, a.keys[k].revoked>>
              \/ \E g \in a.keys[k].groups : f = <<"keygroup", g, k>>
<1>. DEFINE A == {<<"key", k, a.keys[k].revoked>> : k \in DOMAIN a.keys}
            B == UNION {{<<"keygroup", g, k>> : g \in a.keys[k].groups} : k \in DOMAIN a.keys}
<1>1. f \in A <=> \E k \in DOMAIN a.keys : f = <<"key", k, a.keys[k].revoked>>
  OBVIOUS
<1>2. f \in B <=> \E k \in DOMAIN a.keys : \E g \in a.keys[k].groups : f = <<"keygroup", g, k>>
  OBVIOUS
<1>3. KeyFacts(a) = A \cup B
  BY DEF KeyFacts
<1>. HIDE DEF A, B
<1>. QED
  BY <1>1, <1>2, <1>3, Zenon

LEMMA KeyHalf ==
  ASSUME NEW a, NEW b, NEW f \in KeyFacts(a), f \notin KeyFacts(b)
  PROVE  KeyChange(f, a, b)
<1>1. PICK k \in DOMAIN a.keys : \/ f = <<"key", k, a.keys[k].revoked>>
                                 \/ \E g \in a.keys[k].groups : f = <<"keygroup", g, k>>
  BY KeyFactIs
<1>2. \/ f[1] = "key" /\ Says(f, 2, k)
      \/ f[1] = "keygroup" /\ Says(f, 3, k)
  <2>1. f = <<"key", k, a.keys[k].revoked>> => f[1] = "key" /\ Says(f, 2, k)
    BY Fields
  <2>2. \A g : f = <<"keygroup", g, k>> => f[1] = "keygroup" /\ Says(f, 3, k)
    BY Fields
  <2>. QED
    BY <1>1, <2>1, <2>2
<1>3. CASE k \notin DOMAIN b.keys
  BY <1>2, <1>3 DEF KeyChange, Flip
<1>4. CASE k \in DOMAIN b.keys
  <2>1. f # <<"key", k, b.keys[k].revoked>>
    BY <1>4, KeyFactIs
  <2>2. \A g \in b.keys[k].groups : f # <<"keygroup", g, k>>
    BY <1>4, KeyFactIs
  <2>3. CASE f = <<"key", k, a.keys[k].revoked>>
    <3>1. a.keys[k].revoked # b.keys[k].revoked
      BY ONLY <2>1, <2>3
    <3>2. f[1] = "key" /\ Says(f, 2, k)
      BY <2>3, Fields
    <3>. QED
      BY <1>4, <3>1, <3>2 DEF KeyChange
  <2>4. CASE \E g \in a.keys[k].groups : f = <<"keygroup", g, k>>
    BY <1>4, <2>2, <2>4 DEF KeyChange, Flip
  <2>. QED
    BY <1>1, <2>3, <2>4
<1>. QED
  BY <1>3, <1>4

LEMMA KeyFlips ==
  ASSUME NEW a, NEW b, NEW f \in Flip(KeyFacts(a), KeyFacts(b))
  PROVE  KeyChange(f, a, b)
<1>1. KeyChange(f, b, a) => KeyChange(f, a, b)
  BY DEF KeyChange, Flip
<1>. QED
  BY <1>1, KeyHalf, FlipIs

(* A resource that is in one account only, or its settings.                *)
ResourceChange(f, a, b) ==
  \E x \in DOMAIN a.resources \cup DOMAIN b.resources :
    /\ f[1] = "resource" /\ Says(f, 2, x)
    /\ x \in DOMAIN a.resources \cap DOMAIN b.resources => a.resources[x].conf # b.resources[x].conf

LEMMA ResourceHalf ==
  ASSUME NEW a, NEW b, NEW f \in ResourceFacts(a), f \notin ResourceFacts(b)
  PROVE  ResourceChange(f, a, b)
<1>1. PICK x \in DOMAIN a.resources : f = <<"resource", x, a.resources[x].conf>>
  BY DEF ResourceFacts
<1>2. x \in DOMAIN b.resources => f # <<"resource", x, b.resources[x].conf>>
  BY DEF ResourceFacts
<1>3. f[1] = "resource" /\ Says(f, 2, x)
  BY <1>1, Fields
<1>4. x \in DOMAIN b.resources => a.resources[x].conf # b.resources[x].conf
  BY ONLY <1>1, <1>2
<1>. QED
  BY <1>3, <1>4 DEF ResourceChange

LEMMA ResourceFlips ==
  ASSUME NEW a, NEW b, NEW f \in Flip(ResourceFacts(a), ResourceFacts(b))
  PROVE  ResourceChange(f, a, b)
<1>1. ResourceChange(f, b, a) => ResourceChange(f, a, b)
  BY DEF ResourceChange
<1>. QED
  BY <1>1, ResourceHalf, FlipIs

(* A policy that is in one account only, or one of its facts.              *)
HasShown(rules, shown) == \E x \in rules : EditorRule(x) = shown
HasHidden(rules, id, auth, ref) == \E x \in rules : x.id = id /\ x.auth = auth /\ x.srcRef = ref

HiddenOf(f, rules) == f[1] = "hidden" => \E x \in rules : Says(f, 3, x.id)

PolicyChange(f, a, b) ==
  \/ \E i \in Flip(DOMAIN a.policies, DOMAIN b.policies) :
       /\ f[1] \in {"policy", "rule", "hidden"} /\ Says(f, 2, i)
       /\ i \in DOMAIN a.policies => HiddenOf(f, a.policies[i].rules)
       /\ i \in DOMAIN b.policies => HiddenOf(f, b.policies[i].rules)
  \/ \E i \in DOMAIN a.policies \cap DOMAIN b.policies :
       LET p == a.policies[i]
           q == b.policies[i]
       IN  /\ Says(f, 2, i)
           /\ \/ f[1] = "policy" /\ (p.on # q.on \/ p.posture # q.posture)
              \/ f[1] = "rule" /\ \E shown : ~(HasShown(p.rules, shown) <=> HasShown(q.rules, shown))
              \/ f[1] = "hidden" /\ \E id, auth, ref :
                   /\ Says(f, 3, id)
                   /\ ~(HasHidden(p.rules, id, auth, ref) <=> HasHidden(q.rules, id, auth, ref))

PolicyFact(f, i, pol) ==
  \/ f = <<"policy", i, pol.on, pol.posture>>
  \/ \E x \in pol.rules : f = <<"rule", i, EditorRule(x)>>
  \/ \E x \in pol.rules : f = <<"hidden", i, x.id, x.auth, x.srcRef>>

LEMMA PolicyFactIs ==
  ASSUME NEW a, NEW f
  PROVE  f \in PolicyFacts(a) <=> \E i \in DOMAIN a.policies : PolicyFact(f, i, a.policies[i])
<1>. DEFINE A == {<<"policy", i, a.policies[i].on, a.policies[i].posture>> : i \in DOMAIN a.policies}
            B == UNION {{<<"rule", i, EditorRule(x)>> : x \in a.policies[i].rules}
                          : i \in DOMAIN a.policies}
            C == UNION {{<<"hidden", i, x.id, x.auth, x.srcRef>> : x \in a.policies[i].rules}
                          : i \in DOMAIN a.policies}
<1>1. f \in A <=> \E i \in DOMAIN a.policies :
                     f = <<"policy", i, a.policies[i].on, a.policies[i].posture>>
  OBVIOUS
<1>2. f \in B <=> \E i \in DOMAIN a.policies : \E x \in a.policies[i].rules :
                     f = <<"rule", i, EditorRule(x)>>
  OBVIOUS
<1>3. f \in C <=> \E i \in DOMAIN a.policies : \E x \in a.policies[i].rules :
                     f = <<"hidden", i, x.id, x.auth, x.srcRef>>
  OBVIOUS
<1>4. PolicyFacts(a) = A \cup B \cup C
  BY DEF PolicyFacts
<1>. HIDE DEF A, B, C
<1>. QED
  BY <1>1, <1>2, <1>3, <1>4, Zenon DEF PolicyFact

LEMMA PolicyFactHead ==
  ASSUME NEW f, NEW i, NEW pol, PolicyFact(f, i, pol)
  PROVE  f[1] \in {"policy", "rule", "hidden"} /\ Says(f, 2, i) /\ HiddenOf(f, pol.rules)
<1>1. f = <<"policy", i, pol.on, pol.posture>> => f[1] = "policy" /\ Says(f, 2, i)
  BY DEF Says
<1>2. \A y : f = <<"rule", i, y>> => f[1] = "rule" /\ Says(f, 2, i)
  BY DEF Says
<1>3. \A x, y, z : f = <<"hidden", i, x, y, z>> => f[1] = "hidden" /\ Says(f, 2, i) /\ Says(f, 3, x)
  BY DEF Says
<1>4. CASE f = <<"policy", i, pol.on, pol.posture>>
  BY <1>1, <1>4 DEF HiddenOf
<1>5. CASE \E x \in pol.rules : f = <<"rule", i, EditorRule(x)>>
  BY <1>2, <1>5 DEF HiddenOf
<1>6. CASE \E x \in pol.rules : f = <<"hidden", i, x.id, x.auth, x.srcRef>>
  BY <1>3, <1>6 DEF HiddenOf
<1>. QED
  BY <1>4, <1>5, <1>6 DEF PolicyFact

LEMMA PolicyHalf ==
  ASSUME NEW a, NEW b, NEW f \in PolicyFacts(a), f \notin PolicyFacts(b)
  PROVE  PolicyChange(f, a, b)
<1>1. PICK i \in DOMAIN a.policies : PolicyFact(f, i, a.policies[i])
  BY PolicyFactIs
<1>2. f[1] \in {"policy", "rule", "hidden"} /\ Says(f, 2, i) /\ HiddenOf(f, a.policies[i].rules)
  BY <1>1, PolicyFactHead
<1>3. CASE i \notin DOMAIN b.policies
  BY <1>2, <1>3 DEF PolicyChange, Flip
<1>4. CASE i \in DOMAIN b.policies
  <2>. DEFINE p == a.policies[i]
              q == b.policies[i]
  <2>1. ~PolicyFact(f, i, q)
    BY <1>4, PolicyFactIs
  <2>2. CASE f = <<"policy", i, p.on, p.posture>>
    <3>1. f # <<"policy", i, q.on, q.posture>>
      BY <2>1 DEF PolicyFact
    <3>2. p.on # q.on \/ p.posture # q.posture
      BY ONLY <2>2, <3>1
    <3>3. f[1] = "policy"
      BY ONLY <2>2
    <3>. QED
      BY <1>2, <1>4, <3>2, <3>3 DEF PolicyChange
  <2>3. CASE \E x \in p.rules : f = <<"rule", i, EditorRule(x)>>
    <3>1. PICK x \in p.rules : f = <<"rule", i, EditorRule(x)>>
      BY <2>3
    <3>2. \A y \in q.rules : f # <<"rule", i, EditorRule(y)>>
      BY <2>1 DEF PolicyFact
    <3>4. \A y \in q.rules : EditorRule(y) # EditorRule(x)
      BY <3>1, <3>2
    <3>5. HasShown(p.rules, EditorRule(x)) /\ ~HasShown(q.rules, EditorRule(x))
      BY <3>1, <3>4 DEF HasShown
    <3>3. f[1] = "rule"
      BY ONLY <3>1
    <3>. QED
      BY <1>2, <1>4, <3>3, <3>5 DEF PolicyChange
  <2>4. CASE \E x \in p.rules : f = <<"hidden", i, x.id, x.auth, x.srcRef>>
    <3>1. PICK x \in p.rules : f = <<"hidden", i, x.id, x.auth, x.srcRef>>
      BY <2>4
    <3>2. \A y \in q.rules : f # <<"hidden", i, y.id, y.auth, y.srcRef>>
      BY <2>1 DEF PolicyFact
    <3>3. \A y \in q.rules : ~(y.id = x.id /\ y.auth = x.auth /\ y.srcRef = x.srcRef)
      BY ONLY <3>1, <3>2
    <3>4. f[1] = "hidden" /\ Says(f, 3, x.id)
      BY ONLY <3>1 DEF Says
    <3>5. HasHidden(p.rules, x.id, x.auth, x.srcRef) /\ ~HasHidden(q.rules, x.id, x.auth, x.srcRef)
      BY <3>1, <3>3 DEF HasHidden
    <3>. QED
      BY <1>2, <1>4, <3>4, <3>5 DEF PolicyChange
  <2>. QED
    BY <1>1, <2>2, <2>3, <2>4 DEF PolicyFact
<1>. QED
  BY <1>3, <1>4

LEMMA PolicyFlips ==
  ASSUME NEW a, NEW b, NEW f \in Flip(PolicyFacts(a), PolicyFacts(b))
  PROVE  PolicyChange(f, a, b)
<1>1. PolicyChange(f, b, a) => PolicyChange(f, a, b)
  BY DEF PolicyChange, Flip
<1>. QED
  BY <1>1, PolicyHalf, FlipIs

(* A network that is in one account only, its settings, or a router.       *)
HasRouter(a, n, rt, v) ==
  n \in DOMAIN a.nets /\ rt \in DOMAIN a.nets[n].routers /\ a.nets[n].routers[rt] = v

NetworkChange(f, a, b) ==
  \/ \E n \in Flip(DOMAIN a.nets, DOMAIN b.nets) : Says(f, 2, n)
  \/ \E n \in DOMAIN a.nets \cap DOMAIN b.nets : Says(f, 2, n) /\ a.nets[n].conf # b.nets[n].conf
  \/ \E n, rt, v : /\ Says(f, 2, rt)
                   /\ \/ HasRouter(a, n, rt, v) /\ ~HasRouter(b, n, rt, v)
                      \/ HasRouter(b, n, rt, v) /\ ~HasRouter(a, n, rt, v)

LEMMA NetworkFactIs ==
  ASSUME NEW a, NEW f
  PROVE  f \in NetworkFacts(a) <=>
           \/ \E n \in DOMAIN a.nets : f = <<"net", n, a.nets[n].conf>>
           \/ \E n, rt, v : HasRouter(a, n, rt, v) /\ f = <<"router", rt, v>>
<1>. DEFINE A == {<<"net", n, a.nets[n].conf>> : n \in DOMAIN a.nets}
            B == UNION {{<<"router", rt, a.nets[n].routers[rt]>> : rt \in DOMAIN a.nets[n].routers}
                          : n \in DOMAIN a.nets}
<1>1. f \in A <=> \E n \in DOMAIN a.nets : f = <<"net", n, a.nets[n].conf>>
  OBVIOUS
<1>2. f \in B <=> \E n \in DOMAIN a.nets : \E rt \in DOMAIN a.nets[n].routers :
                     f = <<"router", rt, a.nets[n].routers[rt]>>
  OBVIOUS
<1>3. NetworkFacts(a) = A \cup B
  BY DEF NetworkFacts
<1>. HIDE DEF A, B
<1>. QED
  BY <1>1, <1>2, <1>3, Zenon DEF HasRouter

LEMMA NetworkHalf ==
  ASSUME NEW a, NEW b, NEW f \in NetworkFacts(a), f \notin NetworkFacts(b)
  PROVE  NetworkChange(f, a, b)
<1>1. CASE \E n \in DOMAIN a.nets : f = <<"net", n, a.nets[n].conf>>
  <2>1. PICK n \in DOMAIN a.nets : f = <<"net", n, a.nets[n].conf>>
    BY <1>1
  <2>2. Says(f, 2, n)
    BY <2>1, Fields
  <2>3. n \in DOMAIN b.nets => f # <<"net", n, b.nets[n].conf>>
    BY NetworkFactIs
  <2>4. n \in DOMAIN b.nets => a.nets[n].conf # b.nets[n].conf
    BY ONLY <2>1, <2>3
  <2>. QED
    BY <2>1, <2>2, <2>4 DEF NetworkChange, Flip
<1>2. CASE \E n, rt, v : HasRouter(a, n, rt, v) /\ f = <<"router", rt, v>>
  <2>1. PICK n, rt, v : HasRouter(a, n, rt, v) /\ f = <<"router", rt, v>>
    BY <1>2
  <2>2. Says(f, 2, rt)
    BY <2>1, Fields
  <2>3. ~HasRouter(b, n, rt, v)
    BY <2>1, NetworkFactIs
  <2>. QED
    BY <2>1, <2>2, <2>3 DEF NetworkChange
<1>. QED
  BY <1>1, <1>2, NetworkFactIs

LEMMA NetworkFlips ==
  ASSUME NEW a, NEW b, NEW f \in Flip(NetworkFacts(a), NetworkFacts(b))
  PROVE  NetworkChange(f, a, b)
<1>1. NetworkChange(f, b, a) => NetworkChange(f, a, b)
  BY DEF NetworkChange, Flip
<1>. QED
  BY <1>1, NetworkHalf, FlipIs

(* A fact that changes is one of these, of a part that changes.            *)
LEMMA FactsFlip ==
  ASSUME NEW a, NEW b, NEW f \in Flip(Facts(a), Facts(b)), DOMAIN a.users = DOMAIN b.users
  PROVE  \/ a.groups # b.groups /\ GroupChange(f, a, b)
         \/ a.users # b.users /\ UserChange(f, a, b)
         \/ a.peers # b.peers /\ PeerChange(f, a, b)
         \/ a.keys # b.keys /\ KeyChange(f, a, b)
         \/ a.policies # b.policies /\ PolicyChange(f, a, b)
         \/ a.nets # b.nets /\ NetworkChange(f, a, b)
         \/ a.resources # b.resources /\ ResourceChange(f, a, b)
<1>1. \/ f \in Flip(GroupFacts(a), GroupFacts(b)) \/ f \in Flip(UserFacts(a), UserFacts(b))
      \/ f \in Flip(PeerFacts(a), PeerFacts(b)) \/ f \in Flip(KeyFacts(a), KeyFacts(b))
      \/ f \in Flip(PolicyFacts(a), PolicyFacts(b)) \/ f \in Flip(NetworkFacts(a), NetworkFacts(b))
      \/ f \in Flip(ResourceFacts(a), ResourceFacts(b))
  BY DEF Facts, Flip
<1>2. a.groups = b.groups => GroupFacts(a) = GroupFacts(b)
  BY DEF GroupFacts
<1>3. a.users = b.users => UserFacts(a) = UserFacts(b)
  BY DEF UserFacts
<1>4. a.peers = b.peers => PeerFacts(a) = PeerFacts(b)
  BY DEF PeerFacts
<1>5. a.keys = b.keys => KeyFacts(a) = KeyFacts(b)
  BY DEF KeyFacts
<1>6. a.policies = b.policies => PolicyFacts(a) = PolicyFacts(b)
  BY DEF PolicyFacts
<1>7. a.nets = b.nets => NetworkFacts(a) = NetworkFacts(b)
  BY DEF NetworkFacts
<1>8. a.resources = b.resources => ResourceFacts(a) = ResourceFacts(b)
  BY DEF ResourceFacts
<1>9. \A S : f \notin Flip(S, S)
  BY DEF Flip
<1>. QED
  BY <1>1, <1>2, <1>3, <1>4, <1>5, <1>6, <1>7, <1>8, <1>9, GroupFlips, UserFlips, PeerFlips,
     KeyFlips, PolicyFlips, NetworkFlips, ResourceFlips

-----------------------------------------------------------------------------
(* The facts that a write changes.                                         *)

Changed(f, a, w, r) == f \in Flip(Facts(a), Facts(Applied(a, w, r)))

(* A write keeps the users, but for the one that it is about.              *)
LEMMA SameUsers ==
  ASSUME NEW a, NEW w, NEW r, ValidAccount(a), ValidWrite(w), Accepts(a, w), r # None
  PROVE  DOMAIN Applied(a, w, r).users = DOMAIN a.users
  BY AppliedValid DEF ValidAccount, Coherent

(* A group: its members and what it holds; all of it, if it is new.        *)
LEMMA GroupPutChanges ==
  ASSUME NEW a, NEW w, NEW r, NEW f, ValidAccount(a), ValidWrite(w), Accepts(a, w), r # None,
         w.type = "groups", w.body # Gone, Changed(f, a, w, r)
  PROVE  /\ Says(f, 2, w.id)
         /\ w.id \in DOMAIN a.groups =>
              \/ \E p \in Flip(a.groups[w.id].peers, w.body.peers) : f = <<"member", w.id, p>>
              \/ \E x \in Flip(a.groups[w.id].resources, w.body.resources) : f = <<"holds", w.id, x>>
<1>. DEFINE b == Applied(a, w, r)
<1>1. b.groups = Upsert(a.groups, w.id, w.body) /\ Kept(b, a, {"groups"})
  BY PutGroup DEF ValidAccount
<1>2. DOMAIN b.users = DOMAIN a.users
  BY SameUsers
<1>3. f \in Flip(Facts(a), Facts(b))
  BY DEF Changed
<1>. HIDE DEF b
<1>4. GroupChange(f, a, b)
  BY <1>1, <1>2, <1>3, FactsFlip DEF Kept, AccountParts
<1>5. /\ DOMAIN b.groups = DOMAIN a.groups \cup {w.id} /\ b.groups[w.id] = w.body
      /\ \A x \in DOMAIN a.groups \ {w.id} : b.groups[x] = a.groups[x]
  BY <1>1 DEF Upsert
<1>6. CASE \E g \in Flip(DOMAIN a.groups, DOMAIN b.groups) : Says(f, 2, g)
  BY <1>5, <1>6 DEF Flip
<1>7. ASSUME NEW g \in DOMAIN a.groups \cap DOMAIN b.groups,
             \/ \E p \in Flip(a.groups[g].peers, b.groups[g].peers) : f = <<"member", g, p>>
             \/ \E x \in Flip(a.groups[g].resources, b.groups[g].resources) : f = <<"holds", g, x>>
      PROVE  /\ Says(f, 2, w.id)
             /\ \/ \E p \in Flip(a.groups[w.id].peers, w.body.peers) : f = <<"member", w.id, p>>
                \/ \E x \in Flip(a.groups[w.id].resources, w.body.resources) :
                     f = <<"holds", w.id, x>>
  <2>1. g = w.id
    BY <1>5, <1>7 DEF Flip
  <2>2. Says(f, 2, g)
    BY <1>7, SecondOf
  <2>. QED
    BY <1>5, <1>7, <2>1, <2>2
<1>. QED
  BY <1>4, <1>5, <1>6, <1>7 DEF GroupChange, Flip

(* A user: its groups, and with them those of its devices.                 *)
UserPut(f, a, w) ==
  LET moved == Flip(a.users[w.id].auto, w.body.auto)
  IN  \/ \E g \in moved : f = <<"auto", g, w.id>>
      \/ /\ f[1] = "user" /\ Says(f, 2, w.id)
         /\ a.users[w.id].role # w.body.role \/ a.users[w.id].blocked # w.body.blocked
      \/ Propagates /\ \E g \in moved, p \in OwnPeers(a, w.id) : f = <<"member", g, p>>

LEMMA UserPutChanges ==
  ASSUME NEW a, NEW w, NEW r, NEW f, ValidAccount(a), ValidWrite(w), Accepts(a, w), r # None,
         w.type = "users", w.body # Gone, Changed(f, a, w, r)
  PROVE  w.id \in DOMAIN a.users /\ UserPut(f, a, w)
<1>. DEFINE b == Applied(a, w, r)
<1>1. /\ b.users = [a.users EXCEPT ![w.id] = w.body]
      /\ b.groups = Propagated(a, w.id, w.body.auto)
      /\ Kept(b, a, {"users", "groups"})
  BY PutUser DEF ValidAccount
<1>2. DOMAIN b.users = DOMAIN a.users
  BY SameUsers
<1>3. f \in Flip(Facts(a), Facts(b))
  BY DEF Changed
<1>4. w.id \in DOMAIN a.users
  BY DEF Accepts, Held, ValidWrite
<1>5. GroupsValid(a)
  BY ValidParts
<1>. HIDE DEF b
<1>6. GroupChange(f, a, b) \/ UserChange(f, a, b)
  BY <1>1, <1>2, <1>3, FactsFlip DEF Kept, AccountParts
<1>7. FollowUser(b.groups, a, w.id, w.body.auto)
  BY <1>1, <1>5, PropagatedIs
<1>8. ASSUME UserChange(f, a, b)
      PROVE  UserPut(f, a, w)
  <2>1. PICK u \in DOMAIN a.users :
          \/ \E g \in Flip(a.users[u].auto, b.users[u].auto) : f = <<"auto", g, u>>
          \/ /\ a.users[u].role # b.users[u].role \/ a.users[u].blocked # b.users[u].blocked
             /\ f[1] = "user" /\ Says(f, 2, u)
    BY <1>8 DEF UserChange
  <2>2. u # w.id => b.users[u] = a.users[u]
    BY <1>1
  <2>3. u = w.id
    BY <2>1, <2>2 DEF Flip
  <2>4. b.users[w.id] = w.body
    BY <1>1, <1>4
  <2>. QED
    BY <2>1, <2>3, <2>4 DEF UserPut
<1>9. ASSUME GroupChange(f, a, b)
      PROVE  UserPut(f, a, w)
  <2>1. DOMAIN b.groups = DOMAIN a.groups
    BY <1>7 DEF FollowUser
  <2>2. PICK g \in DOMAIN a.groups :
          \/ \E p \in Flip(a.groups[g].peers, b.groups[g].peers) : f = <<"member", g, p>>
          \/ \E x \in Flip(a.groups[g].resources, b.groups[g].resources) : f = <<"holds", g, x>>
    BY <1>9, <2>1 DEF GroupChange, Flip
  <2>3. b.groups[g].resources = a.groups[g].resources
    BY <1>7 DEF FollowUser
  <2>4. PICK p \in Flip(a.groups[g].peers, b.groups[g].peers) : f = <<"member", g, p>>
    BY <2>2, <2>3 DEF Flip
  <2>5. Propagates /\ ~(g \in w.body.auto <=> g \in a.users[w.id].auto) /\ p \in OwnPeers(a, w.id)
    BY <1>7, <2>4 DEF FollowUser, Flip
  <2>6. g \in Flip(a.users[w.id].auto, w.body.auto)
    BY <2>5 DEF Flip
  <2>. QED
    BY <2>4, <2>5, <2>6 DEF UserPut
<1>. QED
  BY <1>4, <1>6, <1>8, <1>9

(* A peer: its settings, its expiry and whether it waits.                  *)
LEMMA PeerPutChanges ==
  ASSUME NEW a, NEW w, NEW r, NEW f, ValidAccount(a), ValidWrite(w), Accepts(a, w), r # None,
         w.type = "peers", w.body # Gone, Changed(f, a, w, r)
  PROVE  /\ w.id \in DOMAIN a.peers /\ Says(f, 2, w.id)
         /\ \/ f[1] = "peer" /\ a.peers[w.id].conf # w.body.conf
            \/ a.peers[w.id].idle # w.body.idle \/ a.peers[w.id].waits # w.body.waits
<1>. DEFINE b == Applied(a, w, r)
<1>1. b.peers = [a.peers EXCEPT ![w.id] = w.body] /\ Kept(b, a, {"peers"})
  BY PutPeer DEF ValidAccount
<1>2. DOMAIN b.users = DOMAIN a.users
  BY SameUsers
<1>3. f \in Flip(Facts(a), Facts(b))
  BY DEF Changed
<1>4. w.id \in DOMAIN a.peers
  BY DEF Accepts, Held, ValidWrite
<1>. HIDE DEF b
<1>5. PeerChange(f, a, b)
  BY <1>1, <1>2, <1>3, FactsFlip DEF Kept, AccountParts
<1>6. /\ DOMAIN b.peers = DOMAIN a.peers /\ b.peers[w.id] = w.body
      /\ \A p \in DOMAIN a.peers \ {w.id} : b.peers[p] = a.peers[p]
  BY <1>1, <1>4
<1>7. PICK p \in DOMAIN a.peers :
        /\ Says(f, 2, p)
        /\ \/ f[1] = "peer" /\ a.peers[p].conf # b.peers[p].conf
           \/ a.peers[p].idle # b.peers[p].idle \/ a.peers[p].waits # b.peers[p].waits
  BY <1>5, <1>6 DEF PeerChange, Flip
<1>8. p = w.id
  BY <1>6, <1>7
<1>. QED
  BY <1>4, <1>6, <1>7, <1>8

(* A key: its groups and whether it is revoked; all of it, if it is new.   *)
LEMMA KeyPutChanges ==
  ASSUME NEW a, NEW w, NEW r, NEW f, ValidAccount(a), ValidWrite(w), Accepts(a, w), r # None,
         w.type = "keys", w.body # Gone, Changed(f, a, w, r)
  PROVE  \/ w.id \notin DOMAIN a.keys /\ (Says(f, 2, w.id) \/ Says(f, 3, w.id))
         \/ /\ w.id \in DOMAIN a.keys
            /\ f[1] = "key" /\ Says(f, 2, w.id) /\ a.keys[w.id].revoked # w.body.revoked
         \/ /\ w.id \in DOMAIN a.keys
            /\ \E g \in Flip(a.keys[w.id].groups, w.body.groups) : f = <<"keygroup", g, w.id>>
<1>. DEFINE b == Applied(a, w, r)
<1>1. b.keys = Upsert(a.keys, w.id, w.body) /\ Kept(b, a, {"keys"})
  BY PutKey DEF ValidAccount
<1>2. DOMAIN b.users = DOMAIN a.users
  BY SameUsers
<1>3. f \in Flip(Facts(a), Facts(b))
  BY DEF Changed
<1>. HIDE DEF b
<1>4. KeyChange(f, a, b)
  BY <1>1, <1>2, <1>3, FactsFlip DEF Kept, AccountParts
<1>5. /\ DOMAIN b.keys = DOMAIN a.keys \cup {w.id} /\ b.keys[w.id] = w.body
      /\ \A k \in DOMAIN a.keys \ {w.id} : b.keys[k] = a.keys[k]
  BY <1>1 DEF Upsert
<1>6. CASE \E k \in Flip(DOMAIN a.keys, DOMAIN b.keys) :
             \/ f[1] = "key" /\ Says(f, 2, k)
             \/ f[1] = "keygroup" /\ Says(f, 3, k)
  BY <1>5, <1>6 DEF Flip
<1>7. ASSUME NEW k \in DOMAIN a.keys \cap DOMAIN b.keys,
             \/ f[1] = "key" /\ Says(f, 2, k) /\ a.keys[k].revoked # b.keys[k].revoked
             \/ \E g \in Flip(a.keys[k].groups, b.keys[k].groups) : f = <<"keygroup", g, k>>
      PROVE  /\ w.id \in DOMAIN a.keys
             /\ \/ f[1] = "key" /\ Says(f, 2, w.id) /\ a.keys[w.id].revoked # w.body.revoked
                \/ \E g \in Flip(a.keys[w.id].groups, w.body.groups) : f = <<"keygroup", g, w.id>>
  <2>1. k = w.id
    BY <1>5, <1>7 DEF Flip
  <2>. QED
    BY <1>5, <1>7, <2>1
<1>8. CASE \E k \in DOMAIN a.keys \cap DOMAIN b.keys :
             \/ f[1] = "key" /\ Says(f, 2, k) /\ a.keys[k].revoked # b.keys[k].revoked
             \/ \E g \in Flip(a.keys[k].groups, b.keys[k].groups) : f = <<"keygroup", g, k>>
  <2>1. PICK k \in DOMAIN a.keys \cap DOMAIN b.keys :
             \/ f[1] = "key" /\ Says(f, 2, k) /\ a.keys[k].revoked # b.keys[k].revoked
             \/ \E g \in Flip(a.keys[k].groups, b.keys[k].groups) : f = <<"keygroup", g, k>>
    BY <1>8
  <2>. QED
    BY <2>1, <1>7
<1>9. \/ \E k \in Flip(DOMAIN a.keys, DOMAIN b.keys) :
           \/ f[1] = "key" /\ Says(f, 2, k)
           \/ f[1] = "keygroup" /\ Says(f, 3, k)
      \/ \E k \in DOMAIN a.keys \cap DOMAIN b.keys :
           \/ f[1] = "key" /\ Says(f, 2, k) /\ a.keys[k].revoked # b.keys[k].revoked
           \/ \E g \in Flip(a.keys[k].groups, b.keys[k].groups) : f = <<"keygroup", g, k>>
  BY <1>4 DEF KeyChange
<1>. QED
  BY <1>6, <1>8, <1>9

(* A network: its settings; the routers stay.                              *)
LEMMA NetPutChanges ==
  ASSUME NEW a, NEW w, NEW r, NEW f, ValidAccount(a), ValidWrite(w), Accepts(a, w), r # None,
         w.type = "nets", w.body # Gone, Changed(f, a, w, r)
  PROVE  Says(f, 2, w.id)
<1>. DEFINE b == Applied(a, w, r)
            new == [conf |-> w.body.conf, routers |->
                      IF w.id \in DOMAIN a.nets THEN a.nets[w.id].routers ELSE <<>>]
<1>1. b.nets = Upsert(a.nets, w.id, new) /\ Kept(b, a, {"nets"})
  BY PutNetwork DEF ValidAccount
<1>2. DOMAIN b.users = DOMAIN a.users
  BY SameUsers
<1>3. f \in Flip(Facts(a), Facts(b))
  BY DEF Changed
<1>4. w.id \in DOMAIN a.nets => new.routers = a.nets[w.id].routers
  OBVIOUS
<1>5. w.id \notin DOMAIN a.nets => DOMAIN new.routers = {}
  OBVIOUS
<1>. HIDE DEF b, new
<1>6. NetworkChange(f, a, b)
  BY <1>1, <1>2, <1>3, FactsFlip DEF Kept, AccountParts
<1>7. /\ DOMAIN b.nets = DOMAIN a.nets \cup {w.id} /\ b.nets[w.id] = new
      /\ \A n \in DOMAIN a.nets \ {w.id} : b.nets[n] = a.nets[n]
  BY <1>1 DEF Upsert
<1>8. \A n, rt, v : HasRouter(a, n, rt, v) <=> HasRouter(b, n, rt, v)
  BY <1>4, <1>5, <1>7 DEF HasRouter
<1>. QED
  BY <1>6, <1>7, <1>8 DEF NetworkChange, Flip

(* A router, put or deleted.                                               *)
LEMMA RouterChanges ==
  ASSUME NEW a, NEW w, NEW r, NEW f, ValidAccount(a), ValidWrite(w), Accepts(a, w), r # None,
         w.type = "routers", Changed(f, a, w, r)
  PROVE  Says(f, 2, w.id)
<1>. DEFINE b == Applied(a, w, r)
            old == a.nets[w.net].routers
            new == IF w.body = Gone THEN Drop(old, w.id) ELSE Upsert(old, w.id, w.body)
<1>0. w.net \in DOMAIN a.nets /\ DOMAIN a.nets[w.net] = {"conf", "routers"}
  BY ValidParts DEF Accepts, NetsValid
<1>1. b.nets = [a.nets EXCEPT ![w.net].routers = new] /\ Kept(b, a, {"nets"})
  BY <1>0, PutRouter, DeletedRouter DEF ValidAccount
<1>2. DOMAIN b.users = DOMAIN a.users
  BY SameUsers
<1>3. f \in Flip(Facts(a), Facts(b))
  BY DEF Changed
<1>4. \A x : x # w.id => (x \in DOMAIN new <=> x \in DOMAIN old) /\ (x \in DOMAIN old => new[x] = old[x])
  BY DEF Drop, DropAll, Upsert
<1>. HIDE DEF b, new
<1>6. NetworkChange(f, a, b)
  BY <1>1, <1>2, <1>3, FactsFlip DEF Kept, AccountParts
<1>7. /\ DOMAIN b.nets = DOMAIN a.nets
      /\ b.nets[w.net].conf = a.nets[w.net].conf /\ b.nets[w.net].routers = new
      /\ \A n \in DOMAIN a.nets \ {w.net} : b.nets[n] = a.nets[n]
  BY <1>0, <1>1
<1>8. \A n, rt, v : rt # w.id => (HasRouter(a, n, rt, v) <=> HasRouter(b, n, rt, v))
  BY <1>4, <1>7 DEF HasRouter
<1>. QED
  BY <1>6, <1>7, <1>8 DEF NetworkChange, Flip

(* A resource and the groups that hold it.                                 *)
LEMMA ResourcePutChanges ==
  ASSUME NEW a, NEW w, NEW r, NEW f, ValidAccount(a), ValidWrite(w), Accepts(a, w), r # None,
         w.type = "resources", w.body # Gone, Changed(f, a, w, r)
  PROVE  \/ f[1] = "resource" /\ Says(f, 2, w.id)
         \/ f[1] = "holds" /\ Says(f, 3, w.id)
<1>. DEFINE b == Applied(a, w, r)
<1>1. /\ b.resources = Upsert(a.resources, w.id, w.body)
      /\ b.groups = Listed(a.groups, w.id, w.body.groups)
      /\ Kept(b, a, {"resources", "groups"})
  BY PutResource DEF ValidAccount
<1>2. DOMAIN b.users = DOMAIN a.users
  BY SameUsers
<1>3. f \in Flip(Facts(a), Facts(b))
  BY DEF Changed
<1>4. GroupsValid(a)
  BY ValidParts
<1>. HIDE DEF b
<1>5. GroupChange(f, a, b) \/ ResourceChange(f, a, b)
  BY <1>1, <1>2, <1>3, FactsFlip DEF Kept, AccountParts
<1>6. ListResource(b.groups, a, w.id, w.body.groups)
  BY <1>1, <1>4, ListedIs
<1>7. \A x \in DOMAIN a.resources \cup DOMAIN b.resources : x # w.id =>
        x \in DOMAIN a.resources /\ x \in DOMAIN b.resources /\ b.resources[x] = a.resources[x]
  BY <1>1 DEF Upsert
<1>8. CASE ResourceChange(f, a, b)
  BY <1>7, <1>8 DEF ResourceChange
<1>9. CASE GroupChange(f, a, b)
  <2>1. DOMAIN b.groups = DOMAIN a.groups
    BY <1>6 DEF ListResource
  <2>2. PICK g \in DOMAIN a.groups :
          \/ \E p \in Flip(a.groups[g].peers, b.groups[g].peers) : f = <<"member", g, p>>
          \/ \E x \in Flip(a.groups[g].resources, b.groups[g].resources) : f = <<"holds", g, x>>
    BY <1>9, <2>1 DEF GroupChange, Flip
  <2>3. b.groups[g].peers = a.groups[g].peers
    BY <1>6 DEF ListResource
  <2>4. PICK x \in Flip(a.groups[g].resources, b.groups[g].resources) : f = <<"holds", g, x>>
    BY <2>2, <2>3 DEF Flip
  <2>5. x = w.id
    BY <1>6, <2>4 DEF ListResource, Flip
  <2>. QED
    BY <2>4, <2>5, SecondOf
<1>. QED
  BY <1>5, <1>8, <1>9

(* A policy: what it is, its rules and what the editor does not show.      *)
PolicyPut(f, i, pol, new) ==
  /\ Says(f, 2, i)
  /\ \/ f[1] = "policy" /\ (pol.on # new.on \/ pol.posture # new.posture)
     \/ f[1] = "rule" /\ \E shown : ~(HasShown(pol.rules, shown) <=> HasShown(new.rules, shown))
     \/ f[1] = "hidden" /\ \E id, auth, ref :
          /\ Says(f, 3, id)
          /\ ~(HasHidden(pol.rules, id, auth, ref) <=> HasHidden(new.rules, id, auth, ref))

LEMMA PolicyPutChanges ==
  ASSUME NEW a, NEW w, NEW r, NEW f, ValidAccount(a), ValidWrite(w), Accepts(a, w), r # None,
         w.type = "policies", w.body # Gone, Changed(f, a, w, r)
  PROVE  /\ Says(f, 2, w.id) /\ f[1] \in {"policy", "rule", "hidden"}
         /\ w.id \in DOMAIN a.policies =>
              PolicyPut(f, w.id, a.policies[w.id], Numbered(w.body, r))
<1>. DEFINE b == Applied(a, w, r)
            new == Numbered(w.body, r)
<1>1. b.policies = Upsert(a.policies, w.id, new) /\ Kept(b, a, {"policies"})
  BY PutPolicy DEF ValidAccount
<1>2. DOMAIN b.users = DOMAIN a.users
  BY SameUsers
<1>3. f \in Flip(Facts(a), Facts(b))
  BY DEF Changed
<1>. HIDE DEF b, new
<1>4. PolicyChange(f, a, b)
  BY <1>1, <1>2, <1>3, FactsFlip DEF Kept, AccountParts
<1>5. /\ DOMAIN b.policies = DOMAIN a.policies \cup {w.id} /\ b.policies[w.id] = new
      /\ \A i \in DOMAIN a.policies \ {w.id} : b.policies[i] = a.policies[i]
  BY <1>1 DEF Upsert
<1>6. CASE \E i \in Flip(DOMAIN a.policies, DOMAIN b.policies) :
             f[1] \in {"policy", "rule", "hidden"} /\ Says(f, 2, i)
  BY <1>5, <1>6 DEF Flip
<1>7. ASSUME NEW i \in DOMAIN a.policies \cap DOMAIN b.policies,
             PolicyPut(f, i, a.policies[i], b.policies[i])
      PROVE  i = w.id /\ PolicyPut(f, w.id, a.policies[w.id], new)
  <2>1. i = w.id
    BY <1>5, <1>7 DEF PolicyPut
  <2>. QED
    BY <1>5, <1>7, <2>1
<1>8. \/ \E i \in Flip(DOMAIN a.policies, DOMAIN b.policies) :
           f[1] \in {"policy", "rule", "hidden"} /\ Says(f, 2, i)
      \/ \E i \in DOMAIN a.policies \cap DOMAIN b.policies :
           PolicyPut(f, i, a.policies[i], b.policies[i])
  BY <1>4 DEF PolicyChange, PolicyPut
<1>9. ASSUME PolicyPut(f, w.id, a.policies[w.id], new)
      PROVE  Says(f, 2, w.id) /\ f[1] \in {"policy", "rule", "hidden"}
  BY <1>9 DEF PolicyPut
<1>10. CASE \E i \in DOMAIN a.policies \cap DOMAIN b.policies :
              PolicyPut(f, i, a.policies[i], b.policies[i])
  BY <1>7, <1>9, <1>10 DEF new
<1>. QED
  BY <1>6, <1>8, <1>10, <1>5

-----------------------------------------------------------------------------
(* Deletions.                                                              *)

LEMMA GroupGoneChanges ==
  ASSUME NEW a, NEW w, NEW r, NEW f, ValidAccount(a), ValidWrite(w), Accepts(a, w), r # None,
         w.type \in {"groups", "policies"}, w.body = Gone, Changed(f, a, w, r)
  PROVE  Says(f, 2, w.id)
<1>. DEFINE b == Applied(a, w, r)
<1>1. /\ w.type = "groups" => b.groups = Drop(a.groups, w.id) /\ Kept(b, a, {"groups"})
      /\ w.type = "policies" => b.policies = Drop(a.policies, w.id) /\ Kept(b, a, {"policies"})
  BY DeletedOne DEF ValidAccount
<1>2. DOMAIN b.users = DOMAIN a.users
  BY SameUsers
<1>3. f \in Flip(Facts(a), Facts(b))
  BY DEF Changed
<1>. HIDE DEF b
<1>4. CASE w.type = "groups"
  <2>1. GroupChange(f, a, b)
    BY <1>1, <1>2, <1>3, <1>4, FactsFlip DEF Kept, AccountParts
  <2>2. DOMAIN b.groups = DOMAIN a.groups \ {w.id} /\ \A g \in DOMAIN b.groups : b.groups[g] = a.groups[g]
    BY <1>1, <1>4 DEF Drop, DropAll
  <2>. QED
    BY <2>1, <2>2 DEF GroupChange, Flip
<1>5. CASE w.type = "policies"
  <2>1. PolicyChange(f, a, b)
    BY <1>1, <1>2, <1>3, <1>5, FactsFlip DEF Kept, AccountParts
  <2>2. /\ DOMAIN b.policies = DOMAIN a.policies \ {w.id}
        /\ \A i \in DOMAIN b.policies : b.policies[i] = a.policies[i]
    BY <1>1, <1>5 DEF Drop, DropAll
  <2>. QED
    BY <2>1, <2>2 DEF PolicyChange, Flip
<1>. QED
  BY <1>4, <1>5

(* Of a policy that is gone, what it hid of each of its rules.             *)
LEMMA PolicyGoneChanges ==
  ASSUME NEW a, NEW w, NEW r, NEW f, ValidAccount(a), ValidWrite(w), Accepts(a, w), r # None,
         w.type = "policies", w.body = Gone, Changed(f, a, w, r)
  PROVE  /\ f[1] \in {"policy", "rule", "hidden"} /\ Says(f, 2, w.id)
         /\ HiddenOf(f, a.policies[w.id].rules)
<1>. DEFINE b == Applied(a, w, r)
<1>1. b.policies = Drop(a.policies, w.id) /\ Kept(b, a, {"policies"})
  BY DeletedOne DEF ValidAccount
<1>2. DOMAIN b.users = DOMAIN a.users
  BY SameUsers
<1>3. f \in Flip(Facts(a), Facts(b))
  BY DEF Changed
<1>4. w.id \in DOMAIN a.policies
  BY DEF Accepts, Held
<1>. HIDE DEF b
<1>5. PolicyChange(f, a, b)
  BY <1>1, <1>2, <1>3, FactsFlip DEF Kept, AccountParts
<1>6. /\ DOMAIN b.policies = DOMAIN a.policies \ {w.id}
      /\ \A i \in DOMAIN b.policies : b.policies[i] = a.policies[i]
  BY <1>1 DEF Drop, DropAll
<1>7. PICK i \in Flip(DOMAIN a.policies, DOMAIN b.policies) :
        /\ f[1] \in {"policy", "rule", "hidden"} /\ Says(f, 2, i)
        /\ i \in DOMAIN a.policies => HiddenOf(f, a.policies[i].rules)
  BY <1>5, <1>6 DEF PolicyChange, Flip
<1>8. i = w.id
  BY <1>6, <1>7 DEF Flip
<1>. QED
  BY <1>4, <1>7, <1>8

LEMMA KeyGoneChanges ==
  ASSUME NEW a, NEW w, NEW r, NEW f, ValidAccount(a), ValidWrite(w), Accepts(a, w), r # None,
         w.type = "keys", w.body = Gone, Changed(f, a, w, r)
  PROVE  \/ f[1] = "key" /\ Says(f, 2, w.id)
         \/ f[1] = "keygroup" /\ Says(f, 3, w.id)
<1>. DEFINE b == Applied(a, w, r)
<1>1. b.keys = Drop(a.keys, w.id) /\ Kept(b, a, {"keys"})
  BY DeletedOne DEF ValidAccount
<1>2. DOMAIN b.users = DOMAIN a.users
  BY SameUsers
<1>3. f \in Flip(Facts(a), Facts(b))
  BY DEF Changed
<1>. HIDE DEF b
<1>4. KeyChange(f, a, b)
  BY <1>1, <1>2, <1>3, FactsFlip DEF Kept, AccountParts
<1>5. DOMAIN b.keys = DOMAIN a.keys \ {w.id} /\ \A k \in DOMAIN b.keys : b.keys[k] = a.keys[k]
  BY <1>1 DEF Drop, DropAll
<1>. QED
  BY <1>4, <1>5 DEF KeyChange, Flip

(* Rules that show the same, and hide the same.                            *)
SameRule(y, x) ==
  /\ y.id = x.id /\ y.on = x.on /\ y.both = x.both /\ y.auth = x.auth /\ y.svc = x.svc
  /\ y.src = x.src /\ y.srcRef = x.srcRef /\ y.dst = x.dst /\ y.dstRef = x.dstRef

SameRules(new, old) ==
  /\ \A y \in new : \E x \in old : SameRule(y, x)
  /\ \A x \in old : \E y \in new : SameRule(y, x)

LEMMA SameRulesShow ==
  ASSUME NEW new, NEW old, SameRules(new, old)
  PROVE  /\ \A shown : HasShown(new, shown) <=> HasShown(old, shown)
         /\ \A id, auth, ref : HasHidden(new, id, auth, ref) <=> HasHidden(old, id, auth, ref)
<1>1. \A y, x : SameRule(y, x) => EditorRule(y) = EditorRule(x)
  BY DEF SameRule, EditorRule
<1>2. \A shown : HasShown(new, shown) <=> HasShown(old, shown)
  BY <1>1 DEF SameRules, HasShown
<1>3. \A id, auth, ref : HasHidden(new, id, auth, ref) <=> HasHidden(old, id, auth, ref)
  BY DEF SameRules, SameRule, HasHidden
<1>. QED
  BY <1>2, <1>3

(* A policy with a rule that refers to what is gone.                       *)
RefersToGone(f, a, gone) ==
  /\ f[1] \in {"rule", "hidden"}
  /\ \E i \in DOMAIN a.policies :
       Says(f, 2, i) /\ \E x \in a.policies[i].rules : {x.srcRef, x.dstRef} \cap gone # {}

LEMMA UnreferredChanges ==
  ASSUME NEW a, NEW b, NEW gone, NEW f, PoliciesValid(a), PolicyChange(f, a, b),
         b.policies = WithoutRefs(a.policies, gone)
  PROVE  RefersToGone(f, a, gone)
<1>1. DOMAIN b.policies = DOMAIN a.policies
  BY WithoutRefsDomain
<1>2. PICK i \in DOMAIN a.policies : PolicyPut(f, i, a.policies[i], b.policies[i])
  BY <1>1 DEF PolicyChange, PolicyPut, Flip
<1>. DEFINE p == a.policies[i]
            q == b.policies[i]
<1>3. ValidPolicy(p)
  BY DEF PoliciesValid, PolicyIn
<1>4. /\ q.on = p.on /\ q.posture = p.posture
      /\ \A y \in q.rules : \E x \in p.rules : UnreferredRule(y, x, gone)
      /\ \A x \in p.rules : \E y \in q.rules : UnreferredRule(y, x, gone)
  BY <1>3, WithoutRefsIs
<1>. HIDE DEF p, q
<1>5. ASSUME \A x \in p.rules : {x.srcRef, x.dstRef} \cap gone = {}
      PROVE  SameRules(q.rules, p.rules)
  <2>1. \A x \in p.rules : \A y : UnreferredRule(y, x, gone) => SameRule(y, x)
    BY <1>5 DEF UnreferredRule, LikeRule, Kept1, SameRule
  <2>. QED
    BY <1>4, <2>1 DEF SameRules
<1>6. PolicyPut(f, i, p, q)
  BY <1>2 DEF p, q
<1>7. f[1] \in {"rule", "hidden"} /\ Says(f, 2, i)
  BY <1>4, <1>6 DEF PolicyPut
<1>8. ~SameRules(q.rules, p.rules)
  BY <1>4, <1>6, SameRulesShow DEF PolicyPut
<1>9. \E x \in p.rules : {x.srcRef, x.dstRef} \cap gone # {}
  BY <1>5, <1>8
<1>. QED
  BY <1>7, <1>9 DEF RefersToGone, p

LEMMA LeftOutChanges ==
  ASSUME NEW a, NEW b, NEW pids, NEW rids, NEW f, GroupChange(f, a, b),
         LeaveOut(b.groups, a, pids, rids)
  PROVE  \E z \in pids \cup rids : Says(f, 3, z)
<1>1. DOMAIN b.groups = DOMAIN a.groups
  BY DEF LeaveOut
<1>2. PICK g \in DOMAIN a.groups :
        \/ \E p \in Flip(a.groups[g].peers, b.groups[g].peers) : f = <<"member", g, p>>
        \/ \E x \in Flip(a.groups[g].resources, b.groups[g].resources) : f = <<"holds", g, x>>
  BY <1>1 DEF GroupChange, Flip
<1>3. \A p \in Flip(a.groups[g].peers, b.groups[g].peers) : p \in pids
  BY DEF LeaveOut, Flip
<1>4. \A x \in Flip(a.groups[g].resources, b.groups[g].resources) : x \in rids
  BY DEF LeaveOut, Flip
<1>. QED
  BY <1>2, <1>3, <1>4, SecondOf

(* What goes with a peer, a resource, a network.                           *)
GoneWith(f, a, gone) == (\E z \in gone : Says(f, 2, z) \/ Says(f, 3, z)) \/ RefersToGone(f, a, gone)

LEMMA PeerGoneChanges ==
  ASSUME NEW a, NEW w, NEW r, NEW f, ValidAccount(a), ValidWrite(w), Accepts(a, w), r # None,
         w.type = "peers", w.body = Gone, Changed(f, a, w, r)
  PROVE  GoneWith(f, a, {w.id})
<1>. DEFINE b == Applied(a, w, r)
<1>1. /\ b.peers = Drop(a.peers, w.id) /\ b.policies = WithoutRefs(a.policies, {w.id})
      /\ b.groups = NoPeer(a.groups, w.id)
      /\ Kept(b, a, {"peers", "policies", "groups"})
  BY DeletedPeer DEF ValidAccount
<1>2. DOMAIN b.users = DOMAIN a.users
  BY SameUsers
<1>3. f \in Flip(Facts(a), Facts(b))
  BY DEF Changed
<1>4. GroupsValid(a) /\ PoliciesValid(a)
  BY ValidParts
<1>. HIDE DEF b
<1>5. GroupChange(f, a, b) \/ PeerChange(f, a, b) \/ PolicyChange(f, a, b)
  BY <1>1, <1>2, <1>3, FactsFlip DEF Kept, AccountParts
<1>6. CASE GroupChange(f, a, b)
  <2>1. LeaveOut(b.groups, a, {w.id}, {})
    BY <1>1, <1>4, NoPeerIs
  <2>2. \E z \in {w.id} \cup {} : Says(f, 3, z)
    BY <1>6, <2>1, LeftOutChanges
  <2>. QED
    BY <2>2 DEF GoneWith
<1>7. CASE PeerChange(f, a, b)
  <2>1. DOMAIN b.peers = DOMAIN a.peers \ {w.id} /\ \A p \in DOMAIN b.peers : b.peers[p] = a.peers[p]
    BY <1>1 DEF Drop, DropAll
  <2>2. Says(f, 2, w.id)
    BY <1>7, <2>1 DEF PeerChange, Flip
  <2>. QED
    BY <2>2 DEF GoneWith
<1>8. CASE PolicyChange(f, a, b)
  BY <1>1, <1>4, <1>8, UnreferredChanges DEF GoneWith
<1>. QED
  BY <1>5, <1>6, <1>7, <1>8

(* Resources, and perhaps their network.                                   *)
LEMMA DroppedChanges ==
  ASSUME NEW a, NEW rids, NEW gone, NEW b, NEW f, ValidAccount(a),
         Kept(b, DropResources(a, rids), {"nets"}), rids \subseteq gone,
         f \in Flip(Facts(a), Facts(b)),
         a.nets # b.nets /\ NetworkChange(f, a, b) => GoneWith(f, a, gone)
  PROVE  GoneWith(f, a, gone)
<1>. DEFINE d == DropResources(a, rids)
<1>1. /\ d.resources = DropAll(a.resources, rids) /\ d.groups = NoResources(a.groups, rids)
      /\ d.policies = WithoutRefs(a.policies, rids)
      /\ Kept(d, a, {"resources", "groups", "policies"})
  BY DroppedResources DEF ValidAccount
<1>2. /\ b.resources = DropAll(a.resources, rids) /\ b.groups = NoResources(a.groups, rids)
      /\ b.policies = WithoutRefs(a.policies, rids)
      /\ b.users = a.users /\ b.peers = a.peers /\ b.keys = a.keys
  <2>. HIDE DEF d
  <2>1. Kept(b, d, {"nets"})
    BY DEF d
  <2>. QED
    BY <1>1, <2>1 DEF Kept, AccountParts
<1>3. GroupsValid(a) /\ PoliciesValid(a)
  BY ValidParts
<1>4. \/ GroupChange(f, a, b) \/ PolicyChange(f, a, b) \/ ResourceChange(f, a, b)
      \/ a.nets # b.nets /\ NetworkChange(f, a, b)
  BY <1>2, FactsFlip
<1>5. CASE GroupChange(f, a, b)
  <2>1. LeaveOut(b.groups, a, {}, rids)
    BY <1>2, <1>3, NoResourcesIs
  <2>2. \E z \in {} \cup rids : Says(f, 3, z)
    BY <1>5, <2>1, LeftOutChanges
  <2>. QED
    BY <2>2 DEF GoneWith
<1>6. CASE PolicyChange(f, a, b)
  <2>1. RefersToGone(f, a, rids)
    BY <1>2, <1>3, <1>6, UnreferredChanges
  <2>. QED
    BY <2>1 DEF GoneWith, RefersToGone
<1>7. CASE ResourceChange(f, a, b)
  <2>1. DOMAIN b.resources = DOMAIN a.resources \ rids
        /\ \A x \in DOMAIN b.resources : b.resources[x] = a.resources[x]
    BY <1>2 DEF DropAll
  <2>2. \E z \in rids : Says(f, 2, z)
    BY <1>7, <2>1 DEF ResourceChange
  <2>. QED
    BY <2>2 DEF GoneWith
<1>. QED
  BY <1>4, <1>5, <1>6, <1>7

LEMMA ResourceGoneChanges ==
  ASSUME NEW a, NEW w, NEW r, NEW f, ValidAccount(a),
         w.type = "resources", w.body = Gone, Changed(f, a, w, r)
  PROVE  GoneWith(f, a, {w.id})
<1>. DEFINE b == Applied(a, w, r)
            d == DropResources(a, {w.id})
<1>1. b = d
  BY DeletedResource
<1>2. Kept(d, d, {"nets"})
  BY DEF Kept
<1>3. d.nets = a.nets
  BY DroppedResources DEF Kept, AccountParts, ValidAccount
<1>4. f \in Flip(Facts(a), Facts(b))
  BY DEF Changed
<1>5. Kept(b, d, {"nets"}) /\ b.nets = a.nets
  BY <1>1, <1>2, <1>3
<1>. HIDE DEF b
<1>. QED
  BY <1>4, <1>5, DroppedChanges

LEMMA NetworkGoneChanges ==
  ASSUME NEW a, NEW w, NEW r, NEW f, ValidAccount(a), ValidWrite(w), Accepts(a, w), r # None,
         w.type = "nets", w.body = Gone, Changed(f, a, w, r)
  PROVE  GoneWith(f, a, {w.id} \cup ResourcesIn(a, w.id) \cup DOMAIN a.nets[w.id].routers)
<1>. DEFINE b == Applied(a, w, r)
            rids == ResourcesIn(a, w.id)
            gone == {w.id} \cup rids \cup DOMAIN a.nets[w.id].routers
<1>1. b.nets = Drop(a.nets, w.id) /\ Kept(b, DropResources(a, rids), {"nets"})
  BY DeletedNetwork DEF ValidAccount
<1>2. f \in Flip(Facts(a), Facts(b))
  BY DEF Changed
<1>. HIDE DEF b, rids
<1>3. DOMAIN b.nets = DOMAIN a.nets \ {w.id} /\ \A n \in DOMAIN b.nets : b.nets[n] = a.nets[n]
  BY <1>1 DEF Drop, DropAll
<1>4. ASSUME NetworkChange(f, a, b)
      PROVE  GoneWith(f, a, gone)
  <2>1. CASE \E n, rt, v : /\ Says(f, 2, rt)
                           /\ \/ HasRouter(a, n, rt, v) /\ ~HasRouter(b, n, rt, v)
                              \/ HasRouter(b, n, rt, v) /\ ~HasRouter(a, n, rt, v)
    <3>1. PICK n, rt, v : /\ Says(f, 2, rt)
                          /\ \/ HasRouter(a, n, rt, v) /\ ~HasRouter(b, n, rt, v)
                             \/ HasRouter(b, n, rt, v) /\ ~HasRouter(a, n, rt, v)
      BY <2>1
    <3>2. rt \in DOMAIN a.nets[w.id].routers
      BY <1>3, <3>1 DEF HasRouter
    <3>. QED
      BY <3>1, <3>2 DEF GoneWith
  <2>2. CASE \E n \in Flip(DOMAIN a.nets, DOMAIN b.nets) : Says(f, 2, n)
    <3>1. Says(f, 2, w.id)
      BY <1>3, <2>2 DEF Flip
    <3>. QED
      BY <3>1 DEF GoneWith
  <2>3. ~(\E n \in DOMAIN a.nets \cap DOMAIN b.nets : Says(f, 2, n) /\ a.nets[n].conf # b.nets[n].conf)
    BY <1>3
  <2>. QED
    BY <1>4, <2>1, <2>2, <2>3 DEF NetworkChange
<1>5. rids \subseteq gone
  OBVIOUS
<1>. HIDE DEF gone
<1>6. GoneWith(f, a, gone)
  BY <1>1, <1>2, <1>4, <1>5, DroppedChanges
<1>. QED
  BY <1>6 DEF gone, rids

-----------------------------------------------------------------------------
(* What each job changes is what its user asked for.                       *)

OldIds(q, a) == {x.id : x \in q.page.policies[q.make.id].rules}
                \cap {x.id : x \in a.policies[q.make.id].rules}

LEMMA AskedIs ==
  ASSUME NEW r, NEW q, NEW f, NEW a
  PROVE  LET e == q.make
             own == f[2] = e.id
         IN  /\ (\E n \in DOMAIN f : f[n] = r) => Asked(r, q, f, a)
             /\ e.kind = "delete" /\ GoesWith(e, f, a) => Asked(r, q, f, a)
             /\ e.kind \in {"restore", "net", "router"} /\ own => Asked(r, q, f, a)
             /\ e.kind = "group" /\ own /\ f[1] = "member" /\ f[3] \in e.peers => Asked(r, q, f, a)
             /\ e.kind = "group" /\ own /\ f[1] = "member" /\ f[3] \in MovedSince(q, a)
                  => Asked(r, q, f, a)
             /\ e.kind = "group" /\ own /\ f[1] = "member" /\ Propagates
                  /\ (\E u \in e.users : f[3] \in OwnPeers(a, u)) => Asked(r, q, f, a)
             /\ e.kind = "group" /\ own /\ f[1] = "auto" /\ f[3] \in e.users => Asked(r, q, f, a)
             /\ e.kind = "user" /\ f[1] = "auto" /\ f[2] \in e.groups /\ f[3] = e.id
                  => Asked(r, q, f, a)
             /\ e.kind = "user" /\ f[1] = "user" /\ own /\ (e.role # Same \/ e.blocked # Same)
                  => Asked(r, q, f, a)
             /\ e.kind = "user" /\ f[1] = "member" /\ f[3] \in e.align => Asked(r, q, f, a)
             /\ e.kind = "user" /\ f[1] = "member" /\ Propagates /\ f[2] \in e.groups
                  /\ f[3] \in OwnPeers(a, e.id) => Asked(r, q, f, a)
             /\ e.kind = "peer" /\ f[1] = "member" /\ f[2] \in e.groups /\ f[3] = e.id
                  => Asked(r, q, f, a)
             /\ e.kind = "peer" /\ f[1] = "peer" /\ own /\ e.conf # Same => Asked(r, q, f, a)
             /\ e.kind = "policy" /\ own /\ f[1] \in {"policy", "rule"} => Asked(r, q, f, a)
             /\ e.kind = "policy" /\ own /\ f[1] = "hidden" /\ f[3] \notin OldIds(q, a)
                  => Asked(r, q, f, a)
             /\ e.kind = "toggle" /\ f[1] = "policy" /\ own => Asked(r, q, f, a)
             /\ e.kind = "revoke" /\ own /\ f[1] \in {"policy", "rule"} => Asked(r, q, f, a)
             /\ e.kind = "revoke" /\ own /\ f[1] = "hidden" /\ f[3] = e.rule => Asked(r, q, f, a)
             /\ e.kind = "revoke" /\ own /\ e.mode = "delete" => Asked(r, q, f, a)
             /\ e.kind \in {"key", "bulk"} /\ f[1] = "key" /\ e.action = "revoke"
                  /\ f[2] \in e.keys => Asked(r, q, f, a)
             /\ e.kind \in {"key", "bulk"} /\ f[1] = "keygroup" /\ f[3] \in e.keys
                  /\ f[2] \in e.groups => Asked(r, q, f, a)
             /\ e.kind \in {"key", "bulk"} /\ f[1] \in {"key", "keygroup"} /\ e.action = "delete"
                  /\ (\E k \in e.keys \cap DOMAIN a.keys : a.keys[k].revoked /\ k \in {f[2], f[3]})
                  => Asked(r, q, f, a)
             /\ e.kind = "resource" /\ f[1] = "holds" /\ f[3] = e.id => Asked(r, q, f, a)
             /\ e.kind = "resource" /\ f[1] = "resource" /\ own => Asked(r, q, f, a)
  BY DEF Asked, OldIds

(* A form says the same of a page and an account, wherever its job is.     *)
LEMMA AskedSame ==
  ASSUME NEW r, NEW q, NEW p, NEW f, NEW a, p.make = q.make, p.page = q.page
  PROVE  Asked(r, q, f, a) <=> Asked(r, p, f, a)
  BY DEF Asked, MovedSince

Explained(r, q, w, a) ==
  Accepts(a, w) => \A f : Changed(f, a, w, r) => Asked(r, q, f, a)

LEMMA ThreeAre ==
  ASSUME NEW f, NEW x, NEW y, NEW z, f = <<x, y, z>>
  PROVE  f[1] = x /\ f[2] = y /\ f[3] = z /\ Says(f, 2, y) /\ Says(f, 3, z)
  BY DEF Says

(* A new object: every fact of it names the one that makes it.             *)
LEMMA MadeNamesIt ==
  ASSUME NEW a, NEW w, NEW r, NEW f, ValidAccount(a), ValidWrite(w), Accepts(a, w), r # None,
         w.body # Gone, w.type \notin {"users", "peers"}, Changed(f, a, w, r)
  PROVE  \E n \in DOMAIN f : f[n] = w.id
<1>1. Says(f, 2, w.id) \/ Says(f, 3, w.id) => \E n \in DOMAIN f : f[n] = w.id
  BY DEF Says
<1>2. CASE w.type = "keys"
  <2>1. ASSUME NEW g, f = <<"keygroup", g, w.id>>
        PROVE  Says(f, 3, w.id)
    BY <2>1 DEF Says
  <2>. QED
    BY <1>1, <1>2, <2>1, KeyPutChanges
<1>3. w.type \in {"groups", "nets", "routers", "resources", "policies", "keys"}
  BY DEF ValidWrite, Types
<1>. QED
  BY <1>1, <1>2, <1>3, GroupPutChanges, NetPutChanges, RouterChanges, ResourcePutChanges,
     PolicyPutChanges

LEMMA PostExplained ==
  ASSUME NEW r \in Editors, NEW q, NEW a, NEW w, ValidAccount(a), ValidWrite(w),
         w.body # Gone, w.type \notin {"users", "peers"}, w.id = r
  PROVE  Explained(r, q, w, a)
<1>1. r # None
  BY EditorIsNot
<1>. QED
  BY <1>1, MadeNamesIt, AskedIs DEF Explained

(* A group: the members that its user changed, and those that others did.  *)
LEMMA GroupExplained ==
  ASSUME NEW r \in Editors, NEW q, NEW a, NEW w \in GroupWrites(q.make, q.page, a),
         ValidAccount(a), ValidWrite(w), w.body # Bad, q.make.kind = "group",
         q.make.id \in DOMAIN a.groups
  PROVE  Explained(r, q, w, a)
<1>. DEFINE e == q.make
<1>1. /\ IsTo(w, "groups", e.id)
      /\ w.body = [peers |-> FormPeers(e, q.page), resources |-> a.groups[e.id].resources]
  BY GroupWritesAre
<1>2. w.type = "groups" /\ w.id = e.id /\ w.body.resources = a.groups[w.id].resources
  BY <1>1 DEF IsTo
<1>3. w.body # Gone
  BY ONLY <1>1, NotGone
<1>4. ASSUME NEW f, Accepts(a, w), Changed(f, a, w, r)
      PROVE  Asked(r, q, f, a)
  <2>1. PICK p \in Flip(a.groups[w.id].peers, w.body.peers) : f = <<"member", w.id, p>>
    BY <1>2, <1>3, <1>4, EditorIsNot, GroupPutChanges DEF Flip
  <2>2. f[1] = "member" /\ f[2] = e.id /\ f[3] = p
    BY <1>2, <2>1, ThreeAre
  <2>3. w.body.peers = Flip(q.page.groups[e.id].peers, e.peers)
    BY <1>1 DEF FormPeers
  <2>4. p \in e.peers \/ p \in MovedSince(q, a)
    BY <1>2, <2>1, <2>3 DEF Flip, MovedSince
  <2>. QED
    BY <2>2, <2>4, AskedIs
<1>. QED
  BY <1>4 DEF Explained

(* One of the users of a group that are saved after it.                    *)
UsersFit(r, e, w, a) ==
  \E gid :
    /\ (e.kind = "group" /\ gid = e.id) \/ (e.kind = "new group" /\ gid = r)
    /\ IsTo(w, "users", w.id) /\ w.id \in DOMAIN a.users /\ w.id \in e.users
    /\ w.body.role = a.users[w.id].role /\ w.body.blocked = a.users[w.id].blocked
    /\ Flip(a.users[w.id].auto, w.body.auto) \subseteq {gid}

LEMMA UsersFitThen ==
  ASSUME NEW r, NEW q, NEW page, NEW a, NEW gid, NEW w \in UsersWrites(q.make, page, a, gid),
         (q.make.kind = "group" /\ gid = q.make.id) \/ (q.make.kind = "new group" /\ gid = r)
  PROVE  UsersFit(r, q.make, w, a)
<1>. DEFINE pick == Picked(q.make, page, gid)
<1>1. UsersWrite(w, a, pick, gid)
  BY UsersWritesAre
<1>2. pick.added \cup pick.removed \subseteq q.make.users
  <2>. DEFINE had == IF gid \in Groups THEN Checked(page, gid) ELSE {}
  <2>1. pick = UserGroupChanges(Flip(had, q.make.users), had)
    BY DEF Picked
  <2>. HIDE DEF pick, had
  <2>. QED
    BY <2>1 DEF UserGroupChanges, Flip
<1>. HIDE DEF pick
<1>3. /\ IsTo(w, "users", w.id) /\ w.id \in DOMAIN a.users /\ w.id \in q.make.users
      /\ w.body = [role |-> a.users[w.id].role, auto |-> w.body.auto,
                   blocked |-> a.users[w.id].blocked]
      /\ \/ w.body.auto = a.users[w.id].auto \cup {gid}
         \/ w.body.auto = a.users[w.id].auto \ {gid}
  BY <1>1, <1>2 DEF UsersWrite
<1>4. w.body.role = a.users[w.id].role /\ w.body.blocked = a.users[w.id].blocked
  BY ONLY <1>3
<1>5. Flip(a.users[w.id].auto, w.body.auto) \subseteq {gid}
  BY ONLY <1>3 DEF Flip
<1>. QED
  BY <1>3, <1>4, <1>5 DEF UsersFit

LEMMA UsersExplained ==
  ASSUME NEW r \in Editors, NEW q, NEW a, NEW w, ValidAccount(a), ValidWrite(w),
         UsersFit(r, q.make, w, a)
  PROVE  Explained(r, q, w, a)
<1>. DEFINE e == q.make
<1>1. PICK gid :
        /\ (e.kind = "group" /\ gid = e.id) \/ (e.kind = "new group" /\ gid = r)
        /\ IsTo(w, "users", w.id) /\ w.id \in DOMAIN a.users /\ w.id \in e.users
        /\ w.body.role = a.users[w.id].role /\ w.body.blocked = a.users[w.id].blocked
        /\ Flip(a.users[w.id].auto, w.body.auto) \subseteq {gid}
  BY DEF UsersFit
<1>2. w.type = "users" /\ w.body # Gone
  BY <1>1 DEF IsTo, ValidWrite
<1>3. ASSUME NEW f, Accepts(a, w), Changed(f, a, w, r)
      PROVE  Asked(r, q, f, a)
  <2>1. UserPut(f, a, w)
    BY <1>2, <1>3, EditorIsNot, UserPutChanges
  <2>2. \/ f = <<"auto", gid, w.id>>
        \/ Propagates /\ \E p \in OwnPeers(a, w.id) : f = <<"member", gid, p>>
    BY <1>1, <2>1 DEF UserPut
  <2>3. CASE f = <<"auto", gid, w.id>>
    <3>1. f[1] = "auto" /\ f[2] = gid /\ f[3] = w.id /\ Says(f, 2, gid)
      BY <2>3, ThreeAre
    <3>. QED
      BY <1>1, <3>1, AskedIs DEF Says
  <2>4. CASE Propagates /\ \E p \in OwnPeers(a, w.id) : f = <<"member", gid, p>>
    <3>1. f[1] = "member" /\ f[2] = gid /\ Says(f, 2, gid) /\ f[3] \in OwnPeers(a, w.id)
      BY <2>4, ThreeAre
    <3>. QED
      BY <1>1, <2>4, <3>1, AskedIs DEF Says
  <2>. QED
    BY <2>2, <2>3, <2>4
<1>. QED
  BY <1>3 DEF Explained

(* A user: its groups, with its devices, and its role.                     *)
LEMMA UserExplained ==
  ASSUME NEW r \in Editors, NEW q, NEW a,
         NEW w \in UserWrites(q.make, q.page, q.snap, a),
         ValidAccount(a), ValidWrite(w), w.body # Bad, q.make.kind = "user"
  PROVE  Explained(r, q, w, a)
<1>. DEFINE e == q.make
            now == a.users[e.id]
            want == UserWant(e, q.page, q.snap, a)
<1>1. UserWrite(w, e, now, want)
  BY UserWritesAre
<1>2. Flip(now.auto, want) \subseteq e.groups
  BY ChosenFlips DEF UserWant
<1>. HIDE DEF want
<1>3. /\ w.type = "users" /\ w.id = e.id /\ w.body.auto = want
      /\ w.body.role = Or(e.role, now.role) /\ w.body.blocked = Or(e.blocked, now.blocked)
  BY <1>1 DEF UserWrite, IsTo
<1>4. w.body # Gone
  BY <1>3 DEF ValidWrite
<1>5. ASSUME NEW f, Accepts(a, w), Changed(f, a, w, r)
      PROVE  Asked(r, q, f, a)
  <2>1. UserPut(f, a, w)
    BY <1>3, <1>4, <1>5, EditorIsNot, UserPutChanges
  <2>2. CASE \E g \in e.groups : f = <<"auto", g, e.id>>
    <3>1. f[1] = "auto" /\ f[2] \in e.groups /\ f[3] = e.id
      BY <2>2, ThreeAre
    <3>. QED
      BY <3>1, AskedIs
  <2>3. CASE /\ f[1] = "user" /\ Says(f, 2, e.id)
             /\ now.role # w.body.role \/ now.blocked # w.body.blocked
    <3>1. e.role # Same \/ e.blocked # Same
      BY <1>3, <2>3 DEF Or
    <3>. QED
      BY <2>3, <3>1, AskedIs DEF Says
  <2>4. CASE Propagates /\ \E g \in e.groups, p \in OwnPeers(a, e.id) : f = <<"member", g, p>>
    <3>1. f[1] = "member" /\ f[2] \in e.groups /\ f[3] \in OwnPeers(a, e.id)
      BY <2>4, ThreeAre
    <3>. QED
      BY <2>4, <3>1, AskedIs
  <2>. QED
    BY <1>2, <1>3, <2>1, <2>2, <2>3, <2>4 DEF UserPut
<1>. QED
  BY <1>5 DEF Explained

(* One of the groups that devices are put into, or taken out of.           *)
AlignFit(e, w, a) ==
  /\ e.kind = "user" /\ IsTo(w, "groups", w.id) /\ w.id \in DOMAIN a.groups
  /\ Flip(a.groups[w.id].peers, w.body.peers) \subseteq e.align
  /\ w.body.resources = a.groups[w.id].resources
  /\ w.body # Gone

LEMMA AlignFits ==
  ASSUME NEW e, NEW snap, NEW want, NEW a, NEW w \in AlignWrites(e, snap, want, a), e.kind = "user"
  PROVE  AlignFit(e, w, a)
<1>. DEFINE own == OwnAligned(e, snap)
<1>1. AlignWrite(w, a, own, ManagedGroups(snap), want)
  BY AlignWritesAre
<1>2. own \subseteq e.align
  BY DEF OwnAligned
<1>. HIDE DEF own
<1>3. w.body = [peers |-> w.body.peers, resources |-> a.groups[w.id].resources]
  BY <1>1 DEF AlignWrite
<1>4. w.body.resources = a.groups[w.id].resources
  BY ONLY <1>3
<1>5. w.body # Gone
  BY ONLY <1>3, NotGone
<1>6. Flip(a.groups[w.id].peers, w.body.peers) \subseteq own
  BY <1>1 DEF AlignWrite, Flip
<1>. QED
  BY <1>1, <1>2, <1>4, <1>5, <1>6 DEF AlignWrite, AlignFit

LEMMA AlignExplained ==
  ASSUME NEW r \in Editors, NEW q, NEW a, NEW w, ValidAccount(a), ValidWrite(w),
         AlignFit(q.make, w, a)
  PROVE  Explained(r, q, w, a)
<1>. DEFINE e == q.make
<1>1. /\ w.type = "groups" /\ w.body # Gone /\ e.kind = "user" /\ w.id \in DOMAIN a.groups
      /\ Flip(a.groups[w.id].peers, w.body.peers) \subseteq e.align
      /\ w.body.resources = a.groups[w.id].resources
  BY DEF AlignFit, IsTo
<1>2. ASSUME NEW f, Accepts(a, w), Changed(f, a, w, r)
      PROVE  Asked(r, q, f, a)
  <2>1. PICK p \in e.align : f = <<"member", w.id, p>>
    BY <1>1, <1>2, EditorIsNot, GroupPutChanges DEF Flip
  <2>2. f[1] = "member" /\ f[3] \in e.align
    BY <2>1, ThreeAre
  <2>. QED
    BY <1>1, <2>2, AskedIs
<1>. QED
  BY <1>2 DEF Explained

(* A peer: its settings.                                                   *)
LEMMA SettingsExplained ==
  ASSUME NEW r \in Editors, NEW q, NEW a, NEW w \in SettingsWrites(q.make, a),
         ValidAccount(a), ValidWrite(w), q.make.kind = "peer", q.make.id \in DOMAIN a.peers
  PROVE  Explained(r, q, w, a)
<1>. DEFINE e == q.make
            now == a.peers[e.id]
<1>1. SettingsWrite(w, e, now)
  BY SettingsWritesAre, ValidParts
<1>2. /\ w.type = "peers" /\ w.id = e.id /\ w.body.idle = now.idle /\ w.body.waits = now.waits
      /\ w.body.conf = Or(e.conf, now.conf) /\ DOMAIN w.body = {"user", "conf", "idle", "waits"}
  BY <1>1 DEF SettingsWrite, IsTo
<1>3. w.body # Gone
  BY <1>2 DEF Gone
<1>4. ASSUME NEW f, Accepts(a, w), Changed(f, a, w, r)
      PROVE  Asked(r, q, f, a)
  <2>1. f[1] = "peer" /\ Says(f, 2, e.id) /\ now.conf # w.body.conf
    BY <1>2, <1>3, <1>4, EditorIsNot, PeerPutChanges
  <2>2. e.conf # Same
    BY <1>2, <2>1 DEF Or
  <2>. QED
    BY <2>1, <2>2, AskedIs DEF Says
<1>. QED
  BY <1>4 DEF Explained

(* A peer: one of its groups.                                              *)
LEMMA MemberExplained ==
  ASSUME NEW r \in Editors, NEW q, NEW a, NEW gid \in q.make.groups,
         NEW w \in MemberWrites(q.make, q.page, q.snap, gid, a),
         ValidAccount(a), ValidWrite(w), q.make.kind = "peer", gid \in DOMAIN a.groups
  PROVE  Explained(r, q, w, a)
<1>. DEFINE e == q.make
<1>1. PICK joining : MemberWrite(w, a, gid, e.id, joining)
  BY MemberWritesAre
<1>2. /\ w.type = "groups" /\ w.id = gid
      /\ w.body = [peers |-> IF gid \in joining THEN a.groups[gid].peers \cup {e.id}
                             ELSE a.groups[gid].peers \ {e.id},
                   resources |-> a.groups[gid].resources]
  BY <1>1 DEF MemberWrite, IsTo
<1>3. w.body # Gone
  BY ONLY <1>2, NotGone
<1>4. Flip(a.groups[gid].peers, w.body.peers) \subseteq {e.id}
  BY ONLY <1>2 DEF Flip
<1>5. w.body.resources = a.groups[gid].resources
  BY ONLY <1>2
<1>6. ASSUME NEW f, Accepts(a, w), Changed(f, a, w, r)
      PROVE  Asked(r, q, f, a)
  <2>1. f = <<"member", gid, e.id>>
    BY <1>2, <1>3, <1>4, <1>5, <1>6, EditorIsNot, GroupPutChanges DEF Flip
  <2>2. f[1] = "member" /\ f[2] = gid /\ f[3] = e.id
    BY <2>1, ThreeAre
  <2>. QED
    BY <2>2, AskedIs
<1>. QED
  BY <1>6 DEF Explained

(* Keys, one or many: the groups that were toggled; revoked, or deleted if *)
(* they were.                                                              *)
KeyAsked(w, e, a) ==
  /\ w.type = "keys" /\ w.id \in e.keys /\ w.id \in DOMAIN a.keys
  /\ \/ w.body = Gone /\ e.action = "delete" /\ a.keys[w.id].revoked
     \/ /\ w.body # Gone /\ Flip(a.keys[w.id].groups, w.body.groups) \subseteq e.groups
        /\ w.body.revoked # a.keys[w.id].revoked => e.action = "revoke"

LEMMA KeyExplained ==
  ASSUME NEW r \in Editors, NEW q, NEW a, NEW w, ValidAccount(a), ValidWrite(w),
         KeyAsked(w, q.make, a), q.make.kind \in {"key", "bulk"}
  PROVE  Explained(r, q, w, a)
<1>. DEFINE e == q.make
<1>1. w.type = "keys" /\ w.id \in e.keys /\ w.id \in DOMAIN a.keys
  BY DEF KeyAsked
<1>2. ASSUME NEW f, Accepts(a, w), Changed(f, a, w, r)
      PROVE  Asked(r, q, f, a)
  <2>1. CASE w.body = Gone
    <3>1. e.action = "delete" /\ a.keys[w.id].revoked
      BY <2>1 DEF KeyAsked
    <3>2. \/ f[1] = "key" /\ f[2] = w.id
          \/ f[1] = "keygroup" /\ f[3] = w.id
      BY <1>1, <1>2, <2>1, EditorIsNot, KeyGoneChanges DEF Says
    <3>3. f[1] \in {"key", "keygroup"} /\ w.id \in {f[2], f[3]}
      BY <3>2
    <3>4. \E k \in e.keys \cap DOMAIN a.keys : a.keys[k].revoked /\ k \in {f[2], f[3]}
      BY <1>1, <3>1, <3>3
    <3>. QED
      BY <3>1, <3>3, <3>4, AskedIs
  <2>2. CASE w.body # Gone
    <3>1. /\ Flip(a.keys[w.id].groups, w.body.groups) \subseteq e.groups
          /\ w.body.revoked # a.keys[w.id].revoked => e.action = "revoke"
      BY <2>2 DEF KeyAsked
    <3>2. \/ f[1] = "key" /\ f[2] = w.id /\ a.keys[w.id].revoked # w.body.revoked
          \/ \E g \in Flip(a.keys[w.id].groups, w.body.groups) : f = <<"keygroup", g, w.id>>
      BY <1>1, <1>2, <2>2, EditorIsNot, KeyPutChanges DEF Says
    <3>3. CASE f[1] = "key" /\ f[2] = w.id /\ a.keys[w.id].revoked # w.body.revoked
      BY <1>1, <3>1, <3>3, AskedIs
    <3>4. CASE \E g \in Flip(a.keys[w.id].groups, w.body.groups) : f = <<"keygroup", g, w.id>>
      <4>1. f[1] = "keygroup" /\ f[2] \in e.groups /\ f[3] = w.id
        BY <3>1, <3>4, ThreeAre
      <4>. QED
        BY <1>1, <4>1, AskedIs
    <3>. QED
      BY <3>2, <3>3, <3>4
  <2>. QED
    BY <2>1, <2>2
<1>. QED
  BY <1>2 DEF Explained

LEMMA KeyBodyIs ==
  ASSUME NEW fresh, NEW groups, NEW revoke
  PROVE  /\ KeyBody(fresh, groups, revoke).groups = groups
         /\ KeyBody(fresh, groups, revoke) # Gone
         /\ KeyBody(fresh, groups, revoke).revoked = (fresh.revoked \/ revoke)
<1>. DEFINE yes == fresh.revoked \/ revoke
<1>1. KeyBody(fresh, groups, revoke) = [groups |-> groups, revoked |-> yes]
  BY DEF KeyBody
<1>. HIDE DEF yes
<1>2. /\ KeyBody(fresh, groups, revoke).groups = groups /\ KeyBody(fresh, groups, revoke) # Gone
      /\ KeyBody(fresh, groups, revoke).revoked = yes
  BY <1>1, NotGone
<1>. QED
  BY <1>2 DEF yes

LEMMA KeysAsked ==
  ASSUME NEW r, NEW q, NEW a, NEW k, NEW job, job[1] = "key", job[2] = k,
         KeysValid(a), k \in DOMAIN a.keys, FormOf(q.make),
         (q.make.kind = "key" /\ k = q.make.id) \/ (q.make.kind = "bulk" /\ k \in q.make.keys),
         NEW w \in Writes(r, q, job, a), w.body # Bad
  PROVE  KeyAsked(w, q.make, a)
<1>. DEFINE e == q.make
            now == a.keys[k]
<1>1. k \in e.keys /\ now.revoked \in BOOLEAN
  BY DEF FormOf, KeysValid
<1>2. CASE e.kind = "bulk"
  <2>1. w \in BulkWrites(e, k, a) /\ e.action \in {"revoke", "delete"}
    BY <1>2, WritesBy DEF FormOf
  <2>2. /\ w.type = "keys" /\ w.id = k
        /\ \/ e.action = "delete" /\ w.body = Gone /\ now.revoked
           \/ e.action = "revoke" /\ w.body = RevokedKey(now)
    BY <2>1, BulkWritesAre DEF IsTo
  <2>3. RevokedKey(now).groups = now.groups /\ RevokedKey(now) # Gone
    <3>. DEFINE yes == TRUE
    <3>1. RevokedKey(now) = KeyBody(now, now.groups, yes)
      BY DEF RevokedKey
    <3>. HIDE DEF yes, now
    <3>2. KeyBody(now, now.groups, yes).groups = now.groups /\ KeyBody(now, now.groups, yes) # Gone
      BY KeyBodyIs
    <3>. QED
      BY <3>1, <3>2
  <2>4. Flip(now.groups, now.groups) = {}
    BY DEF Flip
  <2>. QED
    BY <1>1, <2>2, <2>3, <2>4 DEF KeyAsked
<1>3. CASE e.kind = "key" /\ e.action = "delete"
  <2>1. w \in DeleteKeyWrites(k, a)
    BY <1>3, WritesBy
  <2>2. w.type = "keys" /\ w.id = k /\ w.body = Gone /\ now.revoked
    BY <2>1, DeleteKeyWritesAre DEF IsTo
  <2>. QED
    BY <1>1, <1>3, <2>2 DEF KeyAsked
<1>4. CASE e.kind = "key" /\ e.action # "delete"
  <2>. DEFINE chosen == Chosen(e, q.page.keys[k].groups, now.groups, q.snap)
              yes == e.action = "revoke"
              body == KeyBody(now, chosen, yes)
  <2>1. w \in KeyWrites(e, q.page, q.snap, k, a)
    BY <1>4, WritesBy
  <2>2. w.type = "keys" /\ w.id = k /\ w.body = body
    BY <2>1, KeyWritesAre DEF IsTo
  <2>3. Flip(now.groups, chosen) \subseteq e.groups
    BY ChosenFlips
  <2>. HIDE DEF chosen, yes
  <2>4. body.groups = chosen /\ body # Gone /\ body.revoked = (now.revoked \/ yes)
    BY KeyBodyIs
  <2>5. body.revoked # now.revoked => e.action = "revoke"
    <3>1. ASSUME ~yes
          PROVE  (now.revoked \/ yes) = now.revoked
      BY <1>1, <3>1, Zenon
    <3>. QED
      BY <2>4, <3>1 DEF yes
  <2>. HIDE DEF body
  <2>. QED
    BY <1>1, <2>2, <2>3, <2>4, <2>5 DEF KeyAsked
<1>. QED
  BY <1>2, <1>3, <1>4

(* Networks, routers and what is restored: the object itself.              *)
LEMMA OwnExplained ==
  ASSUME NEW r \in Editors, NEW q, NEW a, NEW w, ValidAccount(a), ValidWrite(w), w.body # Gone,
         \/ w.type \in {"nets", "routers"} /\ q.make.kind \in {"net", "router"}
         \/ w.type \in {"groups", "policies"} /\ q.make.kind = "restore",
         w.id = q.make.id
  PROVE  Explained(r, q, w, a)
<1>1. ASSUME NEW f, Accepts(a, w), Changed(f, a, w, r)
      PROVE  Asked(r, q, f, a)
  <2>1. Says(f, 2, w.id)
    BY <1>1, EditorIsNot, NetPutChanges, RouterChanges, GroupPutChanges, PolicyPutChanges
  <2>. QED
    BY <2>1, AskedIs DEF Says
<1>. QED
  BY <1>1 DEF Explained

(* A resource: its settings, and the groups that hold it.                  *)
LEMMA ResourceExplained ==
  ASSUME NEW r \in Editors, NEW q, NEW a, NEW w, ValidAccount(a), ValidWrite(w), w.body # Gone,
         w.type = "resources", w.id = q.make.id, q.make.kind = "resource"
  PROVE  Explained(r, q, w, a)
<1>1. ASSUME NEW f, Accepts(a, w), Changed(f, a, w, r)
      PROVE  Asked(r, q, f, a)
  <2>1. \/ f[1] = "resource" /\ Says(f, 2, w.id)
        \/ f[1] = "holds" /\ Says(f, 3, w.id)
    BY <1>1, EditorIsNot, ResourcePutChanges
  <2>. QED
    BY <2>1, AskedIs DEF Says
<1>. QED
  BY <1>1 DEF Explained

(* A deletion: the object, and what refers to it.                          *)
GoneSet(e, a) ==
  {e.id} \cup (IF e.type = "nets"
               THEN ResourcesIn(a, e.id) \cup DOMAIN a.nets[e.id].routers ELSE {})

LEMMA GoesWithIs ==
  ASSUME NEW e, NEW f, NEW a, GoneWith(f, a, GoneSet(e, a))
  PROVE  GoesWith(e, f, a)
<1>. DEFINE gone == GoneSet(e, a)
            refers(i) == \E x \in a.policies[i].rules : {x.srcRef, x.dstRef} \cap gone # {}
<1>1. GoesWith(e, f, a) <=> \/ \E n \in DOMAIN f : f[n] \in gone
                            \/ f[1] \in {"rule", "hidden"} /\ refers(f[2])
  BY DEF GoesWith, GoneSet
<1>. HIDE DEF gone
<1>2. CASE \E z \in gone : Says(f, 2, z) \/ Says(f, 3, z)
  BY <1>1, <1>2 DEF Says
<1>3. CASE RefersToGone(f, a, gone)
  BY <1>1, <1>3 DEF RefersToGone, Says
<1>. QED
  BY <1>2, <1>3 DEF GoneWith, gone

LEMMA DeleteExplained ==
  ASSUME NEW r \in Editors, NEW q, NEW a, NEW w, ValidAccount(a), ValidWrite(w),
         q.make.kind = "delete", w = Removal(q.make), FormOf(q.make)
  PROVE  Explained(r, q, w, a)
<1>. DEFINE e == q.make
            gone == GoneSet(e, a)
<1>1. e.type \in {"groups", "peers", "policies", "nets", "resources", "routers"}
  BY DEF FormOf
<1>2. w.type = e.type /\ w.id = e.id /\ w.body = Gone
  BY <1>1, RemovalIs
<1>3. /\ e.type # "nets" => gone = {e.id}
      /\ e.type = "nets" => gone = {e.id} \cup ResourcesIn(a, e.id) \cup DOMAIN a.nets[e.id].routers
  BY DEF GoneSet
<1>. HIDE DEF gone
<1>4. ASSUME NEW f, Accepts(a, w), Changed(f, a, w, r)
      PROVE  Asked(r, q, f, a)
  <2>1. r # None
    BY EditorIsNot
  <2>2. ASSUME e.type = "peers"
        PROVE  GoneWith(f, a, gone)
    BY <1>2, <1>3, <1>4, <2>1, <2>2, PeerGoneChanges
  <2>3. ASSUME e.type = "resources"
        PROVE  GoneWith(f, a, gone)
    BY <1>2, <1>3, <1>4, <2>1, <2>3, ResourceGoneChanges
  <2>4. ASSUME e.type = "nets"
        PROVE  GoneWith(f, a, gone)
    BY <1>2, <1>3, <1>4, <2>1, <2>4, NetworkGoneChanges
  <2>5. ASSUME e.type \in {"groups", "policies", "routers"}
        PROVE  GoneWith(f, a, gone)
    <3>1. Says(f, 2, e.id)
      BY <1>2, <1>4, <2>1, <2>5, GroupGoneChanges, RouterChanges
    <3>. QED
      BY <1>3, <2>5, <3>1 DEF GoneWith
  <2>6. GoneWith(f, a, gone)
    BY <1>1, <2>2, <2>3, <2>4, <2>5
  <2>7. GoesWith(e, f, a)
    BY <2>6, GoesWithIs DEF gone
  <2>. QED
    BY <2>7, AskedIs
<1>. QED
  BY <1>4 DEF Explained

-----------------------------------------------------------------------------
(* Policies.                                                               *)

LEMMA SameRulesTrans ==
  ASSUME NEW A, NEW B, NEW C, SameRules(A, B), SameRules(B, C)
  PROVE  SameRules(A, C)
  BY DEF SameRules, SameRule

LEMMA NumberedSame ==
  ASSUME NEW pol, NEW r, ValidPolicy(pol), \A x \in pol.rules : x.id # NoId
  PROVE  SameRules(Numbered(pol, r).rules, pol.rules)
<1>1. /\ \A y \in Numbered(pol, r).rules : \E x \in pol.rules : NumberedRule(y, x, r)
      /\ \A x \in pol.rules : \E y \in Numbered(pol, r).rules : NumberedRule(y, x, r)
  BY NumberedIs
<1>2. \A x \in pol.rules : \A y : NumberedRule(y, x, r) => SameRule(y, x)
  BY DEF NumberedRule, LikeRule, SameRule
<1>. QED
  BY <1>1, <1>2 DEF SameRules

LEMMA ForPutSame ==
  ASSUME NEW pol, ValidPolicy(pol)
  PROVE  SameRules(PolicyForPut(pol).rules, pol.rules)
<1>1. PolicyShape(pol)
  BY ValidIsShape
<1>2. PolicyForPut(pol).rules = {RuleForPut(x) : x \in pol.rules}
  BY <1>1, ForPutValid
<1>3. ASSUME NEW x \in pol.rules
      PROVE  SameRule(RuleForPut(x), x)
  <2>1. /\ \A n \in RuleParts \ {"src", "dst"} : RuleForPut(x)[n] = x[n]
        /\ RuleForPut(x).src = IF x.srcRef = None THEN x.src ELSE {}
        /\ RuleForPut(x).dst = IF x.dstRef = None THEN x.dst ELSE {}
    BY <1>1, RuleForPutIs DEF PolicyShape
  <2>2. (x.srcRef = None \/ x.src = {}) /\ (x.dstRef = None \/ x.dst = {})
    BY DEF ValidPolicy, ValidRule
  <2>. QED
    BY <2>1, <2>2 DEF SameRule, RuleParts
<1>. QED
  BY <1>2, <1>3 DEF SameRules

(* A policy that is saved with its own rules shows and hides what it did.  *)
LEMMA OwnRulesSame ==
  ASSUME NEW pol, NEW p, NEW r, ValidPolicy(pol), ValidPolicy(p),
         \A x \in pol.rules : x.id # NoId,
         p.rules = pol.rules
  PROVE  SameRules(Numbered(PolicyForPut(p), r).rules, pol.rules)
<1>1. SameRules(PolicyForPut(p).rules, p.rules)
  BY ForPutSame
<1>2. ValidPolicy(PolicyForPut(p))
  BY ValidIsShape, ForPutValid
<1>3. \A x \in PolicyForPut(p).rules : x.id # NoId
  BY <1>1 DEF SameRules, SameRule
<1>4. SameRules(Numbered(PolicyForPut(p), r).rules, PolicyForPut(p).rules)
  BY <1>2, <1>3, NumberedSame
<1>. QED
  BY <1>1, <1>4, SameRulesTrans

LEMMA SwitchExplained ==
  ASSUME NEW r \in Editors, NEW q, NEW a, NEW w, NEW p, ValidAccount(a), ValidWrite(w),
         w.type = "policies", w.id = q.make.id, w.body # Gone, w.id \in DOMAIN a.policies,
         w.body = PolicyForPut(p), ValidPolicy(p), p.rules = a.policies[w.id].rules,
         q.make.kind \in {"toggle", "revoke"}
  PROVE  Explained(r, q, w, a)
<1>. DEFINE pol == a.policies[w.id]
            new == Numbered(w.body, r)
<1>1. ValidPolicy(pol) /\ \A x \in pol.rules : x.id # NoId
  BY ValidParts DEF PoliciesValid, PolicyIn
<1>2. SameRules(new.rules, pol.rules)
  BY <1>1, OwnRulesSame
<1>3. ASSUME NEW f, Accepts(a, w), Changed(f, a, w, r)
      PROVE  Asked(r, q, f, a)
  <2>1. PolicyPut(f, w.id, pol, new)
    BY <1>3, EditorIsNot, PolicyPutChanges
  <2>. HIDE DEF pol, new
  <2>2. f[1] = "policy" /\ Says(f, 2, w.id)
    BY <1>2, <2>1, SameRulesShow DEF PolicyPut
  <2>. QED
    BY <2>2, AskedIs DEF Says
<1>. QED
  BY <1>3 DEF Explained

LEMMA ToggleExplained ==
  ASSUME NEW r \in Editors, NEW q, NEW a, NEW w \in ToggleWrites(q.make, a), ValidAccount(a),
         ValidWrite(w), q.make.kind = "toggle", q.make.id \in DOMAIN a.policies
  PROVE  Explained(r, q, w, a)
<1>. DEFINE e == q.make
            pol == a.policies[e.id]
            yes == ~pol.on
            p == [pol EXCEPT !.on = yes]
<1>1. IsTo(w, "policies", e.id) /\ w.body = PolicyForPut(p)
  BY ToggleWritesAre
<1>2. ValidPolicy(pol)
  BY ValidParts DEF PoliciesValid, PolicyIn
<1>. HIDE DEF yes
<1>3. ValidPolicy(p) /\ p.rules = pol.rules
  BY <1>2 DEF ValidPolicy
<1>4. ValidPolicy(w.body)
  BY <1>1, <1>3, ValidIsShape, ForPutValid
<1>5. w.body # Gone
  BY <1>4 DEF ValidPolicy, Gone
<1>. HIDE DEF p
<1>. QED
  BY <1>1, <1>3, <1>5, SwitchExplained DEF IsTo

(* A revoke hides nothing but of its own rule.                             *)
LEMMA HiddenForPut ==
  ASSUME NEW pol, PolicyShape(pol), NEW id, NEW auth, NEW ref
  PROVE  HasHidden(PolicyForPut(pol).rules, id, auth, ref) <=> HasHidden(pol.rules, id, auth, ref)
<1>1. PolicyForPut(pol).rules = {RuleForPut(x) : x \in pol.rules}
  BY ForPutValid
<1>2. ASSUME NEW x \in pol.rules
      PROVE  /\ RuleForPut(x).id = x.id /\ RuleForPut(x).auth = x.auth
             /\ RuleForPut(x).srcRef = x.srcRef
  BY RuleForPutIs DEF PolicyShape, RuleParts
<1>. QED
  BY <1>1, <1>2 DEF HasHidden

LEMMA HiddenNumbered ==
  ASSUME NEW pol, NEW r, ValidPolicy(pol), \A x \in pol.rules : x.id # NoId,
         NEW id, NEW auth, NEW ref
  PROVE  HasHidden(Numbered(pol, r).rules, id, auth, ref) <=> HasHidden(pol.rules, id, auth, ref)
  BY NumberedSame, SameRulesShow

LEMMA RevokedHidden ==
  ASSUME NEW rules, NEW pol, NEW rid, RevokedRules(rules, pol, rid), PolicyShape(pol),
         NEW id, id # rid, NEW auth, NEW ref
  PROVE  HasHidden(rules, id, auth, ref) <=> HasHidden(pol.rules, id, auth, ref)
<1>1. PICK x \in pol.rules :
        /\ x.id = rid
        /\ \A z \in pol.rules \ {x} : z \in rules
        /\ \A y \in rules : y \in pol.rules \ {x} \/ Lessened(y, RuleForPut(x))
  BY DEF RevokedRules
<1>2. RuleForPut(x).id = rid
  BY <1>1, RuleForPutIs DEF PolicyShape, RuleParts
<1>3. \A y : Lessened(y, RuleForPut(x)) => y.id = rid
  BY <1>2 DEF Lessened, RuleParts
<1>. QED
  BY <1>1, <1>3 DEF HasHidden

LEMMA RevokeGone ==
  ASSUME NEW pol, NEW rid, NEW mode, NEW target, PolicyShape(pol),
         Revoke(pol, rid, mode, target) # Bad, Revoke(pol, rid, mode, target) = Gone
  PROVE  mode = "delete" \/ \A x \in pol.rules : x.id = rid
<1>. DEFINE rule == CHOOSE r \in pol.rules : r.id = rid
            side == IF mode = "remove_source" THEN "source" ELSE "destination"
            kept == Without(RuleForPut(rule), side, target)
            rules == (pol.rules \ {rule}) \cup ({kept} \ {None})
            off == [pol EXCEPT !.on = FALSE]
            p == [pol EXCEPT !.rules = rules]
            body == Revoke(pol, rid, mode, target)
<1>1. \E r \in pol.rules : r.id = rid
  BY DEF Revoke
<1>2. rule \in pol.rules /\ rule.id = rid
  BY <1>1
<1>3. \/ mode = "delete"
      \/ body = PolicyForPut(off)
      \/ rules = {}
      \/ kept # Bad /\ body = PolicyForPut(p)
  BY <1>1 DEF Revoke
<1>4. PolicyShape(off)
  BY DEF PolicyShape
<1>5. \A z : PolicyShape(z) => PolicyForPut(z) # Gone
  BY ForPutValid DEF ValidPolicy, Gone
<1>6. kept # Bad => PolicyShape(p)
  <2>1. kept # Bad /\ kept # None => RuleShape(kept)
    <3>1. RuleShape(RuleForPut(rule))
      BY <1>2, RuleForPutIs DEF PolicyShape
    <3>. QED
      BY <3>1, WithoutIs DEF Lessened
  <2>. HIDE DEF kept
  <2>2. kept # Bad => \A y \in rules : RuleShape(y)
    BY <2>1 DEF PolicyShape
  <2>. HIDE DEF rules
  <2>. QED
    BY <2>2 DEF PolicyShape
<1>. HIDE DEF rule, kept, body, side, off, p
<1>7. mode = "delete" \/ rules = {}
  BY <1>3, <1>4, <1>5, <1>6 DEF body
<1>. QED
  BY <1>2, <1>7

LEMMA RevokeExplained ==
  ASSUME NEW r \in Editors, NEW q, NEW a, NEW w \in RevokeWrites(q.make, a), w.body # Bad,
         ValidAccount(a), ValidWrite(w), q.make.kind = "revoke", q.make.id \in DOMAIN a.policies
  PROVE  Explained(r, q, w, a)
<1>. DEFINE e == q.make
            pol == a.policies[e.id]
<1>0. r # None
  BY EditorIsNot
<1>1. /\ w.type = "policies" /\ w.id = e.id
      /\ w.body = Revoke(pol, e.rule, e.mode, e.target)
  BY RevokeWritesAre DEF IsTo
<1>2. ValidPolicy(pol) /\ \A x \in pol.rules : x.id # NoId
  BY ValidParts DEF PoliciesValid, PolicyIn
<1>3. PolicyShape(pol)
  BY <1>2, ValidIsShape
<1>4. CASE w.body = Gone
  <2>1. e.mode = "delete" \/ \A x \in pol.rules : x.id = e.rule
    <3>1. Revoke(pol, e.rule, e.mode, e.target) # Bad /\ Revoke(pol, e.rule, e.mode, e.target) = Gone
      BY <1>1, <1>4
    <3>. HIDE DEF pol, e
    <3>. QED
      BY <1>3, <3>1, RevokeGone
  <2>2. ASSUME NEW f, Accepts(a, w), Changed(f, a, w, r)
        PROVE  Asked(r, q, f, a)
    <3>1. /\ f[1] \in {"policy", "rule", "hidden"} /\ Says(f, 2, e.id)
          /\ HiddenOf(f, pol.rules)
      BY <1>0, <1>1, <1>4, <2>2, PolicyGoneChanges
    <3>. HIDE DEF pol
    <3>2. f[1] = "hidden" => e.mode = "delete" \/ f[3] = e.rule
      BY <2>1, <3>1 DEF HiddenOf, Says
    <3>. QED
      BY <3>1, <3>2, AskedIs DEF Says
  <2>. QED
    BY <2>2 DEF Explained
<1>5. CASE w.body = PolicyForPut([pol EXCEPT !.on = FALSE]) /\ w.body # Gone
  <2>. DEFINE no == FALSE
              p == [pol EXCEPT !.on = no]
  <2>1. w.body = PolicyForPut(p)
    BY <1>5
  <2>. HIDE DEF no
  <2>2. ValidPolicy(p) /\ p.rules = pol.rules
    BY <1>2 DEF ValidPolicy
  <2>. HIDE DEF p
  <2>. QED
    BY <1>1, <1>5, <2>1, <2>2, SwitchExplained
<1>6. ASSUME NEW rules, RevokedRules(rules, pol, e.rule), w.body # Gone,
             w.body = PolicyForPut([pol EXCEPT !.rules = rules])
      PROVE  Explained(r, q, w, a)
  <2>. DEFINE p == [pol EXCEPT !.rules = rules]
              new == Numbered(w.body, r)
  <2>1. \A y \in rules : RuleShape(y) /\ y.id # NoId
    <3>1. PICK x \in pol.rules :
            \A y \in rules : y \in pol.rules \ {x} \/ Lessened(y, RuleForPut(x))
      BY <1>6 DEF RevokedRules
    <3>2. RuleForPut(x).id # NoId
      BY <1>2, <1>3, <3>1, RuleForPutIs DEF PolicyShape, RuleParts
    <3>3. \A y : Lessened(y, RuleForPut(x)) => RuleShape(y) /\ y.id # NoId
      BY <3>2 DEF Lessened, RuleParts
    <3>. QED
      BY <1>2, <1>3, <3>1, <3>3 DEF PolicyShape
  <2>2. PolicyShape(p) /\ p.rules = rules
    BY <1>3, <2>1 DEF PolicyShape
  <2>3. w.body = PolicyForPut(p)
    BY <1>6
  <2>. HIDE DEF p
  <2>4. \A id, auth, ref : HasHidden(w.body.rules, id, auth, ref) <=> HasHidden(rules, id, auth, ref)
    BY <2>2, <2>3, HiddenForPut
  <2>5. ValidPolicy(w.body)
    BY <2>2, <2>3, ForPutValid
  <2>6. \A x \in w.body.rules : x.id # NoId
    <3>1. \A x \in w.body.rules : HasHidden(w.body.rules, x.id, x.auth, x.srcRef)
      BY DEF HasHidden
    <3>2. \A x \in w.body.rules : HasHidden(rules, x.id, x.auth, x.srcRef)
      BY <2>4, <3>1
    <3>. QED
      BY <2>1, <3>2 DEF HasHidden
  <2>7. \A id, auth, ref : id # e.rule =>
          (HasHidden(new.rules, id, auth, ref) <=> HasHidden(pol.rules, id, auth, ref))
    BY <1>3, <1>6, <2>4, <2>5, <2>6, HiddenNumbered, RevokedHidden
  <2>8. ASSUME NEW f, Accepts(a, w), Changed(f, a, w, r)
        PROVE  Asked(r, q, f, a)
    <3>1. PolicyPut(f, w.id, pol, new)
      BY <1>0, <1>1, <1>6, <2>8, PolicyPutChanges
    <3>. HIDE DEF pol, new
    <3>2. f[2] = e.id /\ (f[1] \in {"policy", "rule"} \/ (f[1] = "hidden" /\ f[3] = e.rule))
      BY <1>1, <2>7, <3>1 DEF PolicyPut, Says
    <3>. QED
      BY <3>2, AskedIs
  <2>. QED
    BY <2>8 DEF Explained
<1>7. \/ w.body = Gone
      \/ w.body = PolicyForPut([pol EXCEPT !.on = FALSE])
      \/ \E rules : /\ RevokedRules(rules, pol, e.rule)
                    /\ w.body = PolicyForPut([pol EXCEPT !.rules = rules])
  <2>1. Revoke(pol, e.rule, e.mode, e.target) # Bad
    BY <1>1
  <2>. HIDE DEF pol, e
  <2>2. \/ Revoke(pol, e.rule, e.mode, e.target) = Gone
        \/ /\ e.mode = "disable"
           /\ Revoke(pol, e.rule, e.mode, e.target) = PolicyForPut([pol EXCEPT !.on = FALSE])
        \/ \E rules : /\ RevokedRules(rules, pol, e.rule)
                      /\ Revoke(pol, e.rule, e.mode, e.target) = PolicyForPut([pol EXCEPT !.rules = rules])
    BY ONLY <1>3, <2>1, RevokeIs
  <2>. QED
    BY ONLY <1>1, <2>2
<1>. QED
  BY <1>4, <1>5, <1>6, <1>7

(* What a form makes of its rules, and what NetBird's rules add to them.   *)
LEMMA FormRules ==
  ASSUME NEW form, PolicyFromForm(form) # Bad
  PROVE  /\ PolicyFromForm(form).rules = {BuildRule(x) : x \in form.rules}
         /\ \A x \in form.rules : BuildRule(x).id = x.id /\ BuildRule(x).srcRef = None
<1>. DEFINE rules == {BuildRule(x) : x \in form.rules}
            pol == [conf |-> form.conf, on |-> form.on, posture |-> form.posture, rules |-> rules]
<1>1. PolicyFromForm(form) = pol /\ Bad \notin rules
  BY DEF PolicyFromForm
<1>2. ASSUME NEW x \in form.rules
      PROVE  BuildRule(x).id = x.id /\ BuildRule(x).srcRef = None
  <2>1. BuildRule(x) # Bad
    BY <1>1
  <2>. QED
    BY <2>1 DEF BuildRule
<1>. HIDE DEF rules
<1>3. PolicyFromForm(form).rules = rules
  BY <1>1
<1>. QED
  BY <1>2, <1>3 DEF rules

LEMMA ShownRules ==
  ASSUME NEW e, NEW page, \A x \in e.more : x.id = NoId
  PROVE  /\ \A x \in page.policies[e.id].rules : \E y \in PolicyForm(e, page).rules : y.id = x.id
         /\ \A y \in PolicyForm(e, page).rules :
              y.id = NoId \/ \E x \in page.policies[e.id].rules : y.id = x.id
<1>. DEFINE pol == page.policies[e.id]
            shown(x) == [EditorRule(x) EXCEPT !.src = Flip(@, e.src), !.tokens = Or(e.tokens, @)]
<1>1. PolicyForm(e, page).rules = {shown(x) : x \in pol.rules} \cup e.more
  BY DEF PolicyForm
<1>2. \A x : shown(x).id = x.id
  BY DEF EditorRule
<1>. HIDE DEF shown, pol
<1>. QED
  BY <1>1, <1>2 DEF pol

(* A rule with the fields of the one that has its id.                      *)
Carried(y, x, before) ==
  /\ RuleShape(y) /\ y.id = x.id
  /\ \A b \in before.rules :
       b.id = x.id /\ x.id # NoId /\ x.srcRef = None => y.auth = b.auth /\ y.srcRef = b.srcRef

LEMMA CarryOverIs ==
  ASSUME NEW before, NEW body, ValidPolicy(body), Apart(before.rules)
  PROVE  /\ \A y \in CarryOver(before, body).rules : \E x \in body.rules : Carried(y, x, before)
         /\ \A x \in body.rules : \E y \in CarryOver(before, body).rules : Carried(y, x, before)
<1>. DEFINE prev(x) == {b \in before.rules : b.id = x.id /\ x.id # NoId}
            auth(x) == UNION {b.auth : b \in prev(x)}
            direct(x) == {b.srcRef : b \in prev(x)} \ {None}
            new(x) == [x EXCEPT !.auth = auth(x),
                         !.src = IF direct(x) = {} THEN @ ELSE {},
                         !.srcRef = IF direct(x) = {} THEN @ ELSE CHOOSE z \in direct(x) : TRUE]
            rules == {new(x) : x \in body.rules}
<1>1. CarryOver(before, body) = [body EXCEPT !.rules = rules]
  BY DEF CarryOver
<1>2. ASSUME NEW x \in body.rules
      PROVE  Carried(new(x), x, before)
  <2>1. ValidRule(x)
    BY DEF ValidPolicy
  <2>. DEFINE ref == IF direct(x) = {} THEN x.srcRef ELSE CHOOSE z \in direct(x) : TRUE
  <2>2. ASSUME NEW b \in before.rules, b.id = x.id, x.id # NoId, x.srcRef = None
        PROVE  auth(x) = b.auth /\ ref = b.srcRef
    <3>1. prev(x) = {b}
      BY <2>2 DEF Apart
    <3>2. auth(x) = b.auth
      BY <3>1
    <3>3. direct(x) = {b.srcRef} \ {None}
      BY <3>1
    <3>. HIDE DEF direct, prev
    <3>4. CASE b.srcRef = None
      <4>1. direct(x) = {}
        BY <3>3, <3>4
      <4>2. ref = x.srcRef
        BY <4>1
      <4>. QED
        BY <2>2, <3>2, <3>4, <4>2
    <3>5. CASE b.srcRef # None
      <4>1. direct(x) = {b.srcRef}
        BY <3>3, <3>5
      <4>2. ref = CHOOSE z \in {b.srcRef} : TRUE
        BY <4>1
      <4>3. \A z \in {b.srcRef} : z = b.srcRef
        OBVIOUS
      <4>4. (CHOOSE z \in {b.srcRef} : TRUE) = b.srcRef
        BY <4>3
      <4>. QED
        BY <3>2, <4>2, <4>4
    <3>. QED
      BY <3>4, <3>5
  <2>. HIDE DEF auth, direct
  <2>3. /\ RuleShape(new(x)) /\ new(x).id = x.id /\ new(x).auth = auth(x)
        /\ new(x).srcRef = ref
    BY <2>1 DEF ValidRule, RuleShape, RuleParts
  <2>. HIDE DEF new, ref
  <2>. QED
    BY <2>2, <2>3 DEF Carried
<1>. HIDE DEF new
<1>3. /\ \A y \in rules : \E x \in body.rules : Carried(y, x, before)
      /\ \A x \in body.rules : \E y \in rules : Carried(y, x, before)
  BY <1>2
<1>. HIDE DEF rules
<1>. QED
  BY <1>1, <1>3 DEF ValidPolicy

(* A policy that is edited: of the rules that it has and the page showed,  *)
(* what the editor does not show stays.                                    *)
LEMMA PolicyExplained ==
  ASSUME NEW r \in Editors, NEW q, NEW a, NEW w \in PolicyWrites(q.make, q.page, a),
         w.body # Bad, ValidAccount(a), ValidWrite(w), q.make.kind = "policy", FormOf(q.make),
         q.make.id \in DOMAIN a.policies, Apart(a.policies[q.make.id].rules),
         MadeByOthers(q.page.policies[q.make.id].rules, {r})
  PROVE  Explained(r, q, w, a)
<1>. DEFINE e == q.make
            pol == a.policies[e.id]
            form == PolicyForm(e, q.page)
            body == PolicyFromForm(form)
            seen == q.page.policies[e.id].rules
            new == Numbered(w.body, r)
<1>0. r # None
  BY EditorIsNot
<1>1. w.type = "policies" /\ w.id = e.id /\ body # Bad /\ w.body = CarryOver(pol, body)
  BY PolicyWritesAre DEF IsTo
<1>2. \A x \in pol.rules : x.id # NoId
  BY ValidParts DEF PoliciesValid, PolicyIn
<1>3. /\ ValidPolicy(body) /\ ValidPolicy(w.body)
      /\ body.rules = {BuildRule(x) : x \in form.rules}
      /\ \A x \in form.rules : BuildRule(x).id = x.id /\ BuildRule(x).srcRef = None
  BY <1>1, FormPolicyValid, CarryOverValid, FormRules
<1>4. \A x \in seen : \E y \in form.rules : y.id = x.id
  BY ShownRules DEF FormOf
<1>5. Apart(pol.rules) /\ MadeByOthers(seen, {r})
  OBVIOUS
<1>6. w.body # Gone
  BY <1>3 DEF ValidPolicy, Gone
<1>. HIDE DEF pol, form, body, seen, new
<1>7. /\ \A y \in w.body.rules : \E x \in body.rules : Carried(y, x, pol)
      /\ \A x \in body.rules : \E y \in w.body.rules : Carried(y, x, pol)
  BY <1>1, <1>3, <1>5, CarryOverIs
<1>8. /\ \A z \in new.rules : \E y \in w.body.rules : NumberedRule(z, y, r)
      /\ \A y \in w.body.rules : \E z \in new.rules : NumberedRule(z, y, r)
  BY <1>3, NumberedIs DEF new
<1>9. \A x \in body.rules : x.srcRef = None
  BY <1>3
<1>10. \A x \in seen : \E y \in body.rules : y.id = x.id
  BY <1>3, <1>4
<1>11. ASSUME NEW id, NEW b \in pol.rules, b.id = id, NEW s \in seen, s.id = id
       PROVE  /\ \A z \in new.rules : z.id = id => z.auth = b.auth /\ z.srcRef = b.srcRef
              /\ \E z \in new.rules : z.id = id /\ z.auth = b.auth /\ z.srcRef = b.srcRef
  <2>1. id # NoId /\ id[1] # r
    BY <1>2, <1>5, <1>11 DEF MadeByOthers
  <2>2. ASSUME NEW z \in new.rules, z.id = id
        PROVE  z.auth = b.auth /\ z.srcRef = b.srcRef
    <3>1. PICK y \in w.body.rules : NumberedRule(z, y, r)
      BY <1>8
    <3>2. z.id = (IF y.id = NoId THEN <<r, y>> ELSE y.id) /\ z.auth = y.auth /\ z.srcRef = y.srcRef
      BY <3>1 DEF NumberedRule, LikeRule
    <3>3. <<r, y>>[1] = r
      OBVIOUS
    <3>4. y.id = id
      BY <2>1, <2>2, <3>2, <3>3
    <3>5. PICK x \in body.rules : Carried(y, x, pol)
      BY <1>7
    <3>6. y.auth = b.auth /\ y.srcRef = b.srcRef
      BY <1>9, <1>11, <2>1, <3>4, <3>5 DEF Carried
    <3>. QED
      BY <3>2, <3>6
  <2>3. PICK x \in body.rules : x.id = id
    BY <1>10, <1>11
  <2>4. PICK y \in w.body.rules : Carried(y, x, pol)
    BY <1>7
  <2>5. PICK z \in new.rules : NumberedRule(z, y, r)
    BY <1>8
  <2>6. z.id = id
    BY <2>1, <2>3, <2>4, <2>5 DEF Carried, NumberedRule
  <2>. QED
    BY <2>2, <2>6
<1>12. ASSUME NEW id, NEW b \in pol.rules, b.id = id, NEW s \in seen, s.id = id, NEW auth, NEW ref
       PROVE  HasHidden(new.rules, id, auth, ref) <=> HasHidden(pol.rules, id, auth, ref)
  <2>1. \A x \in pol.rules : x.id = id => x = b
    BY <1>5, <1>12 DEF Apart
  <2>. QED
    BY <1>11, <1>12, <2>1 DEF HasHidden
<1>13. OldIds(q, a) = {x.id : x \in seen} \cap {x.id : x \in pol.rules}
  BY DEF OldIds, seen, pol
<1>14. ASSUME NEW f, Accepts(a, w), Changed(f, a, w, r)
       PROVE  Asked(r, q, f, a)
  <2>1. PolicyPut(f, w.id, pol, new)
    <3>1. w.id \in DOMAIN a.policies /\ pol = a.policies[w.id]
      BY <1>1 DEF pol
    <3>. QED
      BY <1>0, <1>1, <1>6, <1>14, <3>1, PolicyPutChanges DEF new
  <2>2. f[2] = e.id /\ (f[1] \in {"policy", "rule"} \/ (f[1] = "hidden" /\ f[3] \notin OldIds(q, a)))
    BY <1>1, <1>12, <1>13, <2>1 DEF PolicyPut, Says
  <2>. QED
    BY <2>2, AskedIs
<1>. QED
  BY <1>14 DEF Explained

-----------------------------------------------------------------------------
(* Every job, with what it needs to know of the ids of rules.              *)

RulesApart(a) == \A i \in DOMAIN a.policies : Apart(a.policies[i].rules)

(* The rules that a policy form shows, and those of a body.                *)
PageRules(q) ==
  IF q.pc # "none" /\ q.make.kind = "policy" THEN q.page.policies[q.make.id].rules ELSE {}

PlannedRules(w) == IF w.type = "policies" /\ w.body # Gone THEN w.body.rules ELSE {}

(* The writes of a job, one or several, each as long as nobody else wrote. *)
Distinct(plan) == \A w, v \in plan : w.id = v.id => w = v

AtMostOne(S) == \A w, v \in S : w = v

PlanFits(r, q, a) ==
  \/ AtMostOne(q.plan) /\ \A w \in q.plan : Explained(r, q, w, a)
  \/ Distinct(q.plan) /\ \A w \in q.plan : UsersFit(r, q.make, w, a)
  \/ Distinct(q.plan) /\ \A w \in q.plan : AlignFit(q.make, w, a)

OneJob(job) == job[1] \notin {"users", "align"}

LEMMA AtMostOneIs ==
  ASSUME NEW S, NEW x, S \subseteq {x}
  PROVE  AtMostOne(S)
  BY DEF AtMostOne

LEMMA OneOfEach ==
  ASSUME NEW r, NEW e, NEW page, NEW snap, NEW k, NEW a
  PROVE  /\ AtMostOne(GroupWrites(e, page, a)) /\ AtMostOne(UserWrites(e, page, snap, a))
         /\ AtMostOne(SettingsWrites(e, a)) /\ AtMostOne(MemberWrites(e, page, snap, k, a))
         /\ AtMostOne(PolicyWrites(e, page, a)) /\ AtMostOne(ToggleWrites(e, a))
         /\ AtMostOne(RevokeWrites(e, a)) /\ AtMostOne(BulkWrites(e, k, a))
         /\ AtMostOne(KeyWrites(e, page, snap, k, a)) /\ AtMostOne(DeleteKeyWrites(k, a))
         /\ AtMostOne(NetWrites(e, a)) /\ AtMostOne(ResourceWrites(e, page, a))
         /\ AtMostOne(RouterWrites(e, a)) /\ AtMostOne(RestoreWrites(r, e, snap))
<1>1. AtMostOne(GroupWrites(e, page, a))
  <2>. DEFINE x == IF e.id = AllGroup THEN To("groups", e.id, Bad)
                   ELSE To("groups", e.id, GroupBody(e.named, FormPeers(e, page), a.groups[e.id].resources))
  <2>1. GroupWrites(e, page, a) \subseteq {x}
    BY DEF GroupWrites
  <2>. QED
    BY ONLY <2>1, AtMostOneIs
<1>2. AtMostOne(UserWrites(e, page, snap, a))
  <2>. DEFINE x == To("users", e.id, UserBody(a.users[e.id], UserWant(e, page, snap, a), e.role, e.blocked))
  <2>1. UserWrites(e, page, snap, a) \subseteq {x}
    BY DEF UserWrites
  <2>. QED
    BY ONLY <2>1, AtMostOneIs
<1>3. AtMostOne(SettingsWrites(e, a))
  <2>. DEFINE x == To("peers", e.id, PeerBody(a.peers[e.id], e.conf, FALSE))
  <2>1. SettingsWrites(e, a) \subseteq {x}
    BY DEF SettingsWrites
  <2>. QED
    BY ONLY <2>1, AtMostOneIs
<1>4. AtMostOne(MemberWrites(e, page, snap, k, a))
  <2>. DEFINE joins == k \in Chosen(e, PeerPage(page, e.id), snap.peers[e.id].groups, snap)
              old == a.groups[k].peers
              new == IF joins THEN old \cup {e.id} ELSE old \ {e.id}
              x == To("groups", k, GroupBody(TRUE, new, a.groups[k].resources))
  <2>1. MemberWrites(e, page, snap, k, a) \subseteq {x}
    BY DEF MemberWrites
  <2>. QED
    BY ONLY <2>1, AtMostOneIs
<1>5. AtMostOne(PolicyWrites(e, page, a))
  <2>. DEFINE body == PolicyFromForm(PolicyForm(e, page))
              x == To("policies", e.id, IF body = Bad THEN Bad ELSE CarryOver(a.policies[e.id], body))
  <2>1. PolicyWrites(e, page, a) \subseteq {x}
    BY DEF PolicyWrites
  <2>. QED
    BY ONLY <2>1, AtMostOneIs
<1>6. AtMostOne(ToggleWrites(e, a))
  <2>. DEFINE x == To("policies", e.id, PolicyForPut([a.policies[e.id] EXCEPT !.on = ~@]))
  <2>1. ToggleWrites(e, a) \subseteq {x}
    BY DEF ToggleWrites
  <2>. QED
    BY ONLY <2>1, AtMostOneIs
<1>7. AtMostOne(RevokeWrites(e, a))
  <2>. DEFINE x == To("policies", e.id, Revoke(a.policies[e.id], e.rule, e.mode, e.target))
  <2>1. RevokeWrites(e, a) \subseteq {x}
    BY DEF RevokeWrites
  <2>. QED
    BY ONLY <2>1, AtMostOneIs
<1>8. AtMostOne(BulkWrites(e, k, a))
  <2>. DEFINE x == To("keys", k, IF e.action = "delete" THEN Gone ELSE KeyBody(a.keys[k], a.keys[k].groups, TRUE))
  <2>1. BulkWrites(e, k, a) \subseteq {x}
    BY DEF BulkWrites
  <2>. QED
    BY ONLY <2>1, AtMostOneIs
<1>9. AtMostOne(KeyWrites(e, page, snap, k, a))
  <2>. DEFINE x == To("keys", k, KeyBody(a.keys[k], Chosen(e, page.keys[k].groups, a.keys[k].groups, snap),
                                  e.action = "revoke"))
  <2>1. KeyWrites(e, page, snap, k, a) \subseteq {x}
    BY DEF KeyWrites
  <2>. QED
    BY ONLY <2>1, AtMostOneIs
<1>10. AtMostOne(DeleteKeyWrites(k, a))
  <2>. DEFINE x == To("keys", k, IF a.keys[k].revoked THEN Gone ELSE Bad)
  <2>1. DeleteKeyWrites(k, a) \subseteq {x}
    BY DEF DeleteKeyWrites
  <2>. QED
    BY ONLY <2>1, AtMostOneIs
<1>11. AtMostOne(NetWrites(e, a))
  <2>. DEFINE x == To("nets", e.id, NetBody(e.conf))
  <2>1. NetWrites(e, a) \subseteq {x}
    BY DEF NetWrites
  <2>. QED
    BY ONLY <2>1, AtMostOneIs
<1>12. AtMostOne(ResourceWrites(e, page, a))
  <2>. DEFINE x == Write("resources", e.id, e.net, ResourceBody(e.net, e.conf, ResourceGroups(e, page)), FALSE)
  <2>1. ResourceWrites(e, page, a) \subseteq {x}
    BY DEF ResourceWrites
  <2>. QED
    BY ONLY <2>1, AtMostOneIs
<1>13. AtMostOne(RouterWrites(e, a))
  <2>. DEFINE x == Write("routers", e.id, e.net, RouterBody(e.peer, e.groups, TRUE), FALSE)
  <2>1. RouterWrites(e, a) \subseteq {x}
    BY DEF RouterWrites
  <2>. QED
    BY ONLY <2>1, AtMostOneIs
<1>14. AtMostOne(RestoreWrites(r, e, snap))
  <2>. DEFINE x == IF e.id \in (IF e.type = "policies" THEN DOMAIN snap.policies ELSE DOMAIN snap.groups)
                   THEN To(e.type, e.id, RestoreBody(e, snap))
                   ELSE Write(e.type, r, None, RestoreBody(e, snap), TRUE)
  <2>1. RestoreWrites(r, e, snap) \subseteq {x}
    BY DEF RestoreWrites
  <2>. QED
    BY ONLY <2>1, AtMostOneIs
<1>. QED
  BY <1>1, <1>2, <1>3, <1>4, <1>5, <1>6, <1>7, <1>8, <1>9, <1>10, <1>11, <1>12, <1>13, <1>14

LEMMA OneWrite ==
  ASSUME NEW r, NEW q, NEW job, NEW a, JobOf(r, q.make, job), OneJob(job)
  PROVE  AtMostOne(Writes(r, q, job, a))
<1>1. CASE job[1] \in {"group", "user", "settings", "member"}
  BY <1>1, WritesBy, OneOfEach
<1>2. CASE job[1] \in {"policy", "toggle", "revoke"}
  BY <1>2, WritesBy, OneOfEach
<1>3. CASE job[1] = "key"
  BY <1>3, WritesBy, OneOfEach
<1>4. CASE job[1] \in {"net", "resource", "router", "restore"}
  BY <1>4, WritesBy, OneOfEach
<1>5. CASE job[1] \in {"delete", "post"}
  <2>1. Writes(r, q, job, a) \subseteq {Removal(q.make)} \/ Writes(r, q, job, a) \subseteq {Post(r, q.make)}
    BY <1>5, WritesBy
  <2>. QED
    BY ONLY <2>1, AtMostOneIs
<1>. QED
  BY <1>1, <1>2, <1>3, <1>4, <1>5, JobIs DEF OneJob

LEMMA UsersDistinct ==
  ASSUME NEW e, NEW page, NEW a, NEW gid
  PROVE  Distinct(UsersWrites(e, page, a, gid))
<1>. DEFINE pick == Picked(e, page, gid)
            new(u) == IF u \in pick.added THEN a.users[u].auto \cup {gid} ELSE a.users[u].auto \ {gid}
            of(u) == To("users", u, UserBody(a.users[u], new(u), Same, Same))
            S == {x \in (pick.added \cup pick.removed) \cap DOMAIN a.users : new(x) # a.users[x].auto}
<1>1. UsersWrites(e, page, a, gid) = {of(u) : u \in S}
  BY DEF UsersWrites
<1>2. \A u : of(u).id = u
  BY ToIs DEF IsTo
<1>. HIDE DEF of, S
<1>. QED
  BY <1>1, <1>2 DEF Distinct

LEMMA AlignDistinct ==
  ASSUME NEW e, NEW snap, NEW want, NEW a
  PROVE  Distinct(AlignWrites(e, snap, want, a))
<1>. DEFINE changes == Alignment([g \in DOMAIN a.groups |-> a.groups[g].peers],
                           ManagedGroups(snap) \cap DOMAIN a.groups, OwnAligned(e, snap), want)
            of(g) == To("groups", g, GroupBody(TRUE, changes[g], a.groups[g].resources))
            S == DOMAIN changes
<1>1. AlignWrites(e, snap, want, a) = {of(g) : g \in S}
  BY DEF AlignWrites
<1>2. \A g : of(g).id = g
  <2>1. \A g, x : To("groups", g, x).id = g
    BY ToIs DEF IsTo
  <2>. HIDE DEF changes
  <2>. QED
    BY <2>1
<1>. HIDE DEF of, S
<1>. QED
  BY <1>1, <1>2 DEF Distinct

(* What a POST makes is an object.                                         *)
LEMMA PostedIsThere ==
  ASSUME NEW e, FormOf(e), Posted(e) # Bad,
         e.kind \in {"new group", "new policy", "allow", "new key", "new net", "new resource",
                     "new router"}
  PROVE  Posted(e) # Gone /\ e.type \notin {"users", "peers"}
<1>1. e.type \notin {"users", "peers"}
  BY DEF FormOf
<1>2. CASE e.kind = "new group"
  <2>1. Posted(e) = [peers |-> e.peers, resources |-> {}]
    <3>1. Posted(e) = GroupBody(e.named, e.peers, {})
      BY <1>2 DEF Posted, NewGroup
    <3>. QED
      BY <3>1 DEF GroupBody
  <2>. QED
    BY ONLY <1>1, <2>1, NotGone
<1>3. CASE e.kind \in {"new policy", "allow"}
  <2>1. ValidPolicy(Posted(e))
    BY <1>3, FormPolicyValid DEF Posted, NewPolicy, Allowed, AllowPolicy
  <2>2. "conf" \in DOMAIN Posted(e)
    BY <2>1 DEF ValidPolicy
  <2>. QED
    BY ONLY <1>1, <2>2, NotGone
<1>4. CASE e.kind = "new key"
  <2>1. Posted(e) = [groups |-> e.groups, revoked |-> FALSE]
    <3>1. Posted(e) = NewKeyBody(e.days, e.limit, e.groups)
      BY <1>4 DEF Posted, NewKey
    <3>. QED
      BY <3>1 DEF NewKeyBody
  <2>. QED
    BY ONLY <1>1, <2>1, NotGone
<1>5. CASE e.kind = "new net"
  <2>1. Posted(e) = [conf |-> e.conf]
    BY <1>5 DEF Posted, NewNetwork, NetBody
  <2>. QED
    BY ONLY <1>1, <2>1, NotGone
<1>6. CASE e.kind = "new resource"
  <2>1. Posted(e) = [net |-> e.net, conf |-> e.conf, groups |-> e.groups]
    <3>1. Posted(e) = ResourceBody(e.net, e.conf, e.groups)
      BY <1>6 DEF Posted, NewResource
    <3>. QED
      BY <3>1 DEF ResourceBody
  <2>. QED
    BY ONLY <1>1, <2>1, NotGone
<1>7. CASE e.kind = "new router"
  <2>1. Posted(e) = [peer |-> e.peer, groups |-> e.groups, on |-> TRUE]
    <3>1. Posted(e) = RouterBody(e.peer, e.groups, TRUE)
      BY <1>7 DEF Posted, NewRouter
    <3>. QED
      BY <3>1 DEF RouterBody
  <2>. QED
    BY ONLY <1>1, <2>1, NotGone
<1>. QED
  BY <1>2, <1>3, <1>4, <1>5, <1>6, <1>7

(* A restore writes the object of the history, or makes it again.          *)
LEMMA RestoreShape ==
  ASSUME NEW r, NEW e, NEW snap, NEW w \in RestoreWrites(r, e, snap), w.body # Bad,
         e.kind = "restore", FormOf(e)
  PROVE  /\ w.type = e.type /\ w.id \in {e.id, r} /\ e.type \in {"groups", "policies"}
         /\ w.body # Gone
<1>1. w.type = e.type /\ w.id \in {e.id, r} /\ w.body = RestoreBody(e, snap)
  BY RestoreWritesAre
<1>2. e.type \in {"groups", "policies"}
  BY DEF FormOf
<1>3. CASE e.type = "policies"
  <2>1. ValidPolicy(PolicyForPut(e.old))
    BY <1>3 DEF FormOf
  <2>2. w.body = RestorePolicy(snap, e.id, e.old)
    BY <1>1, <1>3 DEF RestoreBody
  <2>3. ValidPolicy(w.body)
    BY <2>1, <2>2, RestoredValid
  <2>4. "conf" \in DOMAIN w.body
    BY <2>3 DEF ValidPolicy
  <2>5. w.body # Gone
    BY ONLY <2>4, NotGone
  <2>. QED
    BY <1>1, <1>2, <2>5
<1>4. CASE e.type = "groups"
  <2>1. w.body = RestoreGroup(snap, e.id, e.old)
    BY <1>1, <1>4 DEF RestoreBody
  <2>2. w.body = [peers |-> e.old.peers \cap DOMAIN snap.peers,
                  resources |-> e.old.resources \cap DOMAIN snap.resources]
    BY <2>1 DEF RestoreGroup
  <2>3. w.body # Gone
    BY ONLY <2>2, NotGone
  <2>. QED
    BY <1>1, <1>2, <2>3
<1>. QED
  BY <1>2, <1>3, <1>4


(* What is written of an answer is explained by the form.                  *)
LEMMA OneExplained ==
  ASSUME NEW r \in Editors, NEW q, NEW job, NEW a, ValidAccount(a), q.make \in Edits,
         JobOf(r, q.make, job), OneJob(job), Reads(q.make, job, a), RulesApart(a),
         q.pc # "none", MadeByOthers(PageRules(q), {r}),
         NEW w \in Writes(r, q, job, a), w.body # Bad
  PROVE  Explained(r, q, w, a)
<1>. DEFINE e == q.make
<1>0. FormOf(e) /\ ValidWrite(w)
  BY FormIs, WritesValid
<1>1. CASE job[1] = "group"
  <2>1. e.kind = "group" /\ job[2] = e.id /\ e.id \in DOMAIN a.groups
    BY <1>1, JobIs DEF Reads
  <2>2. w \in GroupWrites(e, q.page, a)
    BY <1>1, WritesBy
  <2>. QED
    BY <1>0, <2>1, <2>2, GroupExplained
<1>2. CASE job[1] = "user"
  <2>1. e.kind = "user"
    BY <1>2, JobIs
  <2>2. w \in UserWrites(e, q.page, q.snap, a)
    BY <1>2, WritesBy
  <2>. QED
    BY <1>0, <2>1, <2>2, UserExplained
<1>3. CASE job[1] = "settings"
  <2>1. e.kind = "peer" /\ job[2] = e.id /\ e.id \in DOMAIN a.peers
    BY <1>3, JobIs DEF Reads
  <2>2. w \in SettingsWrites(e, a)
    BY <1>3, WritesBy
  <2>. QED
    BY <1>0, <2>1, <2>2, SettingsExplained
<1>4. CASE job[1] = "member"
  <2>1. e.kind = "peer" /\ job[2] \in e.groups /\ job[2] \in DOMAIN a.groups
    BY <1>4, JobIs DEF Reads
  <2>2. w \in MemberWrites(e, q.page, q.snap, job[2], a)
    BY <1>4, WritesBy
  <2>. QED
    BY <1>0, <2>1, <2>2, MemberExplained
<1>5. CASE job[1] = "policy"
  <2>1. e.kind = "policy" /\ job[2] = e.id
    BY <1>5, SingleJob
  <2>2. e.id \in DOMAIN a.policies
    BY <1>5, <2>1 DEF Reads
  <2>3. w \in PolicyWrites(e, q.page, a)
    BY <1>5, WritesBy
  <2>4. Apart(a.policies[e.id].rules) /\ MadeByOthers(q.page.policies[e.id].rules, {r})
    BY <2>1, <2>2 DEF RulesApart, PageRules
  <2>. QED
    BY <1>0, <2>1, <2>2, <2>3, <2>4, PolicyExplained
<1>6. CASE job[1] = "toggle"
  <2>1. e.kind = "toggle" /\ job[2] = e.id
    BY <1>6, SingleJob
  <2>2. e.id \in DOMAIN a.policies
    BY <1>6, <2>1 DEF Reads
  <2>3. w \in ToggleWrites(e, a)
    BY <1>6, WritesBy
  <2>. QED
    BY <1>0, <2>1, <2>2, <2>3, ToggleExplained
<1>7. CASE job[1] = "revoke"
  <2>1. e.kind = "revoke" /\ job[2] = e.id
    BY <1>7, SingleJob
  <2>2. e.id \in DOMAIN a.policies
    BY <1>7, <2>1 DEF Reads
  <2>3. w \in RevokeWrites(e, a)
    BY <1>7, WritesBy
  <2>. QED
    BY <1>0, <2>1, <2>2, <2>3, RevokeExplained
<1>8. CASE job[1] = "key"
  <2>1. (e.kind = "key" /\ job[2] = e.id) \/ (e.kind = "bulk" /\ job[2] \in e.keys)
    BY <1>8, JobIs
  <2>2. job[2] \in DOMAIN a.keys
    BY <1>8 DEF Reads
  <2>3. KeyAsked(w, e, a)
    BY <1>0, <1>8, <2>1, <2>2, KeysAsked, ValidParts
  <2>. QED
    BY <1>0, <2>1, <2>3, KeyExplained
<1>9. CASE job[1] = "net"
  <2>1. e.kind = "net" /\ w \in NetWrites(e, a)
    BY <1>9, SingleJob, WritesBy
  <2>2. w.type = "nets" /\ w.id = e.id /\ w.body = NetBody(e.conf)
    BY <2>1, NetWritesAre DEF IsTo
  <2>3. w.body # Gone
    BY <2>2, NotGone DEF NetBody
  <2>. QED
    BY <1>0, <2>1, <2>2, <2>3, OwnExplained
<1>10. CASE job[1] = "resource"
  <2>1. e.kind = "resource" /\ w \in ResourceWrites(e, q.page, a)
    BY <1>10, SingleJob, WritesBy
  <2>2. /\ w.type = "resources" /\ w.id = e.id
        /\ w.body = [net |-> e.net, conf |-> e.conf, groups |-> ResourceGroups(e, q.page)]
    BY <2>1, ResourceWritesAre
  <2>3. w.body # Gone
    BY ONLY <2>2, NotGone
  <2>. QED
    BY <1>0, <2>1, <2>2, <2>3, ResourceExplained
<1>11. CASE job[1] = "router"
  <2>1. e.kind = "router" /\ w \in RouterWrites(e, a)
    BY <1>11, SingleJob, WritesBy
  <2>2. /\ w.type = "routers" /\ w.id = e.id
        /\ w.body = [peer |-> e.peer, groups |-> e.groups, on |-> TRUE]
    BY <2>1, RouterWritesAre
  <2>3. w.body # Gone
    BY ONLY <2>2, NotGone
  <2>. QED
    BY <1>0, <2>1, <2>2, <2>3, OwnExplained
<1>12. CASE job[1] = "restore"
  <2>1. e.kind = "restore" /\ w \in RestoreWrites(r, e, q.snap)
    BY <1>12, SingleJob, WritesBy
  <2>2. /\ w.type = e.type /\ w.id \in {e.id, r} /\ e.type \in {"groups", "policies"}
        /\ w.body # Gone
    BY ONLY <1>0, <2>1, w.body # Bad, RestoreShape
  <2>. QED
    BY <1>0, <2>1, <2>2, OwnExplained, PostExplained
<1>13. CASE job[1] = "delete"
  <2>1. e.kind = "delete" /\ w = Removal(e)
    BY <1>13, SingleJob, WritesBy
  <2>. QED
    BY <1>0, <2>1, DeleteExplained
<1>14. CASE job[1] = "post"
  <2>1. w = Post(r, e) /\ e.kind \in {"new group", "new policy", "allow", "new key", "new net",
                                      "new resource", "new router"}
    <3>1. Writes(r, q, job, a) = {Post(r, e)}
      BY <1>14, WritesBy
    <3>2. w = Post(r, e)
      BY <3>1
    <3>. QED
      BY <1>14, <3>2, JobIs
  <2>2. w.type = e.type /\ w.id = r /\ w.body = Posted(e)
    BY <2>1 DEF Post, Write
  <2>3. w.type \notin {"users", "peers"} /\ w.body # Gone
    BY <1>0, <2>1, <2>2, PostedIsThere DEF FormOf
  <2>. QED
    BY <1>0, <2>2, <2>3, PostExplained
<1>. QED
  BY <1>1, <1>2, <1>3, <1>4, <1>5, <1>6, <1>7, <1>8, <1>9, <1>10, <1>11, <1>12, <1>13, <1>14,
     JobIs DEF OneJob

-----------------------------------------------------------------------------
(* The writes of a job, when they are planned and while they are made.     *)

LEMMA WritesFit ==
  ASSUME NEW r \in Editors, NEW q, NEW job, NEW a, ValidAccount(a), q.make \in Edits,
         JobOf(r, q.make, job), Reads(q.make, job, a), RulesApart(a),
         q.pc # "none", MadeByOthers(PageRules(q), {r}),
         \A w \in Writes(r, q, job, a) : w.body # Bad,
         NEW p, p.make = q.make, p.page = q.page, p.plan = Writes(r, q, job, a)
  PROVE  PlanFits(r, p, a)
<1>. DEFINE e == q.make
<1>1. CASE OneJob(job)
  <2>1. AtMostOne(p.plan)
    BY <1>1, OneWrite
  <2>2. ASSUME NEW w \in p.plan
        PROVE  Explained(r, p, w, a)
    <3>1. Explained(r, q, w, a)
      BY <1>1, <2>2, OneExplained
    <3>. QED
      BY <3>1, AskedSame DEF Explained
  <2>. QED
    BY <2>1, <2>2 DEF PlanFits
<1>2. CASE job[1] = "users"
  <2>1. Writes(r, q, job, a) = UsersWrites(e, q.page, a, job[2])
    BY <1>2, WritesBy
  <2>2. (e.kind = "group" /\ job[2] = e.id) \/ (e.kind = "new group" /\ job[2] = r)
    BY <1>2, JobIs
  <2>3. Distinct(p.plan)
    BY <2>1, UsersDistinct
  <2>4. ASSUME NEW w \in p.plan
        PROVE  UsersFit(r, p.make, w, a)
    <3>1. w \in UsersWrites(q.make, q.page, a, job[2])
      BY <2>1, <2>4
    <3>. QED
      BY <2>2, <3>1, UsersFitThen
  <2>. QED
    BY <2>3, <2>4 DEF PlanFits
<1>3. CASE job[1] = "align"
  <2>1. Writes(r, q, job, a) = AlignWrites(e, q.snap, q.want, a)
    BY <1>3, WritesBy
  <2>2. e.kind = "user"
    BY <1>3, JobIs
  <2>3. Distinct(p.plan)
    BY <2>1, AlignDistinct
  <2>4. ASSUME NEW w \in p.plan
        PROVE  AlignFit(p.make, w, a)
    <3>1. w \in AlignWrites(q.make, q.snap, q.want, a)
      BY <2>1, <2>4
    <3>. QED
      BY <2>2, <3>1, AlignFits
  <2>. QED
    BY <2>3, <2>4 DEF PlanFits
<1>. QED
  BY <1>1, <1>2, <1>3 DEF OneJob

LEMMA EmptyFits ==
  ASSUME NEW r, NEW q, NEW a, q.plan = {}
  PROVE  PlanFits(r, q, a)
  BY DEF PlanFits, AtMostOne

(* The writes that are left fit the account that one of them made.         *)
LEMMA RestFits ==
  ASSUME NEW r, NEW q, NEW a, ValidAccount(a), PlanFits(r, q, a), NEW w \in q.plan,
         \A v \in q.plan : ValidWrite(v),
         NEW p, p.make = q.make, p.page = q.page, p.plan = q.plan \ {w}
  PROVE  PlanFits(r, p, Applied(a, w, r))
<1>. DEFINE b == Applied(a, w, r)
<1>0. Shaped(a)
  BY DEF ValidAccount
<1>1. CASE AtMostOne(q.plan)
  <2>1. p.plan = {}
    BY <1>1 DEF AtMostOne
  <2>. QED
    BY <2>1, EmptyFits
<1>2. CASE Distinct(q.plan) /\ \A v \in q.plan : UsersFit(r, q.make, v, a)
  <2>1. w.type = "users" /\ w.body # Gone
    BY <1>2 DEF UsersFit, IsTo, ValidWrite
  <2>2. b.users = [a.users EXCEPT ![w.id] = w.body]
    BY <1>0, <2>1, PutUser
  <2>3. ASSUME NEW v \in p.plan
        PROVE  UsersFit(r, p.make, v, b)
    <3>1. v \in q.plan /\ v.id # w.id
      BY <1>2, <2>3 DEF Distinct
    <3>2. UsersFit(r, q.make, v, a)
      BY <1>2, <3>1
    <3>3. v.id \in DOMAIN a.users
      BY <3>2 DEF UsersFit
    <3>4. v.id \in DOMAIN b.users /\ b.users[v.id] = a.users[v.id]
      BY <2>2, <3>1, <3>3
    <3>. HIDE DEF b
    <3>. QED
      BY <3>2, <3>4 DEF UsersFit
  <2>4. Distinct(p.plan)
    BY <1>2 DEF Distinct
  <2>. QED
    BY <2>3, <2>4 DEF PlanFits
<1>3. CASE Distinct(q.plan) /\ \A v \in q.plan : AlignFit(q.make, v, a)
  <2>1. w.type = "groups" /\ w.body # Gone
    BY <1>3 DEF AlignFit, IsTo
  <2>2. b.groups = Upsert(a.groups, w.id, w.body)
    BY <1>0, <2>1, PutGroup
  <2>3. ASSUME NEW v \in p.plan
        PROVE  AlignFit(p.make, v, b)
    <3>1. v \in q.plan /\ v.id # w.id
      BY <1>3, <2>3 DEF Distinct
    <3>2. AlignFit(q.make, v, a)
      BY <1>3, <3>1
    <3>3. v.id \in DOMAIN a.groups
      BY <3>2 DEF AlignFit
    <3>4. v.id \in DOMAIN b.groups /\ b.groups[v.id] = a.groups[v.id]
      BY <2>2, <3>1, <3>3 DEF Upsert
    <3>. HIDE DEF b
    <3>. QED
      BY <3>2, <3>4 DEF AlignFit
  <2>4. Distinct(p.plan)
    BY <1>3 DEF Distinct
  <2>. QED
    BY <2>3, <2>4 DEF PlanFits
<1>. QED
  BY <1>1, <1>2, <1>3 DEF PlanFits

(* Each of them is asked for.                                              *)
LEMMA FitsExplained ==
  ASSUME NEW r \in Editors, NEW q, NEW a, ValidAccount(a), PlanFits(r, q, a),
         NEW w \in q.plan, ValidWrite(w)
  PROVE  Explained(r, q, w, a)
<1>1. CASE UsersFit(r, q.make, w, a)
  BY <1>1, UsersExplained
<1>2. CASE AlignFit(q.make, w, a)
  BY <1>2, AlignExplained
<1>. QED
  BY <1>1, <1>2 DEF PlanFits

-----------------------------------------------------------------------------
(* The ids of rules: those of a policy are apart, and one that names an    *)
(* editor was given when that editor wrote.                                *)

RulesNotBy(a, r) == \A i \in DOMAIN a.policies : MadeByOthers(a.policies[i].rules, {r})

(* Rules that are apart once those without an id got one of r's.           *)
Numberable(rules, r) ==
  /\ \A x, y \in rules : x.id = y.id /\ x.id # NoId => x = y
  /\ (\E x \in rules : x.id = NoId) => MadeByOthers(rules, {r})

IdsFrom(new, old) == \A y \in new : y.id = NoId \/ \E x \in old : y.id = x.id

LEMMA NoIdIs ==
  ASSUME NEW r \in Editors
  PROVE  NoId[1] # r
  BY EditorIsNot DEF NoId

LEMMA MadeFrom ==
  ASSUME NEW r \in Editors, NEW new, NEW old, IdsFrom(new, old), MadeByOthers(old, {r})
  PROVE  MadeByOthers(new, {r})
  BY NoIdIs DEF IdsFrom, MadeByOthers

LEMMA ApartNumberable ==
  ASSUME NEW rules, NEW r, Apart(rules),
         MadeByOthers(rules, {r}) \/ \A x \in rules : x.id # NoId
  PROVE  Numberable(rules, r)
  BY DEF Apart, Numberable

(* What becomes of rules that are numbered.                                *)
LEMMA NumberedApart ==
  ASSUME NEW pol, NEW r \in Editors, ValidPolicy(pol), Numberable(pol.rules, r)
  PROVE  Apart(Numbered(pol, r).rules)
<1>. DEFINE new(x) == [x EXCEPT !.id = IF x.id = NoId THEN <<r, x>> ELSE x.id]
            rules == {new(x) : x \in pol.rules}
<1>1. Numbered(pol, r) = [pol EXCEPT !.rules = rules]
  BY DEF Numbered
<1>2. \A x \in pol.rules : new(x).id = IF x.id = NoId THEN <<r, x>> ELSE x.id
  BY DEF ValidPolicy, ValidRule
<1>3. \A y \in rules : \E x \in pol.rules : y = new(x)
  OBVIOUS
<1>4. ASSUME NEW x \in pol.rules, NEW z \in pol.rules, new(x).id = new(z).id
      PROVE  x = z
  <2>1. CASE x.id # NoId /\ z.id # NoId
    BY <1>2, <1>4, <2>1 DEF Numberable
  <2>2. CASE x.id = NoId /\ z.id = NoId
    <3>1. <<r, x>> = <<r, z>>
      BY <1>2, <1>4, <2>2
    <3>. QED
      BY ONLY <3>1
  <2>3. ASSUME NEW u \in pol.rules, NEW v \in pol.rules, u.id = NoId, v.id # NoId
        PROVE  <<r, u>> # v.id
    <3>1. v.id[1] # r
      BY <2>3 DEF Numberable, MadeByOthers
    <3>2. <<r, u>>[1] = r
      OBVIOUS
    <3>. QED
      BY <3>1, <3>2
  <2>. QED
    BY <1>2, <1>4, <2>1, <2>2, <2>3
<1>. HIDE DEF new
<1>5. Apart(rules)
  BY <1>3, <1>4 DEF Apart
<1>. HIDE DEF rules
<1>. QED
  BY <1>1, <1>5 DEF ValidPolicy

LEMMA NumberedNotBy ==
  ASSUME NEW pol, NEW r, NEW s, r # s, ValidPolicy(pol), MadeByOthers(pol.rules, {s})
  PROVE  MadeByOthers(Numbered(pol, r).rules, {s})
<1>1. ASSUME NEW y \in Numbered(pol, r).rules
      PROVE  y.id[1] # s
  <2>1. PICK x \in pol.rules : NumberedRule(y, x, r)
    BY NumberedIs
  <2>2. y.id = IF x.id = NoId THEN <<r, x>> ELSE x.id
    BY <2>1 DEF NumberedRule
  <2>3. <<r, x>>[1] = r /\ x.id[1] # s
    BY DEF MadeByOthers
  <2>. QED
    BY <2>2, <2>3
<1>. QED
  BY <1>1 DEF MadeByOthers

LEMMA UnreferredIds ==
  ASSUME NEW policies, NEW gone, NEW i \in DOMAIN policies, ValidPolicy(policies[i])
  PROVE  /\ IdsFrom(WithoutRefs(policies, gone)[i].rules, policies[i].rules)
         /\ Apart(policies[i].rules) => Apart(WithoutRefs(policies, gone)[i].rules)
<1>. DEFINE kept(ref) == IF ref \in gone THEN None ELSE ref
            new(x) == [x EXCEPT !.srcRef = kept(@), !.dstRef = kept(@)]
            rules == {new(x) : x \in policies[i].rules}
            pol == WithoutRefs(policies, gone)[i]
<1>1. \A x \in policies[i].rules : new(x).id = x.id
  BY DEF ValidPolicy, ValidRule
<1>2. pol = [policies[i] EXCEPT !.rules = rules]
  BY DEF WithoutRefs
<1>. HIDE DEF new, pol
<1>3. \A y \in rules : \E x \in policies[i].rules : y = new(x)
  OBVIOUS
<1>4. IdsFrom(rules, policies[i].rules) /\ (Apart(policies[i].rules) => Apart(rules))
  BY <1>1, <1>3 DEF IdsFrom, Apart
<1>. HIDE DEF rules
<1>5. pol.rules = rules
  BY <1>2 DEF ValidPolicy
<1>. QED
  BY <1>4, <1>5 DEF pol

(* A write keeps the rules apart, and gives ids of its own editor only.    *)
RulesFrom(new, old) == IdsFrom(new, old) /\ (Apart(old) => Apart(new))

LEMMA RulesSelf ==
  ASSUME NEW rules
  PROVE  RulesFrom(rules, rules)
  BY DEF RulesFrom, IdsFrom

PoliciesFrom(b, a) ==
  DOMAIN b.policies \subseteq DOMAIN a.policies
  /\ \A i \in DOMAIN b.policies : RulesFrom(b.policies[i].rules, a.policies[i].rules)

LEMMA AppliedRules ==
  ASSUME NEW a, NEW w, NEW r, ValidAccount(a), ValidWrite(w), Accepts(a, w),
         w.type # "policies" \/ w.body = Gone
  PROVE  PoliciesFrom(Applied(a, w, r), a)
<1>. DEFINE b == Applied(a, w, r)
<1>. SUFFICES PoliciesFrom(b, a)
  OBVIOUS
<1>. HIDE DEF b
<1>1. Shaped(a) /\ \A i \in DOMAIN a.policies : ValidPolicy(a.policies[i])
  BY DEF ValidAccount, Shaped
<1>2. b.policies = a.policies => PoliciesFrom(b, a)
  BY RulesSelf DEF PoliciesFrom
<1>3. ASSUME NEW gone, b.policies = WithoutRefs(a.policies, gone)
      PROVE  PoliciesFrom(b, a)
  BY <1>1, <1>3, UnreferredIds, WithoutRefsDomain DEF PoliciesFrom, RulesFrom
<1>4. CASE w.body # Gone
  <2>1. w.type \in {"groups", "users", "peers", "keys", "nets", "resources", "routers"}
    BY <1>4 DEF ValidWrite, Types
  <2>2. w.type = "routers" => w.net \in DOMAIN a.nets
    BY DEF Accepts
  <2>3. b.policies = a.policies
    <3>1. \E z : Kept(b, a, z) /\ "policies" \notin z
      <4>1. w.type = "groups" => Kept(b, a, {"groups"})
        BY <1>1, <1>4, PutGroup DEF b
      <4>2. w.type = "users" => Kept(b, a, {"users", "groups"})
        BY <1>1, <1>4, PutUser DEF b
      <4>3. w.type = "peers" => Kept(b, a, {"peers"})
        BY <1>1, <1>4, PutPeer DEF b
      <4>4. w.type = "keys" => Kept(b, a, {"keys"})
        BY <1>1, <1>4, PutKey DEF b
      <4>5. w.type = "nets" => Kept(b, a, {"nets"})
        BY <1>1, <1>4, PutNetwork DEF b
      <4>6. w.type = "routers" => Kept(b, a, {"nets"})
        BY <1>1, <1>4, <2>2, PutRouter DEF b
      <4>7. w.type = "resources" => Kept(b, a, {"resources", "groups"})
        BY <1>1, <1>4, PutResource DEF b
      <4>8. /\ "policies" \notin {"groups"} /\ "policies" \notin {"users", "groups"}
            /\ "policies" \notin {"peers"} /\ "policies" \notin {"keys"}
            /\ "policies" \notin {"nets"} /\ "policies" \notin {"resources", "groups"}
        OBVIOUS
      <4>. QED
        BY <2>1, <4>1, <4>2, <4>3, <4>4, <4>5, <4>6, <4>7, <4>8
    <3>. QED
      BY <3>1 DEF Kept, AccountParts
  <2>. QED
    BY <1>2, <2>3
<1>5. CASE w.body = Gone /\ w.type \in {"groups", "keys", "policies"}
  <2>1. CASE w.type \in {"groups", "keys"}
    <3>1. b.policies = a.policies
      BY <1>1, <1>5, <2>1, DeletedOne DEF b, Kept, AccountParts
    <3>. QED
      BY <1>2, <3>1
  <2>2. CASE w.type = "policies"
    <3>1. b.policies = Drop(a.policies, w.id)
      BY <1>1, <1>5, <2>2, DeletedOne DEF b
    <3>2. /\ DOMAIN b.policies \subseteq DOMAIN a.policies
          /\ \A i \in DOMAIN b.policies : b.policies[i] = a.policies[i]
      BY <3>1 DEF Drop, DropAll
    <3>. QED
      BY <3>2, RulesSelf DEF PoliciesFrom
  <2>. QED
    BY <1>5, <2>1, <2>2
<1>6. CASE w.body = Gone /\ w.type = "routers"
  <2>1. w.net \in DOMAIN a.nets
    BY <1>6 DEF Accepts
  <2>2. b.policies = a.policies
    <3>1. Kept(b, a, {"nets"})
      BY <1>1, <1>6, <2>1, DeletedRouter DEF b
    <3>. QED
      BY <3>1 DEF Kept, AccountParts
  <2>. QED
    BY <1>2, <2>2
<1>7. CASE w.body = Gone /\ w.type = "peers"
  <2>1. b.policies = WithoutRefs(a.policies, {w.id})
    BY <1>1, <1>7, DeletedPeer DEF b
  <2>. QED
    BY <1>3, <2>1
<1>8. CASE w.body = Gone /\ w.type = "resources"
  <2>1. b = DropResources(a, {w.id})
    BY <1>8, DeletedResource DEF b
  <2>2. b.policies = WithoutRefs(a.policies, {w.id})
    BY <1>1, <2>1, DroppedResources
  <2>. QED
    BY <1>3, <2>2
<1>9. CASE w.body = Gone /\ w.type = "nets"
  <2>. DEFINE rids == ResourcesIn(a, w.id)
              d == DropResources(a, rids)
  <2>1. Kept(b, d, {"nets"}) /\ d.policies = WithoutRefs(a.policies, rids)
    BY <1>1, <1>9, DeletedNetwork, DroppedResources DEF b
  <2>. HIDE DEF d, rids
  <2>2. b.policies = WithoutRefs(a.policies, rids)
    BY <2>1 DEF Kept, AccountParts
  <2>. QED
    BY <1>3, <2>2
<1>10. w.body = Gone => w.type \in {"groups", "keys", "policies", "routers", "peers", "resources",
                                    "nets"}
  BY DEF ValidWrite, Types
<1>. QED
  BY <1>4, <1>5, <1>6, <1>7, <1>8, <1>9, <1>10

(* The account's rules after a write.                                      *)
LEMMA StepRules ==
  ASSUME NEW a, NEW w, NEW r \in Editors, ValidAccount(a), ValidWrite(w), Accepts(a, w),
         RulesApart(a), Numberable(PlannedRules(w), r)
  PROVE  /\ RulesApart(Applied(a, w, r))
         /\ \A s \in Editors :
              s # r /\ RulesNotBy(a, s) /\ MadeByOthers(PlannedRules(w), {s})
                => RulesNotBy(Applied(a, w, r), s)
<1>. DEFINE b == Applied(a, w, r)
<1>. SUFFICES /\ RulesApart(b)
              /\ \A s \in Editors :
                   s # r /\ RulesNotBy(a, s) /\ MadeByOthers(PlannedRules(w), {s})
                     => RulesNotBy(b, s)
  OBVIOUS
<1>. HIDE DEF b
<1>1. CASE w.type # "policies" \/ w.body = Gone
  <2>1. PoliciesFrom(b, a)
    BY <1>1, AppliedRules DEF b
  <2>2. RulesApart(b)
    BY <2>1 DEF PoliciesFrom, RulesFrom, RulesApart
  <2>3. ASSUME NEW s \in Editors, RulesNotBy(a, s)
        PROVE  RulesNotBy(b, s)
    BY <2>1, <2>3, MadeFrom DEF PoliciesFrom, RulesFrom, RulesNotBy
  <2>. QED
    BY <2>2, <2>3
<1>2. CASE w.type = "policies" /\ w.body # Gone
  <2>1. Shaped(a) /\ ValidPolicy(w.body) /\ PlannedRules(w) = w.body.rules
    BY <1>2 DEF ValidAccount, ValidWrite, ValidBody, PlannedRules
  <2>2. b.policies = Upsert(a.policies, w.id, Numbered(w.body, r))
    BY <1>2, <2>1, PutPolicy DEF b
  <2>3. Apart(Numbered(w.body, r).rules)
    BY <2>1, NumberedApart
  <2>4. \A i \in DOMAIN b.policies :
          b.policies[i] = Numbered(w.body, r) \/ (i \in DOMAIN a.policies /\ b.policies[i] = a.policies[i])
    BY <2>2 DEF Upsert
  <2>5. RulesApart(b)
    BY <2>3, <2>4 DEF RulesApart
  <2>6. ASSUME NEW s \in Editors, s # r, RulesNotBy(a, s), MadeByOthers(PlannedRules(w), {s})
        PROVE  RulesNotBy(b, s)
    <3>1. MadeByOthers(Numbered(w.body, r).rules, {s})
      BY <2>1, <2>6, NumberedNotBy
    <3>. QED
      BY <2>4, <2>6, <3>1 DEF RulesNotBy
  <2>. QED
    BY <2>5, <2>6
<1>. QED
  BY <1>1, <1>2

-----------------------------------------------------------------------------
(* The rules of a body that is planned.                                    *)

(* Rules that may be saved by r, with ids of these only.                   *)
Sourced(rules, r, old) == Numberable(rules, r) /\ IdsFrom(rules, old)

LEMMA PolicyIds ==
  ASSUME NEW r, NEW e, NEW page, NEW a, NEW w \in PolicyWrites(e, page, a), w.body # Bad,
         e.kind = "policy", FormOf(e),
         Apart(page.policies[e.id].rules), MadeByOthers(page.policies[e.id].rules, {r}),
         r \in Editors
  PROVE  Sourced(w.body.rules, r, page.policies[e.id].rules)
<1>. DEFINE pol == page.policies[e.id]
            before == a.policies[e.id]
            form == PolicyForm(e, page)
            body == PolicyFromForm(form)
            shown(x) == [EditorRule(x) EXCEPT !.src = Flip(@, e.src), !.tokens = Or(e.tokens, @)]
            prev(x) == {b \in before.rules : b.id = x.id /\ x.id # NoId}
            auth(x) == UNION {b.auth : b \in prev(x)}
            direct(x) == {b.srcRef : b \in prev(x)} \ {None}
            new(x) == [x EXCEPT !.auth = auth(x),
                         !.src = IF direct(x) = {} THEN @ ELSE {},
                         !.srcRef = IF direct(x) = {} THEN @ ELSE CHOOSE z \in direct(x) : TRUE]
            rules == {new(x) : x \in body.rules}
<1>1. body # Bad /\ w.body = CarryOver(before, body)
  BY PolicyWritesAre
<1>2. form.rules = {shown(x) : x \in pol.rules} \cup e.more
  BY DEF PolicyForm
<1>3. \A x : shown(x).id = x.id
  BY DEF EditorRule
<1>4. \A x \in e.more : x.id = NoId
  BY DEF FormOf
<1>5. body.rules = {BuildRule(x) : x \in form.rules} /\ \A x \in form.rules : BuildRule(x).id = x.id
  BY <1>1, FormRules
<1>6. ValidPolicy(body)
  BY <1>1, FormPolicyValid
<1>7. \A x \in body.rules : new(x).id = x.id
  BY <1>6 DEF ValidPolicy, ValidRule
<1>8. CarryOver(before, body) = [body EXCEPT !.rules = rules]
  BY DEF CarryOver
<1>. HIDE DEF shown, new, form, body
<1>9. \A y \in rules : \E x \in body.rules : y = new(x)
  OBVIOUS
<1>. HIDE DEF rules
<1>10. w.body.rules = rules
  BY <1>1, <1>6, <1>8 DEF ValidPolicy
<1>11. \A y \in rules : y.id = NoId \/ \E x \in pol.rules : y = new(BuildRule(shown(x))) /\ y.id = x.id
  <2>1. ASSUME NEW y \in rules
        PROVE  y.id = NoId \/ \E x \in pol.rules : y = new(BuildRule(shown(x))) /\ y.id = x.id
    <3>1. PICK z \in body.rules : y = new(z)
      BY <1>9
    <3>2. PICK x \in form.rules : z = BuildRule(x)
      BY <1>5
    <3>3. y.id = x.id
      BY <1>5, <1>7, <3>1, <3>2
    <3>4. x \in e.more \/ \E u \in pol.rules : x = shown(u)
      BY <1>2
    <3>. QED
      BY <1>3, <1>4, <3>1, <3>2, <3>3, <3>4
  <2>. QED
    BY <2>1
<1>. HIDE DEF pol
<1>12. IdsFrom(rules, pol.rules)
  BY <1>11 DEF IdsFrom
<1>13. Apart(pol.rules) /\ MadeByOthers(pol.rules, {r})
  BY DEF pol
<1>14. Numberable(rules, r)
  <2>1. MadeByOthers(rules, {r})
    BY <1>12, <1>13, MadeFrom
  <2>2. ASSUME NEW y \in rules, NEW z \in rules, y.id = z.id, y.id # NoId
        PROVE  y = z
    <3>1. PICK x \in pol.rules : y = new(BuildRule(shown(x))) /\ y.id = x.id
      BY <1>11, <2>2
    <3>2. PICK u \in pol.rules : z = new(BuildRule(shown(u))) /\ z.id = u.id
      BY <1>11, <2>2
    <3>3. x = u
      BY <1>13, <2>2, <3>1, <3>2 DEF Apart
    <3>. QED
      BY <3>1, <3>2, <3>3
  <2>. QED
    BY <2>1, <2>2 DEF Numberable
<1>. QED
  BY <1>10, <1>12, <1>14 DEF Sourced, pol

LEMMA ForPutIds ==
  ASSUME NEW pol, PolicyShape(pol)
  PROVE  /\ IdsFrom(PolicyForPut(pol).rules, pol.rules)
         /\ Apart(pol.rules) => Apart(PolicyForPut(pol).rules)
         /\ \A y \in PolicyForPut(pol).rules : \E x \in pol.rules : y.id = x.id
<1>1. PolicyForPut(pol).rules = {RuleForPut(x) : x \in pol.rules}
  BY ForPutValid
<1>2. \A x \in pol.rules : RuleForPut(x).id = x.id
  BY RuleForPutIs DEF PolicyShape, RuleParts
<1>. QED
  BY <1>1, <1>2 DEF IdsFrom, Apart

(* Rules of the account that are put again, or fewer of them.              *)
LEMMA PutAgain ==
  ASSUME NEW r, NEW pol, NEW p, PolicyShape(p), IdsFrom(p.rules, pol.rules),
         Apart(p.rules), \A x \in p.rules : x.id # NoId
  PROVE  Sourced(PolicyForPut(p).rules, r, pol.rules)
<1>1. /\ Apart(PolicyForPut(p).rules) /\ IdsFrom(PolicyForPut(p).rules, p.rules)
      /\ \A y \in PolicyForPut(p).rules : \E x \in p.rules : y.id = x.id
  BY ForPutIds
<1>2. \A x \in PolicyForPut(p).rules : x.id # NoId
  BY <1>1
<1>3. IdsFrom(PolicyForPut(p).rules, pol.rules)
  BY <1>1 DEF IdsFrom
<1>. QED
  BY <1>1, <1>2, <1>3, ApartNumberable DEF Sourced

LEMMA ToggleIds ==
  ASSUME NEW r, NEW e, NEW a, NEW w \in ToggleWrites(e, a), ValidAccount(a), RulesApart(a),
         e.id \in DOMAIN a.policies
  PROVE  Sourced(w.body.rules, r, a.policies[e.id].rules)
<1>. DEFINE pol == a.policies[e.id]
            yes == ~pol.on
            p == [pol EXCEPT !.on = yes]
<1>1. w.body = PolicyForPut(p)
  BY ToggleWritesAre
<1>2. ValidPolicy(pol) /\ \A x \in pol.rules : x.id # NoId
  BY ValidParts DEF PoliciesValid, PolicyIn
<1>3. Apart(pol.rules)
  BY DEF RulesApart
<1>. HIDE DEF yes
<1>4. ValidPolicy(p) /\ p.rules = pol.rules
  BY <1>2 DEF ValidPolicy
<1>5. IdsFrom(p.rules, pol.rules)
  BY <1>4 DEF IdsFrom
<1>. HIDE DEF p
<1>6. Sourced(PolicyForPut(p).rules, r, pol.rules)
  BY <1>2, <1>3, <1>4, <1>5, ValidIsShape, PutAgain
<1>. QED
  BY <1>1, <1>6

LEMMA RevokeIds ==
  ASSUME NEW r, NEW e, NEW a, NEW w \in RevokeWrites(e, a), w.body # Bad, w.body # Gone,
         ValidAccount(a), RulesApart(a), e.id \in DOMAIN a.policies
  PROVE  Sourced(w.body.rules, r, a.policies[e.id].rules)
<1>. DEFINE pol == a.policies[e.id]
            no == FALSE
            off == [pol EXCEPT !.on = no]
            rule == CHOOSE x \in pol.rules : x.id = e.rule
            side == IF e.mode = "remove_source" THEN "source" ELSE "destination"
            kept == Without(RuleForPut(rule), side, e.target)
            rules == (pol.rules \ {rule}) \cup ({kept} \ {None})
            less == [pol EXCEPT !.rules = rules]
            body == Revoke(pol, e.rule, e.mode, e.target)
<1>1. w.body = body
  BY RevokeWritesAre
<1>2. ValidPolicy(pol) /\ \A x \in pol.rules : x.id # NoId
  BY ValidParts DEF PoliciesValid, PolicyIn
<1>3. Apart(pol.rules) /\ PolicyShape(pol)
  BY <1>2, ValidIsShape DEF RulesApart
<1>4. \E x \in pol.rules : x.id = e.rule
  BY <1>1 DEF Revoke
<1>5. rule \in pol.rules /\ rule.id = e.rule
  BY <1>4
<1>6. \/ body = PolicyForPut(off)
      \/ kept # Bad /\ body = PolicyForPut(less)
  BY <1>1, <1>4 DEF Revoke
<1>7. RuleShape(RuleForPut(rule)) /\ RuleForPut(rule).id = e.rule
  BY <1>3, <1>5, RuleForPutIs DEF PolicyShape, RuleParts
<1>8. kept # Bad /\ kept # None => RuleShape(kept) /\ kept.id = e.rule
  BY <1>7, WithoutIs DEF Lessened, RuleParts
<1>. HIDE DEF no, rule, kept, body, side
<1>9. CASE body = PolicyForPut(off)
  <2>1. PolicyShape(off) /\ off.rules = pol.rules
    BY <1>3 DEF PolicyShape
  <2>2. IdsFrom(off.rules, pol.rules)
    BY <2>1 DEF IdsFrom
  <2>. HIDE DEF off
  <2>. QED
    BY <1>1, <1>2, <1>3, <1>9, <2>1, <2>2, PutAgain
<1>10. CASE kept # Bad /\ body = PolicyForPut(less)
  <2>1. \A y \in rules : y \in pol.rules \ {rule} \/ (y = kept /\ RuleShape(y) /\ y.id = e.rule)
    BY <1>8, <1>10
  <2>. HIDE DEF rules
  <2>2. \A y \in rules : RuleShape(y)
    BY <1>3, <2>1 DEF PolicyShape
  <2>3. PolicyShape(less) /\ less.rules = rules
    BY <1>3, <2>2 DEF PolicyShape
  <2>4. \A y \in pol.rules \ {rule} : y.id # e.rule
    BY <1>3, <1>5 DEF Apart
  <2>. HIDE DEF less
  <2>5. Apart(rules)
    BY <1>3, <2>1, <2>4 DEF Apart
  <2>6. IdsFrom(rules, pol.rules) /\ \A y \in rules : y.id # NoId
    BY <1>2, <1>5, <2>1 DEF IdsFrom
  <2>7. Sourced(PolicyForPut(less).rules, r, pol.rules)
    BY <2>3, <2>5, <2>6, PutAgain
  <2>. QED
    BY <1>1, <1>10, <2>7
<1>. QED
  BY <1>6, <1>9, <1>10

LEMMA RestoreIds ==
  ASSUME NEW r \in Editors, NEW e, NEW snap, NEW w \in RestoreWrites(r, e, snap), w.body # Bad,
         e.kind = "restore", FormOf(e), e.type = "policies"
  PROVE  Sourced(w.body.rules, r, e.old.rules)
<1>. DEFINE old == e.old
            put == PolicyForPut(old)
            anew == {[x EXCEPT !.id = NoId] : x \in put.rules}
            p == [put EXCEPT !.rules = anew]
            h(x) == RuleForPut(x)
<1>1. w.body = RestorePolicy(snap, e.id, old)
  BY RestoreWritesAre DEF RestoreBody
<1>2. w.body = put \/ w.body = p
  BY <1>1 DEF RestorePolicy
<1>3. ValidPolicy(put) /\ Apart(old.rules) /\ MadeByOthers(old.rules, Editors)
  BY DEF FormOf
<1>4. put = [old EXCEPT !.rules = {h(x) : x \in old.rules}]
  BY DEF PolicyForPut
<1>5. DOMAIN put = DOMAIN old
  BY <1>4
<1>6. put.rules = {h(x) : x \in old.rules}
  <2>. DEFINE rules == {h(x) : x \in old.rules}
  <2>. HIDE DEF rules
  <2>1. put = [old EXCEPT !.rules = rules]
    BY <1>4 DEF rules
  <2>2. "rules" \in DOMAIN old
    BY <1>3, <1>5 DEF ValidPolicy
  <2>3. put.rules = rules
    BY <2>1, <2>2
  <2>. QED
    BY <2>3 DEF rules
<1>7. ASSUME NEW x \in old.rules
      PROVE  h(x).id = x.id
  <2>1. "id" \in DOMAIN h(x)
    BY <1>3, <1>6 DEF ValidPolicy, ValidRule
  <2>2. DOMAIN h(x) = DOMAIN x
    BY DEF RuleForPut
  <2>. QED
    BY <2>1, <2>2 DEF RuleForPut
<1>. HIDE DEF h
<1>8. MadeByOthers(old.rules, {r})
  BY <1>3 DEF MadeByOthers
<1>9. CASE w.body = put
  <2>1. IdsFrom(put.rules, old.rules) /\ Apart(put.rules)
    BY <1>3, <1>6, <1>7 DEF IdsFrom, Apart
  <2>2. MadeByOthers(put.rules, {r})
    BY <2>1, <1>8, MadeFrom
  <2>. QED
    BY <1>9, <2>1, <2>2, ApartNumberable DEF Sourced
<1>10. CASE w.body = p
  <2>1. \A x \in put.rules : [x EXCEPT !.id = NoId].id = NoId
    BY <1>3 DEF ValidPolicy, ValidRule
  <2>2. \A y \in anew : y.id = NoId
    BY <2>1
  <2>. HIDE DEF anew
  <2>3. p.rules = anew
    BY <1>3 DEF ValidPolicy
  <2>. HIDE DEF p, put
  <2>4. IdsFrom(anew, old.rules)
    BY <2>2 DEF IdsFrom
  <2>5. MadeByOthers(anew, {r})
    BY <1>8, <2>4, MadeFrom
  <2>6. Numberable(anew, r)
    BY <2>2, <2>5 DEF Numberable
  <2>. QED
    BY <1>10, <2>3, <2>4, <2>6 DEF Sourced
<1>. QED
  BY <1>2, <1>9, <1>10

LEMMA PostIds ==
  ASSUME NEW r \in Editors, NEW e, FormOf(e), e.kind \in {"new policy", "allow"}, Posted(e) # Bad
  PROVE  Sourced(Posted(e).rules, r, {})
<1>1. PICK form : Posted(e) = PolicyFromForm(form) /\ \A x \in form.rules : x.id = NoId
  <2>1. CASE e.kind = "new policy"
    <3>1. Posted(e) = PolicyFromForm(e.form) /\ \A x \in e.form.rules : x.id = NoId
      BY <2>1 DEF Posted, NewPolicy, FormOf
    <3>. QED
      BY <3>1
  <2>2. CASE e.kind = "allow"
    <3>. DEFINE rule == [id |-> NoId, on |-> TRUE, both |-> FALSE, src |-> {e.src} \cap Groups,
                         dst |-> {e.dst} \cap Groups,
                         dstRef |-> IF e.dst \in Groups THEN None ELSE e.dst,
                         protocol |-> e.svc.protocol, tokens |-> e.svc.ports]
                form == [conf |-> "matrix", on |-> TRUE, posture |-> {}, rules |-> {rule}]
    <3>1. Posted(e) = PolicyFromForm(form)
      BY <2>2 DEF Posted, Allowed, AllowPolicy
    <3>2. rule.id = NoId
      OBVIOUS
    <3>. HIDE DEF rule
    <3>3. form.rules = {rule}
      OBVIOUS
    <3>. HIDE DEF form
    <3>. QED
      BY <3>1, <3>2, <3>3
  <2>. QED
    BY <2>1, <2>2
<1>2. /\ Posted(e).rules = {BuildRule(x) : x \in form.rules}
      /\ \A x \in form.rules : BuildRule(x).id = x.id
  BY <1>1, FormRules
<1>3. \A y \in Posted(e).rules : y.id = NoId
  BY <1>1, <1>2
<1>4. IdsFrom(Posted(e).rules, {})
  BY <1>3 DEF IdsFrom
<1>5. MadeByOthers({}, {r})
  BY DEF MadeByOthers
<1>6. MadeByOthers(Posted(e).rules, {r})
  BY ONLY <1>4, <1>5, r \in Editors, MadeFrom
<1>7. Numberable(Posted(e).rules, r)
  BY <1>3, <1>6 DEF Numberable
<1>. QED
  BY <1>4, <1>7 DEF Sourced

(* Jobs that write no policies.                                            *)
LEMMA OtherTypes ==
  ASSUME NEW r, NEW q, NEW job, NEW a, JobOf(r, q.make, job),
         NEW w \in Writes(r, q, job, a), w.body # Bad,
         job[1] \notin {"policy", "toggle", "revoke", "restore", "delete", "post"}
  PROVE  w.type # "policies"
<1>. DEFINE e == q.make
<1>0. \A type, id, body : To(type, id, body).type = type
  BY DEF To, Write
<1>1. CASE job[1] = "group"
  <2>1. w \in GroupWrites(e, q.page, a)
    BY <1>1, WritesBy
  <2>. QED
    BY <2>1, GroupWritesAre DEF IsTo
<1>2. CASE job[1] = "users"
  <2>1. w \in UsersWrites(e, q.page, a, job[2])
    BY <1>2, WritesBy
  <2>. QED
    <3>1. UsersWrite(w, a, Picked(e, q.page, job[2]), job[2])
      BY <2>1, UsersWritesAre
    <3>. QED
      BY ONLY <3>1 DEF UsersWrite, IsTo
<1>3. CASE job[1] = "user"
  <2>1. w \in UserWrites(e, q.page, q.snap, a)
    BY <1>3, WritesBy
  <2>. QED
    BY <1>0, <2>1 DEF UserWrites
<1>4. CASE job[1] = "align"
  <2>1. w \in AlignWrites(e, q.snap, q.want, a)
    BY <1>4, WritesBy
  <2>. QED
    <3>1. AlignWrite(w, a, OwnAligned(e, q.snap), ManagedGroups(q.snap), q.want)
      BY <2>1, AlignWritesAre
    <3>. QED
      BY ONLY <3>1 DEF AlignWrite, IsTo
<1>5. CASE job[1] = "settings"
  <2>1. w \in SettingsWrites(e, a)
    BY <1>5, WritesBy
  <2>. QED
    <3>. DEFINE body == PeerBody(a.peers[e.id], e.conf, FALSE)
    <3>1. w = To("peers", e.id, body)
      BY <2>1 DEF SettingsWrites
    <3>. HIDE DEF body
    <3>. QED
      BY ONLY <1>0, <3>1
<1>6. CASE job[1] = "member"
  <2>1. w \in MemberWrites(e, q.page, q.snap, job[2], a)
    BY <1>6, WritesBy
  <2>. QED
    <3>. DEFINE joins == Chosen(e, PeerPage(q.page, e.id), q.snap.peers[e.id].groups, q.snap)
    <3>1. MemberWrite(w, a, job[2], e.id, joins)
      BY <2>1, MemberWritesAre
    <3>. QED
      BY ONLY <3>1 DEF MemberWrite, IsTo
<1>7. CASE job[1] = "key"
  <2>1. w \in BulkWrites(e, job[2], a) \/ w \in DeleteKeyWrites(job[2], a)
        \/ w \in KeyWrites(e, q.page, q.snap, job[2], a)
    BY <1>7, WritesBy
  <2>2. w.type = "keys"
    BY <2>1, BulkWritesAre, DeleteKeyWritesAre, KeyWritesAre DEF IsTo
  <2>. QED
    BY <2>2
<1>8. CASE job[1] = "net"
  <2>1. w \in NetWrites(e, a)
    BY <1>8, WritesBy
  <2>. QED
    BY <2>1, NetWritesAre DEF IsTo
<1>9. CASE job[1] = "resource"
  <2>1. w \in ResourceWrites(e, q.page, a)
    BY <1>9, WritesBy
  <2>. QED
    BY <2>1, ResourceWritesAre
<1>10. CASE job[1] = "router"
  <2>1. w \in RouterWrites(e, a)
    BY <1>10, WritesBy
  <2>. QED
    BY <2>1, RouterWritesAre
<1>. QED
  BY <1>1, <1>2, <1>3, <1>4, <1>5, <1>6, <1>7, <1>8, <1>9, <1>10, JobIs

(* The rules that one editor plans to write were given their ids by others *)
(* that wrote, as those of its page and of the account were.               *)
PlannedIds(r, q, w, a) ==
  /\ Numberable(PlannedRules(w), r)
  /\ \A s \in Editors :
       RulesNotBy(a, s) /\ MadeByOthers(PageRules(q), {s}) => MadeByOthers(PlannedRules(w), {s})

LEMMA SourcedPlan ==
  ASSUME NEW r, NEW q, NEW w, NEW a, w.type = "policies" /\ w.body # Gone, NEW old,
         Sourced(w.body.rules, r, old),
         \A s \in Editors : RulesNotBy(a, s) /\ MadeByOthers(PageRules(q), {s})
                              => MadeByOthers(old, {s})
  PROVE  PlannedIds(r, q, w, a)
<1>1. PlannedRules(w) = w.body.rules
  BY DEF PlannedRules
<1>2. ASSUME NEW s \in Editors, RulesNotBy(a, s), MadeByOthers(PageRules(q), {s})
      PROVE  MadeByOthers(PlannedRules(w), {s})
  <2>1. MadeByOthers(old, {s})
    BY <1>2
  <2>. QED
    BY <1>1, <2>1, MadeFrom DEF Sourced
<1>. QED
  BY <1>1, <1>2 DEF PlannedIds, Sourced

LEMMA NoRulesPlan ==
  ASSUME NEW r, NEW q, NEW w, NEW a, w.type # "policies" \/ w.body = Gone
  PROVE  PlannedIds(r, q, w, a)
<1>1. PlannedRules(w) = {}
  BY DEF PlannedRules
<1>2. \A s : MadeByOthers({}, s)
  BY DEF MadeByOthers
<1>3. Numberable({}, r)
  BY DEF Numberable
<1>. QED
  BY <1>1, <1>2, <1>3 DEF PlannedIds

LEMMA WritesIds ==
  ASSUME NEW r \in Editors, NEW q, NEW job, NEW a, ValidAccount(a), q.make \in Edits,
         JobOf(r, q.make, job), Reads(q.make, job, a), RulesApart(a), q.pc # "none",
         Apart(PageRules(q)), MadeByOthers(PageRules(q), {r}),
         NEW w \in Writes(r, q, job, a), w.body # Bad
  PROVE  PlannedIds(r, q, w, a)
<1>. DEFINE e == q.make
<1>0. FormOf(e)
  BY FormIs
<1>1. CASE job[1] = "policy" /\ w.type = "policies" /\ w.body # Gone
  <2>1. e.kind = "policy" /\ w \in PolicyWrites(e, q.page, a)
    BY <1>1, SingleJob, WritesBy
  <2>2. PageRules(q) = q.page.policies[e.id].rules
    BY <2>1 DEF PageRules
  <2>3. Sourced(w.body.rules, r, PageRules(q))
    BY <1>0, <2>1, <2>2, PolicyIds
  <2>. QED
    BY ONLY <1>1, <2>3, SourcedPlan
<1>2. CASE job[1] \in {"toggle", "revoke"} /\ w.type = "policies" /\ w.body # Gone
  <2>1. e.id \in DOMAIN a.policies
    BY <1>2, SingleJob DEF Reads
  <2>2. w \in ToggleWrites(e, a) \/ w \in RevokeWrites(e, a)
    BY <1>2, WritesBy
  <2>3. Sourced(w.body.rules, r, a.policies[e.id].rules)
    BY <1>2, <2>1, <2>2, ToggleIds, RevokeIds
  <2>4. \A s \in Editors : RulesNotBy(a, s) => MadeByOthers(a.policies[e.id].rules, {s})
    BY <2>1 DEF RulesNotBy
  <2>. QED
    BY ONLY <1>2, <2>3, <2>4, SourcedPlan
<1>3. CASE job[1] = "restore" /\ w.type = "policies" /\ w.body # Gone
  <2>1. e.kind = "restore" /\ w \in RestoreWrites(r, e, q.snap)
    BY <1>3, SingleJob, WritesBy
  <2>2. e.type = "policies"
    BY <1>3, <2>1, RestoreWritesAre
  <2>3. Sourced(w.body.rules, r, e.old.rules)
    BY <1>0, <2>1, <2>2, RestoreIds
  <2>4. \A s \in Editors : MadeByOthers(e.old.rules, {s})
    BY <1>0, <2>1, <2>2 DEF FormOf, MadeByOthers
  <2>. QED
    BY ONLY <1>3, <2>3, <2>4, SourcedPlan
<1>4. CASE job[1] = "delete"
  <2>1. e.kind = "delete" /\ w = Removal(e)
    BY <1>4, SingleJob, WritesBy
  <2>2. w.body = Gone
    BY <1>0, <2>1, RemovalIs DEF FormOf
  <2>. QED
    BY <2>2, NoRulesPlan
<1>5. CASE job[1] = "post" /\ w.type = "policies" /\ w.body # Gone
  <2>1. Writes(r, q, job, a) = {Post(r, e)}
    BY <1>5, WritesBy
  <2>2. w.type = e.type /\ w.body = Posted(e)
    BY <2>1 DEF Post, Write
  <2>3. e.kind \in {"new group", "new policy", "allow", "new key", "new net", "new resource",
                    "new router"}
    BY <1>5, JobIs
  <2>4. e.kind \in {"new policy", "allow"}
    BY <1>0, <1>5, <2>2, <2>3 DEF FormOf
  <2>5. Sourced(w.body.rules, r, {})
    BY <1>0, <2>2, <2>4, PostIds
  <2>6. \A s \in Editors : MadeByOthers({}, {s})
    BY DEF MadeByOthers
  <2>. QED
    BY ONLY <1>5, <2>5, <2>6, SourcedPlan
<1>6. CASE job[1] \notin {"policy", "toggle", "revoke", "restore", "delete", "post"}
  BY <1>6, OtherTypes, NoRulesPlan
<1>7. CASE w.type # "policies" \/ w.body = Gone
  BY <1>7, NoRulesPlan
<1>. QED
  BY <1>1, <1>2, <1>3, <1>4, <1>5, <1>6, <1>7

-----------------------------------------------------------------------------
(* What is needed to see that others are kept: the ids of rules, and that  *)
(* a plan fits the account as long as nobody overtook it.                  *)

IdsOf(r, q) ==
  /\ q.pc = "none" => ~q.wrote
  /\ Apart(PageRules(q)) /\ MadeByOthers(PageRules(q), {r})
  /\ \A w \in q.plan : Numberable(PlannedRules(w), r)

NotBy(q, s) ==
  MadeByOthers(PageRules(q), {s}) /\ \A w \in q.plan : MadeByOthers(PlannedRules(w), {s})

KeptInv ==
  /\ RulesApart(acc)
  /\ \A r \in Editors : IdsOf(r, edit[r])
  /\ \A s \in Editors :
       ~edit[s].wrote => RulesNotBy(acc, s) /\ \A r \in Editors : NotBy(edit[r], s)
  /\ \A r \in Editors : edit[r].current => PlanFits(r, edit[r], acc)

LEMMA KeptInit ==
  ASSUME EditInit
  PROVE  KeptInv
<1>1. acc \in Accounts /\ \A r \in Editors : edit[r] = Idle
  BY DEF EditInit
<1>2. Idle.pc = "none" /\ Idle.plan = {} /\ ~Idle.wrote
  BY DEF Idle
<1>3. \A i \in DOMAIN acc.policies :
        Apart(acc.policies[i].rules) /\ MadeByOthers(acc.policies[i].rules, Editors)
  BY <1>1, EditConstants
<1>4. PageRules(Idle) = {}
  BY <1>2 DEF PageRules
<1>5. Apart({}) /\ \A s : MadeByOthers({}, s)
  BY DEF Apart, MadeByOthers
<1>6. \A r \in Editors : IdsOf(r, Idle) /\ NotBy(Idle, r)
  BY <1>2, <1>4, <1>5 DEF IdsOf, NotBy
<1>7. \A r : PlanFits(r, Idle, acc)
  BY <1>2, EmptyFits
<1>8. \A s \in Editors : RulesNotBy(acc, s)
  BY <1>3 DEF RulesNotBy, MadeByOthers
<1>9. RulesApart(acc)
  BY <1>3 DEF RulesApart
<1>. QED
  BY <1>1, <1>6, <1>7, <1>8, <1>9 DEF KeptInv, NotBy, IdsOf

LEMMA KeptBecomes ==
  ASSUME EditInv, KeptInv, NEW r \in Editors, NEW q, Becomes(r, q), acc' = acc,
         ~q.wrote => ~edit[r].wrote, IdsOf(r, q),
         \A s \in Editors : ~edit[s].wrote => NotBy(q, s),
         q.current => PlanFits(r, q, acc)
  PROVE  KeptInv'
<1>1. \A s \in Editors : edit'[s] = IF s = r THEN q ELSE edit[s]
  BY DEF Becomes, EditInv
<1>2. RulesApart(acc')
  BY DEF KeptInv
<1>3. \A s \in Editors : IdsOf(s, edit'[s])
  BY <1>1 DEF KeptInv
<1>4. ASSUME NEW s \in Editors, ~edit'[s].wrote
      PROVE  RulesNotBy(acc', s) /\ \A t \in Editors : NotBy(edit'[t], s)
  <2>1. ~edit[s].wrote
    <3>1. CASE s = r
      BY <1>1, <1>4, <3>1
    <3>2. CASE s # r
      BY <1>1, <1>4, <3>2
    <3>. QED
      BY <3>1, <3>2
  <2>2. RulesNotBy(acc, s) /\ \A t \in Editors : NotBy(edit[t], s)
    BY <2>1 DEF KeptInv
  <2>3. NotBy(q, s)
    BY <2>1
  <2>. QED
    BY <1>1, <2>2, <2>3
<1>5. ASSUME NEW s \in Editors, edit'[s].current
      PROVE  PlanFits(s, edit'[s], acc')
  <2>1. CASE s = r
    BY <1>1, <1>5, <2>1
  <2>2. CASE s # r
    BY <1>1, <1>5, <2>2 DEF KeptInv
  <2>. QED
    BY <2>1, <2>2
<1>. QED
  BY <1>2, <1>3, <1>4, <1>5 DEF KeptInv

LEMMA PageSame ==
  ASSUME NEW q, NEW p, p.pc # "none", q.pc # "none", p.make = q.make, p.page = q.page
  PROVE  PageRules(p) = PageRules(q)
  BY DEF PageRules

(* A step that plans nothing.                                              *)
LEMMA KeptIdle ==
  ASSUME EditInv, KeptInv, NEW r \in Editors, NEW q, Becomes(r, q), acc' = acc,
         edit[r].pc # "none", q.pc # "none", q.make = edit[r].make, q.page = edit[r].page,
         q.wrote = edit[r].wrote, q.plan = {}
  PROVE  KeptInv'
<1>1. PageRules(q) = PageRules(edit[r])
  BY PageSame
<1>2. IdsOf(r, edit[r])
  BY DEF KeptInv
<1>3. IdsOf(r, q)
  BY <1>1, <1>2 DEF IdsOf
<1>4. ASSUME NEW s \in Editors, ~edit[s].wrote
      PROVE  NotBy(q, s)
  <2>1. NotBy(edit[r], s)
    BY <1>4 DEF KeptInv
  <2>. QED
    BY <1>1, <2>1 DEF NotBy
<1>5. PlanFits(r, q, acc)
  BY EmptyFits
<1>. QED
  BY <1>3, <1>4, <1>5, KeptBecomes

LEMMA KeptOpen ==
  ASSUME EditInv, KeptInv, NEW r \in Editors, NEW e \in Edits, Open(r, e)
  PROVE  KeptInv'
<1>. DEFINE q == [Idle EXCEPT !.pc = "open", !.make = e, !.page = acc]
<1>1. Becomes(r, q) /\ acc' = acc /\ edit[r].pc = "none" /\ Shows(e, acc)
  BY DEF Open
<1>2. /\ q.pc = "open" /\ q.make = e /\ q.page = acc /\ q.plan = {} /\ q.wrote = FALSE
  BY DEF Idle
<1>. HIDE DEF q
<1>3. ~edit[r].wrote
  BY <1>1 DEF KeptInv, IdsOf
<1>4. RulesApart(acc) /\ \A s \in Editors : ~edit[s].wrote => RulesNotBy(acc, s)
  BY DEF KeptInv
<1>5. CASE e.kind = "policy"
  <2>1. e.id # None /\ e.type = "policies"
    BY <1>5, FormIs DEF FormOf
  <2>2. e.id \in DOMAIN acc.policies
    BY <1>1, <1>5, <2>1 DEF Shows, OfObject, Held
  <2>3. PageRules(q) = acc.policies[e.id].rules
    BY <1>2, <1>5 DEF PageRules
  <2>4. Apart(PageRules(q))
    BY <1>4, <2>2, <2>3 DEF RulesApart
  <2>5. \A s \in Editors : ~edit[s].wrote => MadeByOthers(PageRules(q), {s})
    BY <1>4, <2>2, <2>3 DEF RulesNotBy
  <2>. QED
    BY <1>1, <1>2, <1>3, <2>4, <2>5, EmptyFits, KeptBecomes DEF IdsOf, NotBy
<1>6. CASE e.kind # "policy"
  <2>1. PageRules(q) = {}
    BY <1>2, <1>6 DEF PageRules
  <2>2. Apart({}) /\ \A s : MadeByOthers({}, s)
    BY DEF Apart, MadeByOthers
  <2>. QED
    BY <1>1, <1>2, <1>3, <2>1, <2>2, EmptyFits, KeptBecomes DEF IdsOf, NotBy
<1>. QED
  BY <1>5, <1>6

LEMMA KeptPreview ==
  ASSUME EditInv, KeptInv, NEW r \in Editors, Preview(r)
  PROVE  KeptInv'
<1>1. PICK shown : Becomes(r, [edit[r] EXCEPT !.pc = "shown", !.shown = shown])
  BY DEF Preview
<1>. DEFINE q == [edit[r] EXCEPT !.pc = "shown", !.shown = shown]
<1>2. edit[r].pc = "open" /\ acc' = acc
  BY DEF Preview
<1>3. DOMAIN edit[r] = Parts /\ edit[r].plan = {}
  BY <1>2 DEF EditInv, ValidEdit
<1>4. q.pc = "shown" /\ \A x \in Parts \ {"pc", "shown"} : q[x] = edit[r][x]
  BY <1>3 DEF Parts
<1>5. Becomes(r, q)
  BY <1>1
<1>. HIDE DEF q
<1>6. q.make = edit[r].make /\ q.page = edit[r].page /\ q.wrote = edit[r].wrote /\ q.plan = {}
  BY <1>3, <1>4 DEF Parts
<1>. QED
  BY <1>2, <1>4, <1>5, <1>6, KeptIdle

LEMMA KeptSubmit ==
  ASSUME EditInv, KeptInv, NEW r \in Editors, Submit(r)
  PROVE  KeptInv'
<1>1. PICK snap : Becomes(r, Goes([edit[r] EXCEPT !.snap = snap,
                                     !.todo = Jobs(r, edit[r].make, edit[r].page, snap)]))
  BY DEF Submit
<1>. DEFINE jobs == Jobs(r, edit[r].make, edit[r].page, snap)
            q == [edit[r] EXCEPT !.snap = snap, !.todo = jobs]
            p == Goes(q)
<1>2. edit[r].pc = "shown" /\ acc' = acc
  BY DEF Submit
<1>3. DOMAIN edit[r] = Parts /\ edit[r].plan = {}
  BY <1>2 DEF EditInv, ValidEdit
<1>. HIDE DEF jobs
<1>4. DOMAIN q = Parts /\ \A x \in Parts \ {"snap", "todo"} : q[x] = edit[r][x]
  BY <1>3 DEF Parts
<1>5. Becomes(r, p)
  BY <1>1 DEF jobs
<1>. HIDE DEF q
<1>6. /\ p.pc = IF q.plan # {} THEN "put" ELSE IF q.todo.now # {} THEN "turn" ELSE "saved"
      /\ \A x \in Parts \ {"pc"} : p[x] = q[x]
  BY <1>4, GoesIs
<1>. HIDE DEF p
<1>7. /\ p.make = edit[r].make /\ p.page = edit[r].page /\ p.wrote = edit[r].wrote /\ p.plan = {}
      /\ p.pc # "none"
  BY <1>3, <1>4, <1>6 DEF Parts
<1>. QED
  BY <1>2, <1>5, <1>7, KeptIdle

(* A failed job plans nothing.                                             *)
LEMMA FailedPlansNothing ==
  ASSUME NEW q, NEW job, DOMAIN q = Parts
  PROVE  /\ Failed(q, job).pc # "none" /\ Failed(q, job).plan = {}
         /\ Failed(q, job).make = q.make /\ Failed(q, job).page = q.page
         /\ Failed(q, job).wrote = q.wrote
<1>. DEFINE p == Failed(q, job)
<1>1. /\ p.plan = {}
      /\ \A x \in Parts \ {"pc", "plan", "todo"} : p[x] = q[x]
      /\ q.make.kind = "bulk" => p.pc = IF q.todo.now # {} THEN "turn" ELSE "saved"
      /\ q.make.kind # "bulk" => p.pc = Answer(job)
  BY FailedIs
<1>2. Answer(job) # "none"
  BY DEF Answer
<1>. HIDE DEF p
<1>3. p.pc # "none" /\ p.plan = {} /\ p.make = q.make /\ p.page = q.page /\ p.wrote = q.wrote
  BY <1>1, <1>2 DEF Parts
<1>. QED
  BY <1>3 DEF p

LEMMA KeptFailed ==
  ASSUME EditInv, KeptInv, NEW r \in Editors, NEW q, NEW job, DOMAIN q = Parts,
         Becomes(r, Failed(q, job)), acc' = acc, edit[r].pc # "none",
         q.make = edit[r].make, q.page = edit[r].page, q.wrote = edit[r].wrote
  PROVE  KeptInv'
<1>. DEFINE p == Failed(q, job)
<1>1. /\ p.pc # "none" /\ p.plan = {} /\ p.make = edit[r].make /\ p.page = edit[r].page
      /\ p.wrote = edit[r].wrote
  BY FailedPlansNothing
<1>. HIDE DEF p
<1>2. Becomes(r, p)
  BY DEF p
<1>. QED
  BY <1>1, <1>2, KeptIdle

LEMMA KeptRefused ==
  ASSUME EditInv, KeptInv, NEW r \in Editors, Refused(r)
  PROVE  KeptInv'
<1>1. edit[r].pc = "put" /\ Becomes(r, Failed(edit[r], edit[r].job)) /\ acc' = acc
  BY DEF Refused
<1>2. DOMAIN edit[r] = Parts
  BY DEF EditInv, ValidEdit
<1>. QED
  BY <1>1, <1>2, KeptFailed

LEMMA KeptNoAnswer ==
  ASSUME EditInv, KeptInv, NEW r \in Editors, NoAnswer(r)
  PROVE  KeptInv'
<1>1. PICK job \in edit[r].todo.now :
        Becomes(r, Failed([edit[r] EXCEPT !.job = job, !.todo = Rest(edit[r].todo, job)], job))
  BY DEF NoAnswer
<1>. DEFINE q == [edit[r] EXCEPT !.job = job, !.todo = Rest(edit[r].todo, job)]
<1>2. edit[r].pc = "turn" /\ acc' = acc
  BY DEF NoAnswer
<1>3. DOMAIN edit[r] = Parts
  BY DEF EditInv, ValidEdit
<1>4. DOMAIN q = Parts /\ \A x \in Parts \ {"job", "todo"} : q[x] = edit[r][x]
  BY <1>3 DEF Parts
<1>5. Becomes(r, Failed(q, job))
  BY <1>1
<1>. HIDE DEF q
<1>6. q.make = edit[r].make /\ q.page = edit[r].page /\ q.wrote = edit[r].wrote
  BY <1>4 DEF Parts
<1>. QED
  BY <1>2, <1>4, <1>5, <1>6, KeptFailed

LEMMA KeptWork ==
  ASSUME EditInv, KeptInv, NEW r \in Editors, Work(r)
  PROVE  KeptInv'
<1>1. PICK job \in edit[r].todo.now :
        LET q == [edit[r] EXCEPT !.job = job, !.todo = Rest(@, job), !.current = TRUE]
            e == q.make
            writes == Writes(r, q, job, acc)
            want == IF job[1] = "user" THEN UserWant(e, q.page, q.snap, acc) ELSE q.want
        IN  Becomes(r, IF ~Reads(e, job, acc) THEN Failed(q, job)
                       ELSE IF \E w \in writes : w.body = Bad THEN Failed(q, job)
                       ELSE Goes([q EXCEPT !.plan = writes, !.want = want]))
  BY DEF Work
<1>. DEFINE q == [edit[r] EXCEPT !.job = job, !.todo = Rest(edit[r].todo, job), !.current = TRUE]
            writes == Writes(r, q, job, acc)
            want == IF job[1] = "user" THEN UserWant(q.make, q.page, q.snap, acc) ELSE q.want
            p == [q EXCEPT !.plan = writes, !.want = want]
            g == Goes(p)
<1>2. \/ Becomes(r, Failed(q, job))
      \/ /\ Becomes(r, g)
         /\ Reads(q.make, job, acc) /\ \A w \in writes : w.body # Bad
  BY <1>1
<1>3. edit[r].pc = "turn" /\ acc' = acc
  BY DEF Work
<1>4. ValidEdit(r, edit[r]) /\ ValidAccount(acc)
  BY DEF EditInv
<1>5. /\ DOMAIN q = Parts /\ \A x \in Parts \ {"job", "todo", "current"} : q[x] = edit[r][x]
  BY <1>4 DEF ValidEdit, Parts
<1>6. DOMAIN p = Parts /\ p.plan = writes /\ \A x \in Parts \ {"plan", "want"} : p[x] = q[x]
  BY <1>5 DEF Parts
<1>7. JobOf(r, edit[r].make, job) /\ edit[r].make \in Edits
  BY <1>3, <1>4 DEF ValidEdit
<1>. HIDE DEF q, p, writes, want
<1>8. /\ q.pc = "turn" /\ q.make = edit[r].make /\ q.page = edit[r].page
      /\ q.wrote = edit[r].wrote
  BY <1>3, <1>5 DEF Parts
<1>9. /\ g.pc = IF p.plan # {} THEN "put" ELSE IF p.todo.now # {} THEN "turn" ELSE "saved"
      /\ \A x \in Parts \ {"pc"} : g[x] = p[x]
  BY <1>6, GoesIs
<1>. HIDE DEF g
<1>10. /\ g.pc # "none" /\ g.make = edit[r].make /\ g.page = edit[r].page
       /\ g.wrote = edit[r].wrote /\ g.plan = writes
  BY <1>6, <1>8, <1>9 DEF Parts
<1>11. CASE Becomes(r, Failed(q, job))
  BY <1>3, <1>5, <1>8, <1>11, KeptFailed
<1>12. CASE Becomes(r, g) /\ Reads(q.make, job, acc) /\ \A w \in writes : w.body # Bad
  <2>1. PageRules(q) = PageRules(edit[r]) /\ PageRules(g) = PageRules(edit[r])
    BY <1>3, <1>8, <1>10, PageSame
  <2>2. RulesApart(acc) /\ Apart(PageRules(q)) /\ MadeByOthers(PageRules(q), {r})
    BY <2>1 DEF KeptInv, IdsOf
  <2>3. \A w \in writes : PlannedIds(r, q, w, acc)
    BY <1>4, <1>7, <1>8, <1>12, <2>2, WritesIds DEF writes
  <2>4. IdsOf(r, g)
    BY <1>10, <2>1, <2>2, <2>3 DEF IdsOf, PlannedIds
  <2>5. ASSUME NEW s \in Editors, ~edit[s].wrote
        PROVE  NotBy(g, s)
    <3>1. RulesNotBy(acc, s) /\ MadeByOthers(PageRules(q), {s})
      BY <2>1, <2>5 DEF KeptInv, NotBy
    <3>. QED
      BY <1>10, <2>1, <2>3, <3>1 DEF NotBy, PlannedIds
  <2>6. PlanFits(r, g, acc)
    <3>1. g.make = q.make /\ g.page = q.page /\ g.plan = Writes(r, q, job, acc)
      BY <1>8, <1>10 DEF writes
    <3>. QED
      BY <1>4, <1>7, <1>8, <1>12, <2>2, <3>1, WritesFit DEF writes
  <2>. QED
    BY <1>3, <1>10, <1>12, <2>4, <2>5, <2>6, KeptBecomes
<1>. QED
  BY <1>2, <1>11, <1>12

(* A write, answered or not.                                               *)
LEMMA KeptWrite ==
  ASSUME EditInv, KeptInv, NEW r \in Editors, NEW w \in edit[r].plan, Takes(r, w),
         NEW q, Others(r, q), q.pc # "none", q.make = edit[r].make, q.page = edit[r].page,
         q.wrote, q.current = edit[r].current, edit[r].pc = "put",
         q.plan = {} \/ q.plan = edit[r].plan \ {w}
  PROVE  KeptInv'
<1>1. ValidAccount(acc) /\ \A v \in edit[r].plan : ValidWrite(v)
  BY DEF EditInv, ValidEdit
<1>2. Accepts(acc, w) /\ acc' = Applied(acc, w, r)
  BY DEF Takes
<1>3. edit'[r] = q
  BY DEF Others
<1>4. ASSUME NEW s \in Editors, s # r
      PROVE  ~edit'[s].current /\ \A x \in Parts \ {"alone", "current"} : edit'[s][x] = edit[s][x]
  <2>. DEFINE p == [edit[s] EXCEPT !.alone = FALSE, !.current = FALSE]
  <2>1. edit'[s] = p
    BY <1>4 DEF Others
  <2>2. DOMAIN edit[s] = Parts
    BY DEF EditInv, ValidEdit
  <2>3. ~p.current /\ \A x \in Parts \ {"alone", "current"} : p[x] = edit[s][x]
    BY <2>2, OvertakenIs
  <2>. HIDE DEF p
  <2>. QED
    BY <2>1, <2>3
<1>5. ASSUME NEW s \in Editors, s # r
      PROVE  /\ edit'[s].pc = edit[s].pc /\ edit'[s].wrote = edit[s].wrote
             /\ edit'[s].plan = edit[s].plan /\ PageRules(edit'[s]) = PageRules(edit[s])
             /\ ~edit'[s].current
  BY <1>4, <1>5 DEF Parts, PageRules
<1>6. PageRules(q) = PageRules(edit[r])
  BY PageSame
<1>7. RulesApart(acc) /\ Numberable(PlannedRules(w), r)
  BY DEF KeptInv, IdsOf
<1>8. RulesApart(acc')
  BY <1>1, <1>2, <1>7, StepRules
<1>9. IdsOf(r, q)
  <2>1. IdsOf(r, edit[r])
    BY DEF KeptInv
  <2>2. \A v \in q.plan : v \in edit[r].plan
    OBVIOUS
  <2>. QED
    BY <1>6, <2>1, <2>2 DEF IdsOf
<1>10. \A s \in Editors : IdsOf(s, edit'[s])
  <2>1. ASSUME NEW s \in Editors, s # r
        PROVE  IdsOf(s, edit'[s])
    <3>1. IdsOf(s, edit[s])
      BY DEF KeptInv
    <3>. QED
      BY <1>5, <2>1, <3>1 DEF IdsOf
  <2>. QED
    BY <1>3, <1>9, <2>1
<1>11. ASSUME NEW s \in Editors, ~edit'[s].wrote
       PROVE  RulesNotBy(acc', s) /\ \A t \in Editors : NotBy(edit'[t], s)
  <2>1. s # r
    BY <1>3, <1>11
  <2>2. ~edit[s].wrote
    BY <1>5, <1>11, <2>1
  <2>3. RulesNotBy(acc, s) /\ \A t \in Editors : NotBy(edit[t], s)
    BY <2>2 DEF KeptInv
  <2>4. MadeByOthers(PlannedRules(w), {s})
    BY <2>3 DEF NotBy
  <2>5. RulesNotBy(acc', s)
    BY <1>1, <1>2, <1>7, <2>1, <2>3, <2>4, StepRules
  <2>6. NotBy(q, s)
    <3>1. \A v \in q.plan : v \in edit[r].plan
      OBVIOUS
    <3>. QED
      BY <1>6, <2>3, <3>1 DEF NotBy
  <2>7. \A t \in Editors : t # r => NotBy(edit'[t], s)
    BY <1>5, <2>3 DEF NotBy
  <2>. QED
    BY <1>3, <2>5, <2>6, <2>7
<1>12. ASSUME NEW s \in Editors, edit'[s].current
       PROVE  PlanFits(s, edit'[s], acc')
  <2>1. s = r
    BY <1>5, <1>12
  <2>2. PlanFits(r, edit[r], acc)
    BY <1>3, <1>12, <2>1 DEF KeptInv
  <2>3. CASE q.plan = {}
    BY <1>3, <2>1, <2>3, EmptyFits
  <2>4. CASE q.plan = edit[r].plan \ {w}
    BY <1>1, <1>2, <1>3, <2>1, <2>2, <2>4, RestFits
  <2>. QED
    BY <2>3, <2>4
<1>. QED
  BY <1>8, <1>10, <1>11, <1>12 DEF KeptInv

LEMMA KeptSave ==
  ASSUME EditInv, KeptInv, NEW r \in Editors, Save(r)
  PROVE  KeptInv'
<1>1. PICK w \in edit[r].plan :
        /\ Takes(r, w)
        /\ Others(r, Goes([edit[r] EXCEPT !.plan = edit[r].plan \ {w}, !.wrote = TRUE]))
  BY DEF Save
<1>. DEFINE q == [edit[r] EXCEPT !.plan = edit[r].plan \ {w}, !.wrote = TRUE]
            p == Goes(q)
<1>2. edit[r].pc = "put" /\ DOMAIN edit[r] = Parts
  BY DEF Save, EditInv, ValidEdit
<1>3. /\ DOMAIN q = Parts /\ q.plan = edit[r].plan \ {w} /\ q.wrote
      /\ \A x \in Parts \ {"plan", "wrote"} : q[x] = edit[r][x]
  BY <1>2 DEF Parts
<1>4. Others(r, p) /\ Takes(r, w)
  BY <1>1
<1>. HIDE DEF q
<1>5. /\ p.pc = IF q.plan # {} THEN "put" ELSE IF q.todo.now # {} THEN "turn" ELSE "saved"
      /\ \A x \in Parts \ {"pc"} : p[x] = q[x]
  BY <1>3, GoesIs
<1>. HIDE DEF p
<1>6. /\ p.pc # "none" /\ p.make = edit[r].make /\ p.page = edit[r].page
      /\ p.wrote /\ p.current = edit[r].current /\ p.plan = edit[r].plan \ {w}
  BY <1>3, <1>5 DEF Parts
<1>. QED
  BY <1>2, <1>4, <1>6, KeptWrite

LEMMA KeptAnswerLost ==
  ASSUME EditInv, KeptInv, NEW r \in Editors, AnswerLost(r)
  PROVE  KeptInv'
<1>1. PICK w \in edit[r].plan :
        /\ Takes(r, w)
        /\ Others(r, Failed([edit[r] EXCEPT !.wrote = TRUE, !.lost = TRUE], edit[r].job))
  BY DEF AnswerLost
<1>. DEFINE q == [edit[r] EXCEPT !.wrote = TRUE, !.lost = TRUE]
            p == Failed(q, edit[r].job)
<1>2. edit[r].pc = "put" /\ DOMAIN edit[r] = Parts
  BY DEF AnswerLost, EditInv, ValidEdit
<1>3. DOMAIN q = Parts /\ q.wrote /\ \A x \in Parts \ {"wrote", "lost"} : q[x] = edit[r][x]
  BY <1>2 DEF Parts
<1>4. Others(r, p) /\ Takes(r, w)
  BY <1>1
<1>. HIDE DEF q
<1>5. /\ p.pc # "none" /\ p.plan = {} /\ p.make = q.make /\ p.page = q.page /\ p.wrote = q.wrote
  BY <1>3, FailedPlansNothing
<1>6. p.current = q.current
  BY <1>3, FailedIs DEF Parts
<1>. HIDE DEF p
<1>7. /\ p.make = edit[r].make /\ p.page = edit[r].page /\ p.wrote /\ p.current = edit[r].current
  BY <1>3, <1>5, <1>6 DEF Parts
<1>. QED
  BY <1>2, <1>4, <1>5, <1>7, KeptWrite

LEMMA KeptNext ==
  ASSUME EditInv, KeptInv, [EditNext]_editVars
  PROVE  KeptInv'
<1>1. CASE EditNext
  BY <1>1, KeptOpen, KeptPreview, KeptSubmit, KeptWork, KeptSave, KeptAnswerLost, KeptRefused,
     KeptNoAnswer DEF EditNext
<1>2. CASE UNCHANGED editVars
  <2>1. acc' = acc /\ edit' = edit
    BY <1>2 DEF editVars
  <2>. QED
    BY <2>1 DEF KeptInv
<1>. QED
  BY <1>1, <1>2

-----------------------------------------------------------------------------
(* A write is planned, and made, by the same editor.                       *)
LEMMA WriteKeeps ==
  ASSUME EditInv, KeptInv, NEW s \in Editors, NEW w \in edit[s].plan, Takes(s, w),
         NEW q, Others(s, q), NEW r \in Editors, edit'[r].plan # edit[r].plan, edit[r].current,
         NEW f \in Flip(Facts(acc), Facts(acc'))
  PROVE  Asked(r, edit[r], f, acc)
<1>1. r = s
  <2>1. CASE r # s
    <3>. DEFINE p == [edit[r] EXCEPT !.alone = FALSE, !.current = FALSE]
    <3>1. edit'[r] = p
      BY <2>1 DEF Others
    <3>2. DOMAIN edit[r] = Parts
      BY DEF EditInv, ValidEdit
    <3>3. \A x \in Parts \ {"alone", "current"} : p[x] = edit[r][x]
      BY <3>2, OvertakenIs
    <3>. HIDE DEF p
    <3>. QED
      BY <3>1, <3>3 DEF Parts
  <2>. QED
    BY <2>1
<1>2. ValidAccount(acc) /\ ValidWrite(w)
  BY DEF EditInv, ValidEdit
<1>3. PlanFits(r, edit[r], acc)
  BY DEF KeptInv
<1>4. Accepts(acc, w) /\ acc' = Applied(acc, w, r)
  BY <1>1 DEF Takes
<1>5. Explained(r, edit[r], w, acc)
  BY <1>1, <1>2, <1>3, FitsExplained
<1>6. Changed(f, acc, w, r)
  BY <1>4 DEF Changed
<1>. QED
  BY <1>4, <1>5, <1>6 DEF Explained

(* A save changes nothing that its user did not ask for, whatever others   *)
(* did since the page was made (WebEdit.OthersKept), for any number of     *)
(* editors, any edits and any accounts: every job starts from what NetBird *)
(* answers just before the write, and each of its writes changes what the  *)
(* form says. That needs rules to keep ids of their own, which were given  *)
(* by an editor that wrote.                                                *)
THEOREM SavesKeepOthers == EditSpec => OthersKept
<1>1. EditInit => EditInv /\ KeptInv
  BY InvInit, KeptInit
<1>2. EditInv /\ KeptInv /\ [EditNext]_editVars => (EditInv /\ KeptInv)'
  BY InvNext, KeptNext
<1>3. EditInv /\ KeptInv /\ [EditNext]_editVars =>
        [\A r \in Editors :
           (acc' # acc /\ edit'[r].plan # edit[r].plan /\ edit[r].current) =>
             \A f \in Flip(Facts(acc), Facts(acc')) : Asked(r, edit[r], f, acc)]_editVars
  <2>. SUFFICES ASSUME EditInv, KeptInv, EditNext, NEW r \in Editors,
                       acc' # acc, edit'[r].plan # edit[r].plan, edit[r].current,
                       NEW f \in Flip(Facts(acc), Facts(acc'))
                PROVE  Asked(r, edit[r], f, acc)
    OBVIOUS
  <2>1. PICK s \in Editors : Save(s) \/ AnswerLost(s)
    <3>1. PICK s \in Editors : \/ \E e \in Edits : Open(s, e)
                               \/ Preview(s) \/ Submit(s) \/ Work(s) \/ Save(s)
                               \/ AnswerLost(s) \/ Refused(s) \/ NoAnswer(s)
      BY DEF EditNext
    <3>. QED
      BY <3>1 DEF Open, Preview, Submit, Work, Refused, NoAnswer
  <2>2. \E w \in edit[s].plan : Takes(s, w) /\ \E q : Others(s, q)
    BY <2>1 DEF Save, AnswerLost
  <2>. QED
    BY <2>2, WriteKeeps
<1>. QED
  BY <1>1, <1>2, <1>3, PTL DEF EditSpec, OthersKept

-----------------------------------------------------------------------------
(* What a step makes of the edit q of r: an edit p, and another account.   *)

Same1(p, q, changed) == DOMAIN p = Parts /\ \A x \in Parts \ changed : p[x] = q[x]

NextPc(p) == IF p.plan # {} THEN "put" ELSE IF p.todo.now # {} THEN "turn" ELSE "saved"

Opens(q, p) ==
  /\ q.pc = "none" /\ acc' = acc
  /\ DOMAIN p = Parts /\ p.pc = "open" /\ p.make \in Edits /\ Shows(p.make, acc) /\ p.page = acc
  /\ p.plan = {} /\ p.alone /\ p.current /\ ~p.wrote /\ ~p.lost /\ p.shown = None

Previews(r, q, p) ==
  /\ q.pc = "open" /\ p.pc = "shown" /\ acc' = acc /\ Same1(p, q, {"pc", "shown"})
  /\ \E snap \in {Snap(q.page), Snap(acc)} :
       \/ p.shown = None
       \/ /\ Shown(q.make, snap) /\ After(r, q.make, q.page, snap, acc) # None
          /\ p.shown = Delta(snap, After(r, q.make, q.page, snap, acc))

Submits(r, q, p) ==
  /\ q.pc = "shown" /\ acc' = acc /\ Same1(p, q, {"pc", "snap", "todo"})
  /\ p.snap \in {Snap(q.page), Snap(acc)} /\ p.todo = Jobs(r, q.make, q.page, p.snap)
  /\ p.pc = NextPc(p)

WorksOn(r, q, p, job) ==
  /\ q.pc = "turn" /\ acc' = acc /\ Same1(p, q, {"pc", "job", "todo", "plan", "want", "current"})
  /\ p.job = job /\ p.todo = Rest(q.todo, job) /\ p.current /\ p.pc = NextPc(p)
  /\ Reads(q.make, job, acc) /\ p.plan = Writes(r, q, job, acc) /\ \A w \in p.plan : w.body # Bad
  /\ p.want = IF job[1] = "user" THEN UserWant(q.make, q.page, q.snap, acc) ELSE q.want

Makes(r, q, p, w) ==
  /\ q.pc = "put" /\ Takes(r, w) /\ Same1(p, q, {"pc", "plan", "wrote"})
  /\ p.plan = q.plan \ {w} /\ p.wrote = TRUE /\ p.pc = NextPc(p)

(* A failure at a job, of a call or of a write.                            *)
FailsAt(q, p, job) ==
  /\ DOMAIN p = Parts /\ p.plan = {} /\ p.make = q.make /\ p.page = q.page
  /\ p.alone = q.alone /\ p.shown = q.shown
  /\ IF q.make.kind = "bulk" THEN p.pc \in {"turn", "saved"} ELSE p.pc = Answer(job)
  /\ \/ q.pc = "turn" /\ job \in q.todo.now
     \/ q.pc = "put" /\ job = q.job
  /\ \/ p.lost = q.lost /\ p.wrote = q.wrote
     \/ p.lost /\ p.wrote


StepTo(r, q, p) ==
  \/ Opens(q, p) \/ Previews(r, q, p) \/ Submits(r, q, p)
  \/ \E job \in q.todo.now : WorksOn(r, q, p, job)
  \/ \E w \in q.plan : Makes(r, q, p, w)
  \/ \E job : FailsAt(q, p, job)

Overtaken(q, p) ==
  Same1(p, q, {"alone", "current"}) /\ ~p.alone /\ ~p.current

(* The other edits are as they were, unless this one writes.               *)
OthersOf(r) ==
  \A s \in Editors \ {r} : (edit'[s] = edit[s] /\ acc' = acc) \/ Overtaken(edit[s], edit'[s])

LEMMA ToOthers ==
  ASSUME EditInv, NEW r \in Editors, NEW q,
         (Becomes(r, q) /\ acc' = acc) \/ Others(r, q)
  PROVE  edit'[r] = q /\ OthersOf(r) /\ DOMAIN edit' = Editors
<1>1. CASE Becomes(r, q) /\ acc' = acc
  BY <1>1 DEF Becomes, EditInv, OthersOf
<1>2. CASE Others(r, q)
  <2>1. edit'[r] = q /\ DOMAIN edit' = Editors
    BY <1>2 DEF Others
  <2>2. ASSUME NEW s \in Editors \ {r}
        PROVE  Overtaken(edit[s], edit'[s])
    <3>. DEFINE p == [edit[s] EXCEPT !.alone = FALSE, !.current = FALSE]
    <3>1. edit'[s] = p
      BY <1>2, <2>2 DEF Others
    <3>2. DOMAIN edit[s] = Parts
      BY <2>2 DEF EditInv, ValidEdit
    <3>3. DOMAIN p = Parts /\ ~p.alone /\ ~p.current
          /\ \A x \in Parts \ {"alone", "current"} : p[x] = edit[s][x]
      BY <3>2, OvertakenIs
    <3>. HIDE DEF p
    <3>. QED
      BY <3>1, <3>3 DEF Overtaken, Same1
  <2>. QED
    BY <2>1, <2>2 DEF OthersOf
<1>. QED
  BY <1>1, <1>2

LEMMA StepOpen ==
  ASSUME EditInv, NEW r \in Editors, NEW e \in Edits, Open(r, e)
  PROVE  Opens(edit[r], edit'[r]) /\ OthersOf(r)
<1>. DEFINE q == [Idle EXCEPT !.pc = "open", !.make = e, !.page = acc]
<1>1. Becomes(r, q) /\ acc' = acc /\ edit[r].pc = "none" /\ Shows(e, acc)
  BY DEF Open
<1>2. /\ DOMAIN q = Parts /\ q.pc = "open" /\ q.make = e /\ q.page = acc
      /\ q.plan = {} /\ q.alone /\ q.current /\ ~q.wrote /\ ~q.lost /\ q.shown = None
  BY DEF Idle, Parts
<1>. HIDE DEF q
<1>. QED
  BY <1>1, <1>2, ToOthers DEF Opens

LEMMA StepPreview ==
  ASSUME EditInv, NEW r \in Editors, Preview(r)
  PROVE  Previews(r, edit[r], edit'[r]) /\ OthersOf(r)
<1>1. PICK snap \in Snapshots(r) :
        LET e == edit[r].make
            after == IF Shown(e, snap) THEN After(r, e, edit[r].page, snap, acc) ELSE None
        IN  Becomes(r, [edit[r] EXCEPT !.pc = "shown",
                         !.shown = IF after = None THEN None ELSE Delta(snap, after)])
  BY DEF Preview
<1>. DEFINE e == edit[r].make
            after == After(r, e, edit[r].page, snap, acc)
            seen == IF Shown(e, snap) THEN after ELSE None
            shown == IF seen = None THEN None ELSE Delta(snap, seen)
            q == [edit[r] EXCEPT !.pc = "shown", !.shown = shown]
<1>2. Becomes(r, q) /\ acc' = acc /\ edit[r].pc = "open"
  BY <1>1 DEF Preview
<1>3. DOMAIN edit[r] = Parts
  BY DEF EditInv, ValidEdit
<1>4. shown = None \/ (Shown(e, snap) /\ after # None /\ shown = Delta(snap, after))
  OBVIOUS
<1>. HIDE DEF shown, seen, after
<1>5. q.pc = "shown" /\ q.shown = shown /\ Same1(q, edit[r], {"pc", "shown"})
  BY <1>3 DEF Same1, Parts
<1>. HIDE DEF q
<1>6. edit'[r] = q /\ OthersOf(r)
  BY <1>2, ToOthers
<1>7. snap \in {Snap(edit[r].page), Snap(acc)}
  BY DEF Snapshots
<1>8. \/ q.shown = None
      \/ /\ Shown(edit[r].make, snap) /\ After(r, edit[r].make, edit[r].page, snap, acc) # None
         /\ q.shown = Delta(snap, After(r, edit[r].make, edit[r].page, snap, acc))
  BY <1>4, <1>5 DEF after
<1>9. \E s \in {Snap(edit[r].page), Snap(acc)} :
       \/ q.shown = None
       \/ /\ Shown(edit[r].make, s) /\ After(r, edit[r].make, edit[r].page, s, acc) # None
          /\ q.shown = Delta(s, After(r, edit[r].make, edit[r].page, s, acc))
  BY <1>7, <1>8
<1>. QED
  BY <1>2, <1>5, <1>6, <1>9 DEF Previews

LEMMA StepSubmit ==
  ASSUME EditInv, NEW r \in Editors, Submit(r)
  PROVE  Submits(r, edit[r], edit'[r]) /\ OthersOf(r)
<1>1. PICK snap \in Snapshots(r) : Becomes(r, Goes([edit[r] EXCEPT !.snap = snap,
                                     !.todo = Jobs(r, edit[r].make, edit[r].page, snap)]))
  BY DEF Submit
<1>. DEFINE jobs == Jobs(r, edit[r].make, edit[r].page, snap)
            q == [edit[r] EXCEPT !.snap = snap, !.todo = jobs]
<1>2. edit[r].pc = "shown" /\ acc' = acc
  BY DEF Submit
<1>3. DOMAIN edit[r] = Parts
  BY DEF EditInv, ValidEdit
<1>4. /\ DOMAIN q = Parts /\ q.todo = jobs /\ q.snap = snap
      /\ \A x \in Parts \ {"snap", "todo"} : q[x] = edit[r][x]
  BY <1>3 DEF Parts
<1>5. Becomes(r, Goes(q))
  BY <1>1
<1>. HIDE DEF q, jobs
<1>6. /\ DOMAIN Goes(q) = Parts /\ Goes(q).pc = NextPc(q)
      /\ \A x \in Parts \ {"pc"} : Goes(q)[x] = q[x]
  BY <1>4, GoesIs DEF NextPc
<1>. DEFINE p == Goes(q)
<1>. HIDE DEF p
<1>7. DOMAIN p = Parts /\ p.pc = NextPc(q) /\ \A x \in Parts \ {"pc"} : p[x] = q[x]
  BY <1>6 DEF p
<1>8. Same1(p, edit[r], {"pc", "snap", "todo"}) /\ p.snap = snap /\ p.todo = jobs
      /\ p.pc = NextPc(p)
  BY <1>4, <1>7 DEF Same1, Parts, NextPc
<1>9. edit'[r] = p /\ OthersOf(r)
  BY <1>2, <1>5, ToOthers DEF p
<1>10. p.snap \in {Snap(edit[r].page), Snap(acc)}
  BY <1>8 DEF Snapshots
<1>. QED
  BY <1>2, <1>8, <1>9, <1>10 DEF Submits, jobs

LEMMA StepWork ==
  ASSUME EditInv, NEW r \in Editors, Work(r)
  PROVE  /\ \/ \E job \in edit[r].todo.now : WorksOn(r, edit[r], edit'[r], job)
            \/ \E job : FailsAt(edit[r], edit'[r], job)
         /\ OthersOf(r)
<1>1. PICK job \in edit[r].todo.now :
        LET q == [edit[r] EXCEPT !.job = job, !.todo = Rest(@, job), !.current = TRUE]
            e == q.make
            writes == Writes(r, q, job, acc)
            want == IF job[1] = "user" THEN UserWant(e, q.page, q.snap, acc) ELSE q.want
        IN  Becomes(r, IF ~Reads(e, job, acc) THEN Failed(q, job)
                       ELSE IF \E w \in writes : w.body = Bad THEN Failed(q, job)
                       ELSE Goes([q EXCEPT !.plan = writes, !.want = want]))
  BY DEF Work
<1>. DEFINE q == [edit[r] EXCEPT !.job = job, !.todo = Rest(edit[r].todo, job), !.current = TRUE]
            writes == Writes(r, q, job, acc)
            want == IF job[1] = "user" THEN UserWant(q.make, q.page, q.snap, acc) ELSE q.want
            p == [q EXCEPT !.plan = writes, !.want = want]
<1>2. \/ Becomes(r, Failed(q, job))
      \/ /\ Becomes(r, Goes(p))
         /\ Reads(q.make, job, acc) /\ \A w \in writes : w.body # Bad
  BY <1>1
<1>3. edit[r].pc = "turn" /\ acc' = acc
  BY DEF Work
<1>4. DOMAIN edit[r] = Parts /\ edit[r].plan = {}
  BY <1>3 DEF EditInv, ValidEdit
<1>5. /\ DOMAIN q = Parts /\ q.job = job /\ q.todo = Rest(edit[r].todo, job) /\ q.current
      /\ \A x \in Parts \ {"job", "todo", "current"} : q[x] = edit[r][x]
  BY <1>4 DEF Parts
<1>6. /\ DOMAIN p = Parts /\ p.plan = writes /\ p.want = want
      /\ \A x \in Parts \ {"plan", "want"} : p[x] = q[x]
  BY <1>5 DEF Parts
<1>7. q.make = edit[r].make /\ q.page = edit[r].page /\ q.snap = edit[r].snap /\ q.want = edit[r].want
  BY <1>5 DEF Parts
<1>. HIDE DEF q
<1>8. writes = Writes(r, edit[r], job, acc)
  <2>1. Writes(r, q, job, acc) = Writes(r, edit[r], job, acc)
    BY <1>7 DEF Writes
  <2>. QED
    BY <2>1
<1>9. want = IF job[1] = "user" THEN UserWant(edit[r].make, edit[r].page, edit[r].snap, acc)
             ELSE edit[r].want
  BY <1>7
<1>. HIDE DEF p, writes, want
<1>10. CASE Becomes(r, Failed(q, job))
  <2>. DEFINE f == Failed(q, job)
  <2>1. /\ DOMAIN f = Parts /\ f.plan = {}
        /\ \A x \in Parts \ {"pc", "plan", "todo"} : f[x] = q[x]
        /\ q.make.kind = "bulk" => f.pc = IF q.todo.now # {} THEN "turn" ELSE "saved"
        /\ q.make.kind # "bulk" => f.pc = Answer(job)
    BY <1>5, FailedIs
  <2>. HIDE DEF f
  <2>2. FailsAt(edit[r], f, job)
    BY <1>3, <1>5, <2>1 DEF FailsAt, Parts
  <2>3. edit'[r] = f /\ OthersOf(r)
    BY <1>3, <1>10, ToOthers DEF f
  <2>. QED
    BY <2>2, <2>3
<1>11. CASE /\ Becomes(r, Goes(p))
            /\ Reads(q.make, job, acc) /\ \A w \in writes : w.body # Bad
  <2>. DEFINE f == Goes(p)
  <2>1. DOMAIN f = Parts /\ f.pc = NextPc(p) /\ \A x \in Parts \ {"pc"} : f[x] = p[x]
    BY <1>6, GoesIs DEF NextPc
  <2>. HIDE DEF f
  <2>2. /\ Same1(f, edit[r], {"pc", "job", "todo", "plan", "want", "current"})
        /\ f.job = job /\ f.todo = Rest(edit[r].todo, job) /\ f.current /\ f.pc = NextPc(f)
        /\ f.plan = writes /\ f.want = want
    BY <1>5, <1>6, <2>1 DEF Same1, Parts, NextPc
  <2>3. edit'[r] = f /\ OthersOf(r)
    BY <1>3, <1>11, ToOthers DEF f
  <2>4. WorksOn(r, edit[r], f, job)
    BY <1>3, <1>7, <1>8, <1>9, <1>11, <2>2 DEF WorksOn
  <2>. QED
    BY <2>3, <2>4
<1>. QED
  BY <1>2, <1>10, <1>11

LEMMA StepSave ==
  ASSUME EditInv, NEW r \in Editors, Save(r)
  PROVE  (\E w \in edit[r].plan : Makes(r, edit[r], edit'[r], w)) /\ OthersOf(r)
<1>1. PICK w \in edit[r].plan :
        /\ Takes(r, w)
        /\ Others(r, Goes([edit[r] EXCEPT !.plan = edit[r].plan \ {w}, !.wrote = TRUE]))
  BY DEF Save
<1>. DEFINE q == [edit[r] EXCEPT !.plan = edit[r].plan \ {w}, !.wrote = TRUE]
<1>2. edit[r].pc = "put" /\ DOMAIN edit[r] = Parts
  BY DEF Save, EditInv, ValidEdit
<1>4. /\ DOMAIN q = Parts /\ q.plan = edit[r].plan \ {w} /\ q.wrote = TRUE
      /\ \A x \in Parts \ {"plan", "wrote"} : q[x] = edit[r][x]
  BY <1>2 DEF Parts
<1>5. Others(r, Goes(q)) /\ Takes(r, w)
  BY <1>1
<1>. DEFINE f == Goes(q)
<1>. HIDE DEF q
<1>6. DOMAIN f = Parts /\ f.pc = NextPc(q) /\ \A x \in Parts \ {"pc"} : f[x] = q[x]
  BY <1>4, GoesIs DEF NextPc
<1>7. edit'[r] = f /\ OthersOf(r)
  BY <1>5, ToOthers
<1>. HIDE DEF f
<1>8. /\ Same1(f, edit[r], {"pc", "plan", "wrote"})
      /\ f.plan = edit[r].plan \ {w} /\ f.wrote = TRUE /\ f.pc = NextPc(f)
  BY <1>4, <1>6 DEF Same1, Parts, NextPc
<1>9. Makes(r, edit[r], f, w)
  BY <1>2, <1>5, <1>8 DEF Makes
<1>. QED
  BY <1>7, <1>9

LEMMA FailsHere ==
  ASSUME NEW q, NEW p, NEW job, DOMAIN q = Parts, DOMAIN p = Parts, p.make = q.make,
         p.page = q.page, p.alone = q.alone, p.shown = q.shown,
         (p.lost = q.lost /\ p.wrote = q.wrote) \/ (p.lost /\ p.wrote),
         (q.pc = "turn" /\ job \in q.todo.now) \/ (q.pc = "put" /\ job = q.job)
  PROVE  FailsAt(q, Failed(p, job), job)
<1>. DEFINE f == Failed(p, job)
<1>1. /\ DOMAIN f = Parts /\ f.plan = {}
      /\ \A x \in Parts \ {"pc", "plan", "todo"} : f[x] = p[x]
      /\ p.make.kind = "bulk" => f.pc = IF p.todo.now # {} THEN "turn" ELSE "saved"
      /\ p.make.kind # "bulk" => f.pc = Answer(job)
  BY FailedIs
<1>. HIDE DEF f
<1>2. FailsAt(q, f, job)
  BY <1>1 DEF FailsAt, Parts
<1>. QED
  BY <1>2 DEF f

LEMMA StepAnswerLost ==
  ASSUME EditInv, NEW r \in Editors, AnswerLost(r)
  PROVE  (\E job : FailsAt(edit[r], edit'[r], job)) /\ OthersOf(r)
<1>1. PICK w \in edit[r].plan :
        Others(r, Failed([edit[r] EXCEPT !.wrote = TRUE, !.lost = TRUE], edit[r].job))
  BY DEF AnswerLost
<1>. DEFINE q == [edit[r] EXCEPT !.wrote = TRUE, !.lost = TRUE]
<1>2. edit[r].pc = "put" /\ DOMAIN edit[r] = Parts
  BY DEF AnswerLost, EditInv, ValidEdit
<1>3. /\ DOMAIN q = Parts /\ q.make = edit[r].make /\ q.page = edit[r].page
      /\ q.alone = edit[r].alone /\ q.shown = edit[r].shown /\ q.lost /\ q.wrote
  BY <1>2 DEF Parts
<1>4. Others(r, Failed(q, edit[r].job))
  BY <1>1
<1>. HIDE DEF q
<1>. QED
  BY <1>2, <1>3, <1>4, ToOthers, FailsHere

LEMMA StepRefused ==
  ASSUME EditInv, NEW r \in Editors, Refused(r)
  PROVE  (\E job : FailsAt(edit[r], edit'[r], job)) /\ OthersOf(r)
<1>1. edit[r].pc = "put" /\ Becomes(r, Failed(edit[r], edit[r].job)) /\ acc' = acc
  BY DEF Refused
<1>2. DOMAIN edit[r] = Parts
  BY DEF EditInv, ValidEdit
<1>3. FailsAt(edit[r], Failed(edit[r], edit[r].job), edit[r].job)
  BY <1>1, <1>2, FailsHere
<1>. QED
  BY <1>1, <1>3, ToOthers

LEMMA StepNoAnswer ==
  ASSUME EditInv, NEW r \in Editors, NoAnswer(r)
  PROVE  (\E job : FailsAt(edit[r], edit'[r], job)) /\ OthersOf(r)
<1>1. PICK job \in edit[r].todo.now :
        Becomes(r, Failed([edit[r] EXCEPT !.job = job, !.todo = Rest(edit[r].todo, job)], job))
  BY DEF NoAnswer
<1>. DEFINE q == [edit[r] EXCEPT !.job = job, !.todo = Rest(edit[r].todo, job)]
<1>2. edit[r].pc = "turn" /\ DOMAIN edit[r] = Parts /\ acc' = acc
  BY DEF NoAnswer, EditInv, ValidEdit
<1>3. /\ DOMAIN q = Parts /\ q.make = edit[r].make /\ q.page = edit[r].page
      /\ q.alone = edit[r].alone /\ q.shown = edit[r].shown
      /\ q.lost = edit[r].lost /\ q.wrote = edit[r].wrote
  BY <1>2 DEF Parts
<1>4. Becomes(r, Failed(q, job))
  BY <1>1
<1>. HIDE DEF q
<1>. QED
  BY <1>1, <1>2, <1>3, <1>4, ToOthers, FailsHere

(* Each step of the handlers is one of these, of one editor.               *)
LEMMA StepIs ==
  ASSUME EditInv, EditNext
  PROVE  \E r \in Editors : StepTo(r, edit[r], edit'[r]) /\ OthersOf(r)
<1>1. PICK r \in Editors :
        \/ \E e \in Edits : Open(r, e)
        \/ Preview(r) \/ Submit(r) \/ Work(r) \/ Save(r)
        \/ AnswerLost(r) \/ Refused(r) \/ NoAnswer(r)
  BY DEF EditNext
<1>. QED
  BY <1>1, StepOpen, StepPreview, StepSubmit, StepWork, StepSave, StepAnswerLost, StepRefused,
     StepNoAnswer DEF StepTo

-----------------------------------------------------------------------------
(* The order of a save's jobs: the writes that a refusal may leave behind. *)

Late(job) == job[1] \in {"users", "align", "member"}

IsGroup(e) == e.kind \in {"group", "new group"}

OneIn(S) == \E x : S = {x}

NothingYet(q) == q.pc \in {"none", "open", "shown"} => ~q.wrote

StagesOK(q) ==
  q.make.kind # "bulk" =>
    /\ q.pc \in {"turn", "put"} => \A j \in q.todo.after : Late(j)
    /\ q.pc = "turn" => (\A j \in q.todo.now : Late(j)) \/ (~q.wrote /\ OneIn(q.todo.now))
    /\ q.pc = "put" => (\A j \in q.todo.now : Late(j))
    /\ q.pc = "put" => Late(q.job) \/ (~q.wrote /\ AtMostOne(q.plan))

AnswersOK(q) ==
  /\ q.make.kind # "bulk" /\ q.pc = "refused" => ~q.wrote \/ q.lost
  /\ q.make.kind = "bulk" => q.pc \notin {"refused", "partial"}

GroupFirst(q) ==
  IsGroup(q.make) =>
    /\ q.pc = "turn" /\ ~q.wrote => \A j \in q.todo.now : ~Late(j)
    /\ q.pc = "put" /\ ~q.wrote => ~Late(q.job)
    /\ q.pc = "partial" => q.wrote

Ordered(q) == NothingYet(q) /\ StagesOK(q) /\ AnswersOK(q) /\ GroupFirst(q)

LEMMA OrderedIdle == Ordered(Idle)
<1>1. Idle.pc = "none" /\ ~Idle.wrote
  BY DEF Idle
<1>. QED
  BY <1>1 DEF Ordered, NothingYet, StagesOK, AnswersOK, GroupFirst

(* Only the first stage may write what is not one of many, and a group     *)
(* begins with itself.                                                     *)
LEMMA JobsOrdered ==
  ASSUME NEW r, NEW e, NEW page, NEW snap, FormOf(e), e.kind # "bulk",
         NEW todo, todo = Jobs(r, e, page, snap)
  PROVE  /\ \A j \in todo.after : Late(j)
         /\ (\A j \in todo.now : Late(j)) \/ OneIn(todo.now)
         /\ IsGroup(e) => \A j \in todo.now : ~Late(j)
<1>1. ASSUME NEW x, NEW second, todo = Staged({x}, second),
             second = {} \/ \A j \in second : Late(j)
      PROVE  todo.now = {x} /\ \A j \in todo.after : Late(j)
  <2>1. {x} # {}
    OBVIOUS
  <2>. QED
    BY <1>1, <2>1, StagedIs
<1>2. CASE e.kind = "group"
  <2>. DEFINE second == IF UsersEditable(e.id) /\ e.id \in DOMAIN snap.groups
                        THEN {<<"users", e.id>>} ELSE {}
  <2>1. Jobs(r, e, page, snap) = Staged({<<"group", e.id>>}, second)
    BY <1>2 DEF Jobs, GroupJobs
  <2>2. \A j \in second : Late(j)
    BY DEF Late
  <2>. HIDE DEF second
  <2>3. todo.now = {<<"group", e.id>>} /\ \A j \in todo.after : Late(j)
    BY <1>1, <2>1, <2>2
  <2>4. \A j \in todo.now : j[1] = "group"
    BY <2>3
  <2>. QED
    BY <2>3, <2>4 DEF Late, OneIn
<1>3. CASE e.kind = "new group"
  <2>1. Jobs(r, e, page, snap) = Staged({<<"post", r>>}, {<<"users", r>>})
    BY <1>3 DEF Jobs
  <2>2. \A j \in {<<"users", r>>} : Late(j)
    BY DEF Late
  <2>3. todo.now = {<<"post", r>>} /\ \A j \in todo.after : Late(j)
    BY <1>1, <2>1, <2>2
  <2>4. \A j \in todo.now : j[1] = "post"
    BY <2>3
  <2>. QED
    BY <2>3, <2>4 DEF Late, OneIn
<1>4. CASE e.kind = "user"
  <2>. DEFINE second == IF OwnAligned(e, snap) # {} THEN {<<"align", e.id>>} ELSE {}
  <2>1. Jobs(r, e, page, snap) = Staged({<<"user", e.id>>}, second)
    BY <1>4 DEF Jobs, UserJobs
  <2>2. \A j \in second : Late(j)
    BY DEF Late
  <2>. HIDE DEF second
  <2>3. todo.now = {<<"user", e.id>>} /\ \A j \in todo.after : Late(j)
    BY <1>1, <2>1, <2>2
  <2>. QED
    BY <1>4, <2>3 DEF OneIn, IsGroup
<1>5. CASE e.kind = "peer"
  <2>. DEFINE now == snap.peers[e.id].groups
              new == Chosen(e, PeerPage(page, e.id), now, snap)
              second == {<<"member", g>> : g \in Flip(now, new)}
  <2>1. \/ Jobs(r, e, page, snap) = Staged({<<"settings", e.id>>}, second)
        \/ Jobs(r, e, page, snap) = Staged({}, second)
        \/ Jobs(r, e, page, snap) = Staged({<<"settings", e.id>>}, {})
    BY <1>5 DEF Jobs, PeerJobs
  <2>2. \A j \in second : Late(j)
    BY DEF Late
  <2>. HIDE DEF second
  <2>4. CASE todo = Staged({}, second)
    <3>1. todo.now = second /\ todo.after = {}
      BY <2>4, StagedIs
    <3>. QED
      BY <1>5, <2>2, <3>1 DEF IsGroup
  <2>5. CASE todo = Staged({<<"settings", e.id>>}, second) \/ todo = Staged({<<"settings", e.id>>}, {})
    <3>1. \E some : todo = Staged({<<"settings", e.id>>}, some) /\ (some = {} \/ some = second)
      BY <2>5
    <3>2. PICK some : todo = Staged({<<"settings", e.id>>}, some) /\ (some = {} \/ some = second)
      BY <3>1
    <3>3. some = {} \/ \A j \in some : Late(j)
      BY <2>2, <3>2
    <3>4. todo.now = {<<"settings", e.id>>} /\ \A j \in todo.after : Late(j)
      BY <1>1, <3>2, <3>3
    <3>. QED
      BY <1>5, <3>4 DEF IsGroup, OneIn
  <2>. QED
    BY <2>1, <2>4, <2>5
<1>6. CASE e.kind \notin {"bulk", "group", "new group", "user", "peer"}
  <2>. DEFINE one == \E x : Jobs(r, e, page, snap) = Staged({x}, {})
  <2>1. e.kind = "key" => one
    BY DEF Jobs
  <2>2. e.kind \in {"policy", "toggle", "revoke", "net", "resource", "router", "restore", "delete"}
          => Jobs(r, e, page, snap) = Staged({<<e.kind, e.id>>}, {})
    BY DEF Jobs
  <2>. DEFINE post == Jobs(r, e, page, snap) = Staged({<<"post", r>>}, {})
  <2>3. e.kind = "new policy" => post
    BY DEF Jobs
  <2>4. e.kind = "allow" => post
    BY DEF Jobs
  <2>5. e.kind = "new key" => post
    BY DEF Jobs
  <2>6. e.kind = "new net" => post
    BY DEF Jobs
  <2>7. e.kind = "new resource" => post
    BY DEF Jobs
  <2>8. e.kind = "new router" => post
    BY DEF Jobs
  <2>9. post => one
    OBVIOUS
  <2>10. e.kind \in {"policy", "toggle", "revoke", "net", "resource", "router", "restore", "delete"}
          => one
    BY <2>2
  <2>. HIDE DEF post, one
  <2>11. one
    BY <1>6, <2>1, <2>3, <2>4, <2>5, <2>6, <2>7, <2>8, <2>9, <2>10 DEF FormOf
  <2>12. \E x, second : todo = Staged({x}, second) /\ second = {}
    BY <2>11 DEF one
  <2>13. PICK x, second : todo = Staged({x}, second) /\ second = {}
    BY <2>12
  <2>14. todo.now = {x} /\ \A j \in todo.after : Late(j)
    BY <1>1, <2>13
  <2>. QED
    BY <1>6, <2>14 DEF IsGroup, OneIn
<1>. QED
  BY <1>2, <1>3, <1>4, <1>5, <1>6

LEMMA RestOrdered ==
  ASSUME NEW todo, NEW job \in todo.now, NEW rest, rest = Rest(todo, job),
         \A j \in todo.after : Late(j), (\A j \in todo.now : Late(j)) \/ OneIn(todo.now)
  PROVE  /\ \A j \in rest.after : Late(j)
         /\ \A j \in rest.now : Late(j)
         /\ ~Late(job) => OneIn(todo.now)
<1>1. \A j \in todo.now \ {job} : Late(j)
  BY DEF OneIn
<1>2. rest.now \cup rest.after = (todo.now \ {job}) \cup todo.after
  BY StagedIs DEF Rest
<1>. QED
  BY <1>1, <1>2

(* The first write of a group is always made.                              *)
LEMMA GroupWritesSome ==
  ASSUME NEW r, NEW q, NEW job, NEW a, JobOf(r, q.make, job), IsGroup(q.make), ~Late(job)
  PROVE  Writes(r, q, job, a) # {}
<1>1. job[1] \in {"group", "post"}
  <2>1. q.make.kind = "group" \/ q.make.kind = "new group"
    BY DEF IsGroup
  <2>2. job = <<"group", q.make.id>> \/ job = <<"users", q.make.id>>
        \/ job = <<"post", r>> \/ job = <<"users", r>>
    BY <2>1 DEF JobOf
  <2>3. job[1] = "group" \/ job[1] = "users" \/ job[1] = "post"
    BY <2>2
  <2>. QED
    BY <2>3 DEF Late
<1>2. CASE job[1] = "group"
  <2>1. Writes(r, q, job, a) = GroupWrites(q.make, q.page, a)
    BY <1>2, WritesBy
  <2>. QED
    BY <2>1 DEF GroupWrites
<1>3. CASE job[1] = "post"
  <2>1. Writes(r, q, job, a) = {Post(r, q.make)}
    BY <1>3, WritesBy
  <2>. QED
    BY <2>1
<1>. QED
  BY <1>1, <1>2, <1>3

LEMMA OrderedOpens ==
  ASSUME NEW q, NEW p, Opens(q, p)
  PROVE  Ordered(p)
  BY DEF Opens, Ordered, NothingYet, StagesOK, AnswersOK, GroupFirst

LEMMA OrderedPreviews ==
  ASSUME NEW r, NEW q, NEW p, Ordered(q), Previews(r, q, p)
  PROVE  Ordered(p)
<1>1. q.pc = "open" /\ p.pc = "shown" /\ p.wrote = q.wrote
  BY DEF Previews, Same1, Parts
<1>. QED
  BY <1>1 DEF Ordered, NothingYet, StagesOK, AnswersOK, GroupFirst

LEMMA OrderedSubmits ==
  ASSUME NEW r, NEW q, NEW p, ValidEdit(r, q), Ordered(q), Submits(r, q, p)
  PROVE  Ordered(p)
<1>1. /\ q.pc = "shown" /\ p.wrote = q.wrote /\ p.make = q.make /\ p.plan = q.plan
      /\ p.todo = Jobs(r, q.make, q.page, p.snap) /\ p.pc = NextPc(p)
  BY DEF Submits, Same1, Parts
<1>2. p.plan = {} /\ ~p.wrote /\ FormOf(p.make)
  BY <1>1, FormIs DEF ValidEdit, Ordered, NothingYet
<1>3. p.pc \in {"turn", "saved"}
  BY <1>1, <1>2 DEF NextPc
<1>4. p.make.kind # "bulk" =>
         /\ \A j \in p.todo.after : Late(j)
         /\ (\A j \in p.todo.now : Late(j)) \/ OneIn(p.todo.now)
         /\ IsGroup(p.make) => \A j \in p.todo.now : ~Late(j)
  BY <1>1, <1>2, JobsOrdered
<1>5. IsGroup(p.make) => p.make.kind # "bulk"
  BY DEF IsGroup
<1>. QED
  BY <1>2, <1>3, <1>4, <1>5 DEF Ordered, NothingYet, StagesOK, AnswersOK, GroupFirst

LEMMA OrderedWorks ==
  ASSUME NEW r, NEW q, NEW p, ValidEdit(r, q), Ordered(q), NEW job \in q.todo.now,
         WorksOn(r, q, p, job)
  PROVE  Ordered(p)
<1>1. /\ q.pc = "turn" /\ p.wrote = q.wrote /\ p.make = q.make /\ p.lost = q.lost
      /\ p.job = job /\ p.todo = Rest(q.todo, job) /\ p.pc = NextPc(p)
      /\ p.plan = Writes(r, q, job, acc)
  BY DEF WorksOn, Same1, Parts
<1>2. JobOf(r, q.make, job)
  BY DEF ValidEdit
<1>3. p.pc \in {"put", "turn", "saved"} /\ (p.pc = "put" <=> p.plan # {})
  BY <1>1 DEF NextPc
<1>4. q.make.kind # "bulk" =>
         /\ \A j \in p.todo.after : Late(j)
         /\ \A j \in p.todo.now : Late(j)
         /\ ~Late(job) => OneIn(q.todo.now)
  BY <1>1, RestOrdered DEF Ordered, StagesOK
<1>5. q.make.kind # "bulk" /\ ~Late(job) => ~q.wrote
  BY <1>1 DEF Ordered, StagesOK
<1>6. ~Late(job) => AtMostOne(p.plan)
  <2>1. ~Late(job) => OneJob(job)
    BY DEF Late, OneJob
  <2>. QED
    BY <1>1, <1>2, <2>1, OneWrite
<1>7. StagesOK(p)
  BY <1>1, <1>3, <1>4, <1>5, <1>6 DEF StagesOK
<1>8. ASSUME IsGroup(q.make), ~q.wrote
      PROVE  p.pc = "put" /\ ~Late(p.job)
  <2>1. ~Late(job)
    BY <1>1, <1>8 DEF Ordered, GroupFirst
  <2>. QED
    BY <1>1, <1>2, <1>3, <1>8, <2>1, GroupWritesSome
<1>9. GroupFirst(p)
  BY <1>1, <1>3, <1>8 DEF GroupFirst
<1>. QED
  BY <1>3, <1>7, <1>9 DEF Ordered, NothingYet, AnswersOK

LEMMA OrderedMakes ==
  ASSUME NEW r, NEW q, NEW p, Ordered(q), NEW w \in q.plan, Makes(r, q, p, w)
  PROVE  Ordered(p)
<1>1. /\ q.pc = "put" /\ p.wrote = TRUE /\ p.make = q.make /\ p.job = q.job /\ p.todo = q.todo
      /\ p.plan = q.plan \ {w} /\ p.pc = NextPc(p)
  BY DEF Makes, Same1, Parts
<1>2. p.pc \in {"put", "turn", "saved"} /\ (p.pc = "put" <=> p.plan # {})
  BY <1>1 DEF NextPc
<1>3. p.plan # {} => ~AtMostOne(q.plan)
  BY <1>1 DEF AtMostOne
<1>4. StagesOK(p)
  BY <1>1, <1>2, <1>3 DEF StagesOK, Ordered
<1>5. GroupFirst(p)
  BY <1>1, <1>2 DEF GroupFirst
<1>. QED
  BY <1>2, <1>4, <1>5 DEF Ordered, NothingYet, AnswersOK

LEMMA OrderedFails ==
  ASSUME NEW q, NEW p, Ordered(q), NEW job, FailsAt(q, p, job)
  PROVE  Ordered(p)
<1>1. /\ p.make = q.make
      /\ IF q.make.kind = "bulk" THEN p.pc \in {"turn", "saved"} ELSE p.pc = Answer(job)
      /\ \/ q.pc = "turn" /\ job \in q.todo.now
         \/ q.pc = "put" /\ job = q.job
      /\ \/ p.lost = q.lost /\ p.wrote = q.wrote
         \/ p.lost /\ p.wrote
  BY DEF FailsAt
<1>2. CASE q.make.kind = "bulk"
  BY <1>1, <1>2 DEF Ordered, NothingYet, StagesOK, AnswersOK, GroupFirst, IsGroup
<1>3. CASE q.make.kind # "bulk"
  <2>1. p.pc = IF Late(job) THEN "partial" ELSE "refused"
    BY <1>1, <1>3 DEF Answer, Late
  <2>2. ~Late(job) => ~q.wrote
    BY <1>1, <1>3 DEF Ordered, StagesOK
  <2>3. IsGroup(q.make) /\ Late(job) => q.wrote
    BY <1>1 DEF Ordered, GroupFirst
  <2>4. ~Late(job) => ~p.wrote \/ p.lost
    BY <1>1, <2>2
  <2>5. IsGroup(q.make) /\ Late(job) => p.wrote
    BY <1>1, <2>3
  <2>. QED
    BY <1>1, <1>3, <2>1, <2>4, <2>5 DEF Ordered, NothingYet, StagesOK, AnswersOK, GroupFirst
<1>. QED
  BY <1>2, <1>3

LEMMA OrderedOvertaken ==
  ASSUME NEW q, NEW p, Ordered(q), Overtaken(q, p)
  PROVE  Ordered(p)
<1>1. /\ p.pc = q.pc /\ p.make = q.make /\ p.todo = q.todo /\ p.job = q.job /\ p.plan = q.plan
      /\ p.wrote = q.wrote /\ p.lost = q.lost
  BY DEF Overtaken, Same1, Parts
<1>. QED
  BY <1>1 DEF Ordered, NothingYet, StagesOK, AnswersOK, GroupFirst

AllOrdered == \A r \in Editors : Ordered(edit[r])

LEMMA OrderNext ==
  ASSUME EditInv, AllOrdered, [EditNext]_editVars
  PROVE  AllOrdered'
<1>1. CASE EditNext
  <2>1. PICK r \in Editors : StepTo(r, edit[r], edit'[r]) /\ OthersOf(r)
    BY <1>1, StepIs
  <2>2. Ordered(edit[r]) /\ ValidEdit(r, edit[r])
    BY DEF AllOrdered, EditInv
  <2>3. Ordered(edit'[r])
    BY <2>1, <2>2, OrderedOpens, OrderedPreviews, OrderedSubmits, OrderedWorks, OrderedMakes,
       OrderedFails DEF StepTo
  <2>4. ASSUME NEW s \in Editors \ {r}
        PROVE  Ordered(edit'[s])
    BY <2>1, OrderedOvertaken DEF OthersOf, AllOrdered
  <2>. QED
    BY <2>3, <2>4 DEF AllOrdered
<1>2. CASE UNCHANGED editVars
  BY <1>2 DEF editVars, AllOrdered
<1>. QED
  BY <1>1, <1>2

-----------------------------------------------------------------------------
(* What is left of a save, and the facts that its user asked for.          *)

Left(todo) == todo.now \cup todo.after

LEMMA StagedLeft ==
  ASSUME NEW first, NEW second, first # {}
  PROVE  /\ Left(Staged(first, second)) = first \cup second
         /\ Staged(first, second).now = first /\ Staged(first, second).after = second
  BY StagedIs DEF Left

LEMMA RestLeft ==
  ASSUME NEW todo, NEW job
  PROVE  \A j \in Left(todo) : j # job => j \in Left(Rest(todo, job))
<1>. DEFINE now == todo.now \ {job}
<1>1. Rest(todo, job).now \cup Rest(todo, job).after = now \cup todo.after
  BY StagedIs DEF Rest
<1>. QED
  BY <1>1 DEF Left

LEMMA FactOfKind ==
  ASSUME NEW a, NEW f \in Facts(a)
  PROVE  /\ f[1] = "auto" => f \in UserFacts(a)
         /\ f[1] = "member" => f \in GroupFacts(a)
<1>1. f \in GroupFacts(a) => f[1] \in {"group", "member", "holds"}
  BY GroupFactIs
<1>2. f \in UserFacts(a) => f[1] \in {"auto", "user"}
  BY UserFactIs
<1>3. f \in PeerFacts(a) => f[1] \in {"peer", "expiry"}
  BY PeerFactIs
<1>4. f \in KeyFacts(a) => f[1] \in {"key", "keygroup"}
  BY KeyFactIs
<1>5. f \in PolicyFacts(a) => f[1] \in {"policy", "rule", "hidden"}
  BY PolicyFactIs, PolicyFactHead
<1>6. f \in NetworkFacts(a) => f[1] \in {"net", "router"}
  BY NetworkFactIs
<1>7. f \in ResourceFacts(a) => f[1] = "resource"
  BY DEF ResourceFacts
<1>. QED
  BY <1>1, <1>2, <1>3, <1>4, <1>5, <1>6, <1>7 DEF Facts

LEMMA AutoFact ==
  ASSUME NEW a, NEW g, NEW u
  PROVE  <<"auto", g, u>> \in Facts(a) <=> u \in DOMAIN a.users /\ g \in a.users[u].auto
<1>. DEFINE f == <<"auto", g, u>>
<1>1. f[1] = "auto" /\ f[2] = g /\ f[3] = u
  OBVIOUS
<1>2. ASSUME f \in UserFacts(a)
      PROVE  u \in DOMAIN a.users /\ g \in a.users[u].auto
  <2>1. PICK v \in DOMAIN a.users :
           \/ \E h \in a.users[v].auto : f = <<"auto", h, v>>
           \/ f = <<"user", v, a.users[v].role, a.users[v].blocked>>
    BY <1>2, UserFactIs
  <2>2. f # <<"user", v, a.users[v].role, a.users[v].blocked>>
    BY <1>1
  <2>3. PICK h \in a.users[v].auto : f = <<"auto", h, v>>
    BY <2>1, <2>2
  <2>4. h = g /\ v = u
    BY <2>3
  <2>. QED
    BY <2>3, <2>4
<1>3. u \in DOMAIN a.users /\ g \in a.users[u].auto => f \in UserFacts(a)
  BY UserFactIs
<1>4. f \in UserFacts(a) => f \in Facts(a)
  BY DEF Facts
<1>5. f \in Facts(a) => f \in UserFacts(a)
  BY <1>1, FactOfKind
<1>. QED
  BY <1>2, <1>3, <1>4, <1>5

LEMMA MemberFact ==
  ASSUME NEW a, NEW g, NEW p
  PROVE  <<"member", g, p>> \in Facts(a) <=> g \in DOMAIN a.groups /\ p \in a.groups[g].peers
<1>. DEFINE f == <<"member", g, p>>
<1>1. f[1] = "member" /\ f[2] = g /\ f[3] = p
  OBVIOUS
<1>2. ASSUME f \in GroupFacts(a)
      PROVE  g \in DOMAIN a.groups /\ p \in a.groups[g].peers
  <2>1. PICK h \in DOMAIN a.groups :
           \/ f = <<"group", h>>
           \/ \E x \in a.groups[h].peers : f = <<"member", h, x>>
           \/ \E x \in a.groups[h].resources : f = <<"holds", h, x>>
    BY <1>2, GroupFactIs
  <2>2. f # <<"group", h>> /\ \A x : f # <<"holds", h, x>>
    BY <1>1
  <2>3. PICK x \in a.groups[h].peers : f = <<"member", h, x>>
    BY <2>1, <2>2
  <2>4. h = g /\ x = p
    BY <2>3
  <2>. QED
    BY <2>3, <2>4
<1>3. g \in DOMAIN a.groups /\ p \in a.groups[g].peers => f \in GroupFacts(a)
  BY GroupFactIs
<1>4. f \in GroupFacts(a) => f \in Facts(a)
  BY DEF Facts
<1>5. f \in Facts(a) => f \in GroupFacts(a)
  BY <1>1, FactOfKind
<1>. QED
  BY <1>2, <1>3, <1>4, <1>5

(* A membership, or a group of a user, that is not as the page showed it.  *)
LEMMA AutoFlips ==
  ASSUME NEW a, NEW b, NEW g, NEW u, u \in DOMAIN a.users, u \in DOMAIN b.users,
         g \in b.users[u].auto <=> g \notin a.users[u].auto
  PROVE  <<"auto", g, u>> \in Flip(Facts(a), Facts(b))
<1>1. <<"auto", g, u>> \in Facts(b) <=> <<"auto", g, u>> \notin Facts(a)
  BY AutoFact
<1>. QED
  BY <1>1 DEF Flip

LEMMA MemberFlips ==
  ASSUME NEW a, NEW b, NEW g, NEW p, g \in DOMAIN a.groups, g \in DOMAIN b.groups,
         p \in b.groups[g].peers <=> p \notin a.groups[g].peers
  PROVE  <<"member", g, p>> \in Flip(Facts(a), Facts(b))
<1>1. <<"member", g, p>> \in Facts(b) <=> <<"member", g, p>> \notin Facts(a)
  BY MemberFact
<1>. QED
  BY <1>1 DEF Flip

-----------------------------------------------------------------------------
(* A group: its members and its users, written in two stages.              *)

(* The peers that were toggled are in or out, but for the devices of users *)
(* that leave or join.                                                     *)
MembersAre(e, pick, gid, members, a) ==
  /\ gid \in DOMAIN a.groups
  /\ \A p \in e.peers :
       /\ p \in members => p \in a.groups[gid].peers \/ a.peers[p].user \in pick.removed
       /\ p \notin members => p \notin a.groups[gid].peers \/ a.peers[p].user \in pick.added

UserHas(a, gid, pick, u) == gid \in a.users[u].auto <=> u \in pick.added

GroupGiven(w, gid, members) ==
  w.type = "groups" /\ w.id = gid /\ w.body # Gone /\ w.body.peers = members

UserGiven(w, gid, pick) ==
  /\ w.type = "users" /\ w.id \in Users /\ w.id \in pick.added \cup pick.removed
  /\ w.body # Gone /\ (gid \in w.body.auto <=> w.id \in pick.added)

UsersWritten(gid, pick, todo, plan, a) ==
  \A u \in pick.added \cup pick.removed :
    \/ <<"users", gid>> \in Left(todo)
    \/ \E w \in plan : w.type = "users" /\ w.id = u
    \/ UserHas(a, gid, pick, u)

GroupStands(e, pick, gid, members, first, todo, plan, a) ==
  /\ pick.added \cup pick.removed \subseteq Users
  /\ \A w \in plan : GroupGiven(w, gid, members) \/ UserGiven(w, gid, pick)
  /\ \/ first \in Left(todo) \/ (\E w \in plan : w.type = "groups")
     \/ MembersAre(e, pick, gid, members, a)
  /\ UsersEditable(gid) => UsersWritten(gid, pick, todo, plan, a)

LEMMA GroupPutMembers ==
  ASSUME NEW e, NEW pick, NEW gid, NEW members, NEW a, NEW w, NEW r, ValidAccount(a),
         GroupGiven(w, gid, members)
  PROVE  /\ MembersAre(e, pick, gid, members, Applied(a, w, r))
         /\ Applied(a, w, r).users = a.users
<1>. DEFINE b == Applied(a, w, r)
<1>1. b.groups = Upsert(a.groups, gid, w.body) /\ Kept(b, a, {"groups"})
  BY PutGroup DEF GroupGiven, ValidAccount
<1>2. b.users = a.users
  BY <1>1 DEF Kept, AccountParts
<1>. HIDE DEF b
<1>3. gid \in DOMAIN b.groups /\ b.groups[gid] = w.body
  BY <1>1 DEF Upsert
<1>4. b.groups[gid].peers = members
  BY <1>3 DEF GroupGiven
<1>5. MembersAre(e, pick, gid, members, b)
  BY <1>3, <1>4 DEF MembersAre
<1>. QED
  BY <1>2, <1>5 DEF b

LEMMA UserPutUsers ==
  ASSUME NEW a, NEW w, NEW r, ValidAccount(a), w.type = "users", w.id \in Users, w.body # Gone
  PROVE  LET b == Applied(a, w, r)
         IN  /\ DOMAIN b.users = Users /\ b.users[w.id] = w.body
             /\ \A u \in Users : u # w.id => b.users[u] = a.users[u]
             /\ FollowUser(b.groups, a, w.id, w.body.auto)
             /\ b.peers = a.peers /\ b.nets = a.nets
<1>. DEFINE b == Applied(a, w, r)
<1>1. /\ b.users = [a.users EXCEPT ![w.id] = w.body]
      /\ b.groups = Propagated(a, w.id, w.body.auto) /\ Kept(b, a, {"users", "groups"})
  BY PutUser DEF ValidAccount
<1>2. b.peers = a.peers /\ b.nets = a.nets
  BY <1>1 DEF Kept, AccountParts
<1>3. UsersValid(a) /\ GroupsValid(a)
  BY ValidParts
<1>4. FollowUser(b.groups, a, w.id, w.body.auto)
  BY <1>1, <1>3, PropagatedIs
<1>. HIDE DEF b
<1>5. DOMAIN b.users = Users /\ b.users[w.id] = w.body
      /\ \A u \in Users : u # w.id => b.users[u] = a.users[u]
  BY <1>1, <1>3 DEF UsersValid
<1>. QED
  BY <1>2, <1>4, <1>5 DEF b

LEMMA UserPutMembers ==
  ASSUME NEW e, NEW pick, NEW gid, NEW members, NEW a, NEW w, NEW r, ValidAccount(a),
         UserGiven(w, gid, pick), MembersAre(e, pick, gid, members, a)
  PROVE  MembersAre(e, pick, gid, members, Applied(a, w, r))
<1>. DEFINE b == Applied(a, w, r)
<1>1. FollowUser(b.groups, a, w.id, w.body.auto) /\ b.peers = a.peers
  BY UserPutUsers DEF UserGiven
<1>. HIDE DEF b
<1>2. gid \in DOMAIN a.groups /\ gid \in DOMAIN b.groups
  BY <1>1 DEF MembersAre, FollowUser
<1>3. \/ b.groups[gid].peers = a.groups[gid].peers
      \/ w.id \in pick.added /\ b.groups[gid].peers = a.groups[gid].peers \cup OwnPeers(a, w.id)
      \/ w.id \in pick.removed /\ b.groups[gid].peers = a.groups[gid].peers \ OwnPeers(a, w.id)
  BY <1>1, <1>2 DEF FollowUser, UserGiven
<1>4. \A p \in OwnPeers(a, w.id) : a.peers[p].user = w.id
  BY DEF OwnPeers
<1>5. MembersAre(e, pick, gid, members, b)
  BY <1>1, <1>2, <1>3, <1>4 DEF MembersAre
<1>. QED
  BY <1>5 DEF b

LEMMA GroupStandsMakes ==
  ASSUME NEW e, NEW pick, NEW gid, NEW members, NEW first, NEW todo, NEW plan, NEW a, NEW r,
         GroupStands(e, pick, gid, members, first, todo, plan, a), ValidAccount(a), NEW w \in plan
  PROVE  GroupStands(e, pick, gid, members, first, todo, plan \ {w}, Applied(a, w, r))
<1>. DEFINE b == Applied(a, w, r)
<1>1. CASE GroupGiven(w, gid, members)
  <2>1. MembersAre(e, pick, gid, members, b) /\ b.users = a.users
    BY <1>1, GroupPutMembers
  <2>. HIDE DEF b
  <2>2. UsersWritten(gid, pick, todo, plan, a) => UsersWritten(gid, pick, todo, plan \ {w}, b)
    BY <1>1, <2>1 DEF UsersWritten, UserHas, GroupGiven
  <2>3. GroupStands(e, pick, gid, members, first, todo, plan \ {w}, b)
    BY <2>1, <2>2 DEF GroupStands
  <2>. QED
    BY <2>3 DEF b
<1>2. CASE UserGiven(w, gid, pick)
  <2>1. /\ b.users[w.id] = w.body
        /\ \A u \in Users : u # w.id => b.users[u] = a.users[u]
    BY <1>2, UserPutUsers DEF UserGiven
  <2>2. MembersAre(e, pick, gid, members, a) => MembersAre(e, pick, gid, members, b)
    BY <1>2, UserPutMembers
  <2>. HIDE DEF b
  <2>3. UserHas(b, gid, pick, w.id)
    BY <1>2, <2>1 DEF UserHas, UserGiven
  <2>4. \A u \in Users : u # w.id => (UserHas(b, gid, pick, u) <=> UserHas(a, gid, pick, u))
    BY <2>1 DEF UserHas
  <2>5. UsersWritten(gid, pick, todo, plan, a) => UsersWritten(gid, pick, todo, plan \ {w}, b)
    BY <2>3, <2>4 DEF UsersWritten, GroupStands
  <2>6. (\E v \in plan : v.type = "groups") => \E v \in plan \ {w} : v.type = "groups"
    BY <1>2 DEF UserGiven
  <2>7. GroupStands(e, pick, gid, members, first, todo, plan \ {w}, b)
    BY <2>2, <2>5, <2>6 DEF GroupStands
  <2>. QED
    BY <2>7 DEF b
<1>. QED
  BY <1>1, <1>2 DEF GroupStands

(* Whoever a form adds or takes away has the group as wanted, or a write.  *)
LEMMA UsersCovered ==
  ASSUME NEW e, NEW page, NEW a, NEW gid, NEW u \in DOMAIN a.users,
         u \in Picked(e, page, gid).added \cup Picked(e, page, gid).removed
  PROVE  \/ UserHas(a, gid, Picked(e, page, gid), u)
         \/ \E w \in UsersWrites(e, page, a, gid) : w.type = "users" /\ w.id = u
<1>. DEFINE pick == Picked(e, page, gid)
            new(x) == IF x \in pick.added THEN a.users[x].auto \cup {gid} ELSE a.users[x].auto \ {gid}
            of(x) == To("users", x, UserBody(a.users[x], new(x), Same, Same))
            S == {x \in (pick.added \cup pick.removed) \cap DOMAIN a.users : new(x) # a.users[x].auto}
<1>1. UsersWrites(e, page, a, gid) = {of(x) : x \in S}
  BY DEF UsersWrites
<1>2. of(u).type = "users" /\ of(u).id = u
  BY ToIs DEF IsTo
<1>3. new(u) = IF u \in pick.added THEN a.users[u].auto \cup {gid} ELSE a.users[u].auto \ {gid}
  OBVIOUS
<1>4. new(u) # a.users[u].auto => u \in S
  OBVIOUS
<1>. HIDE DEF new, of, S, pick
<1>5. new(u) = a.users[u].auto => UserHas(a, gid, pick, u)
  BY <1>3 DEF UserHas
<1>6. u \in S => \E w \in UsersWrites(e, page, a, gid) : w.type = "users" /\ w.id = u
  BY <1>1, <1>2
<1>. QED
  BY <1>4, <1>5, <1>6 DEF pick

LEMMA UsersGiven ==
  ASSUME NEW e, NEW page, NEW a, NEW gid, NEW w \in UsersWrites(e, page, a, gid), ValidAccount(a)
  PROVE  UserGiven(w, gid, Picked(e, page, gid))
<1>1. UsersWrite(w, a, Picked(e, page, gid), gid)
  BY UsersWritesAre
<1>2. DOMAIN a.users = Users
  BY DEF ValidAccount, Coherent
<1>3. "role" \in DOMAIN w.body
  BY <1>1 DEF UsersWrite
<1>4. w.body # Gone
  BY <1>3, NotGone
<1>. QED
  BY <1>1, <1>2, <1>4 DEF UsersWrite, UserGiven, IsTo

LEMMA GroupStandsUsers ==
  ASSUME NEW e, NEW page, NEW gid, NEW members, NEW first, NEW todo, NEW a,
         GroupStands(e, Picked(e, page, gid), gid, members, first, todo, {}, a), ValidAccount(a),
         NEW job, job = <<"users", gid>>, first # job
  PROVE  GroupStands(e, Picked(e, page, gid), gid, members, first, Rest(todo, job),
                     UsersWrites(e, page, a, gid), a)
<1>. DEFINE pick == Picked(e, page, gid)
            plan == UsersWrites(e, page, a, gid)
<1>1. \A w \in plan : UserGiven(w, gid, pick)
  BY UsersGiven
<1>2. \A u \in DOMAIN a.users : u \in pick.added \cup pick.removed =>
        UserHas(a, gid, pick, u) \/ \E w \in plan : w.type = "users" /\ w.id = u
  BY UsersCovered
<1>3. DOMAIN a.users = Users
  BY DEF ValidAccount, Coherent
<1>. HIDE DEF pick, plan
<1>4. pick.added \cup pick.removed \subseteq Users
      /\ (first \in Left(todo) \/ MembersAre(e, pick, gid, members, a))
  BY DEF GroupStands, pick
<1>5. UsersWritten(gid, pick, Rest(todo, job), plan, a)
  BY <1>2, <1>3, <1>4 DEF UsersWritten
<1>6. first \in Left(todo) => first \in Left(Rest(todo, job))
  BY RestLeft
<1>7. GroupStands(e, pick, gid, members, first, Rest(todo, job), plan, a)
  BY <1>1, <1>4, <1>5, <1>6 DEF GroupStands
<1>. QED
  BY <1>7 DEF pick, plan

LEMMA GroupStandsFirst ==
  ASSUME NEW e, NEW pick, NEW gid, NEW members, NEW first, NEW todo, NEW plan, NEW a,
         GroupStands(e, pick, gid, members, first, todo, {}, a), first # <<"users", gid>>,
         plan # {}, \A w \in plan : GroupGiven(w, gid, members)
  PROVE  GroupStands(e, pick, gid, members, first, Rest(todo, first), plan, a)
<1>1. <<"users", gid>> \in Left(todo) => <<"users", gid>> \in Left(Rest(todo, first))
  BY RestLeft
<1>2. UsersWritten(gid, pick, todo, {}, a) => UsersWritten(gid, pick, Rest(todo, first), plan, a)
  BY <1>1 DEF UsersWritten
<1>3. \E w \in plan : w.type = "groups"
  BY DEF GroupGiven
<1>. QED
  BY <1>2, <1>3 DEF GroupStands

(* In the end: nothing is left to do.                                      *)
LEMMA GroupStandsDone ==
  ASSUME NEW e, NEW pick, NEW gid, NEW members, NEW first, NEW todo, NEW a,
         GroupStands(e, pick, gid, members, first, todo, {}, a), Left(todo) = {}
  PROVE  /\ MembersAre(e, pick, gid, members, a)
         /\ UsersEditable(gid) => \A u \in pick.added \cup pick.removed : UserHas(a, gid, pick, u)
  BY DEF GroupStands, UsersWritten

(* What an edit needs of its page.                                         *)
PageOk(e, page) == ValidAccount(page) /\ Shows(e, page) /\ FormOf(e)

LEMMA GroupPicks ==
  ASSUME NEW e, NEW page, e.kind = "group", PageOk(e, page)
  PROVE  /\ e.id \in DOMAIN page.groups /\ e.users \subseteq Users
         /\ Picked(e, page, e.id).added \cup Picked(e, page, e.id).removed = e.users \ ServiceUsers
         /\ \A u \in e.users \ ServiceUsers :
              u \in Picked(e, page, e.id).added <=> e.id \notin page.users[u].auto
<1>1. /\ e.id \in Groups /\ e.users \subseteq Users /\ e.type = "groups" /\ e.id # None
      /\ DOMAIN page.users = Users
  BY DEF FormOf, PageOk, ValidAccount, Coherent
<1>2. e.id \in DOMAIN page.groups
  BY <1>1 DEF PageOk, Shows, OfObject, Held
<1>. DEFINE had == Checked(page, e.id)
<1>3. /\ Picked(e, page, e.id).added = (e.users \ had) \ ServiceUsers
      /\ Picked(e, page, e.id).removed = e.users \cap had
  BY <1>1, PickedIs
<1>4. \A u : u \in had <=> u \in Users \ ServiceUsers /\ e.id \in page.users[u].auto
  BY <1>1 DEF Checked
<1>. HIDE DEF had
<1>. QED
  BY <1>1, <1>2, <1>3, <1>4

LEMMA NewGroupPicks ==
  ASSUME NEW e, NEW page, e.kind = "new group", FormOf(e), NEW r \in Editors
  PROVE  /\ e.users \subseteq Users /\ e.type = "groups" /\ UsersEditable(r)
         /\ Picked(e, page, r).added = e.users \ ServiceUsers /\ Picked(e, page, r).removed = {}
<1>1. e.users \subseteq Users /\ e.type = "groups"
  BY DEF FormOf
<1>2. r \notin Groups
  BY EditConstants
<1>3. UsersEditable(r)
  BY <1>2, AccessConstants DEF UsersEditable
<1>4. Picked(e, page, r).added = (e.users \ {}) \ ServiceUsers /\ Picked(e, page, r).removed = e.users \cap {}
  BY <1>2, PickedIs
<1>. QED
  BY <1>1, <1>3, <1>4

GroupTask(r, q, a) ==
  LET e == q.make
      own == Picked(e, q.page, e.id)
      new == Picked(e, q.page, r)
  IN  /\ e.kind = "group" =>
           GroupStands(e, own, e.id, FormPeers(e, q.page), <<"group", e.id>>, q.todo, q.plan, a)
      /\ e.kind = "new group" =>
           GroupStands(e, new, r, e.peers, <<"post", r>>, q.todo, q.plan, a)

LEMMA GroupTaskSubmit ==
  ASSUME NEW r \in Editors, NEW q, NEW a, IsGroup(q.make), PageOk(q.make, q.page), q.plan = {},
         q.todo = Jobs(r, q.make, q.page, Snap(q.page))
  PROVE  GroupTask(r, q, a)
<1>1. CASE q.make.kind = "group"
  <2>. DEFINE e == q.make
              pick == Picked(e, q.page, e.id)
              second == IF UsersEditable(e.id) /\ e.id \in DOMAIN Snap(q.page).groups
                        THEN {<<"users", e.id>>} ELSE {}
  <2>1. q.todo = Staged({<<"group", e.id>>}, second)
    BY <1>1 DEF Jobs, GroupJobs
  <2>2. Left(q.todo) = {<<"group", e.id>>} \cup second
    <3>1. {<<"group", e.id>>} # {}
      OBVIOUS
    <3>. HIDE DEF second
    <3>. QED
      BY <2>1, <3>1, StagedLeft
  <2>3. pick.added \cup pick.removed \subseteq Users /\ e.id \in DOMAIN q.page.groups
    BY <1>1, GroupPicks
  <2>4. UsersEditable(e.id) => <<"users", e.id>> \in Left(q.todo)
    BY <2>2, <2>3 DEF Snap
  <2>5. <<"group", e.id>> \in Left(q.todo)
    BY <2>2
  <2>. HIDE DEF pick, second
  <2>6. GroupStands(e, pick, e.id, FormPeers(e, q.page), <<"group", e.id>>, q.todo, q.plan, a)
    BY <2>3, <2>4, <2>5 DEF GroupStands, UsersWritten
  <2>. QED
    BY <1>1, <2>6 DEF GroupTask, pick
<1>2. CASE q.make.kind = "new group"
  <2>. DEFINE e == q.make
              pick == Picked(e, q.page, r)
  <2>1. q.todo = Staged({<<"post", r>>}, {<<"users", r>>})
    BY <1>2 DEF Jobs
  <2>2. Left(q.todo) = {<<"post", r>>} \cup {<<"users", r>>}
    <3>1. {<<"post", r>>} # {}
      OBVIOUS
    <3>. QED
      BY <2>1, <3>1, StagedLeft
  <2>3. pick.added \cup pick.removed \subseteq Users
    <3>1. FormOf(e)
      BY DEF PageOk
    <3>2. e.users \subseteq Users /\ pick.added = e.users \ ServiceUsers /\ pick.removed = {}
      <4>1. e.kind = "new group"
        BY <1>2
      <4>. HIDE DEF e
      <4>. QED
        BY ONLY <3>1, <4>1, NewGroupPicks, r \in Editors
    <3>. HIDE DEF pick
    <3>. QED
      BY <3>2
  <2>4. <<"users", r>> \in Left(q.todo) /\ <<"post", r>> \in Left(q.todo)
    BY <2>2
  <2>. HIDE DEF pick
  <2>5. GroupStands(e, pick, r, e.peers, <<"post", r>>, q.todo, q.plan, a)
    BY <2>3, <2>4 DEF GroupStands, UsersWritten
  <2>. QED
    BY <1>2, <2>5 DEF GroupTask, pick
<1>. QED
  BY <1>1, <1>2 DEF IsGroup

LEMMA GroupTaskWork ==
  ASSUME NEW r \in Editors, NEW q, NEW p, NEW a, NEW job, IsGroup(q.make), PageOk(q.make, q.page),
         ValidAccount(a), GroupTask(r, q, a), q.plan = {}, JobOf(r, q.make, job),
         p.make = q.make, p.page = q.page, p.todo = Rest(q.todo, job),
         p.plan = Writes(r, q, job, a), \A w \in p.plan : w.body # Bad
  PROVE  GroupTask(r, p, a)
<1>1. CASE q.make.kind = "group"
  <2>. DEFINE e == q.make
              pick == Picked(e, q.page, e.id)
              members == FormPeers(e, q.page)
              stands(todo, plan) ==
                GroupStands(e, pick, e.id, members, <<"group", e.id>>, todo, plan, a)
  <2>1. stands(q.todo, {})
    BY <1>1 DEF GroupTask
  <2>2. job = <<"group", e.id>> \/ job = <<"users", e.id>>
    BY <1>1 DEF JobOf
  <2>3. CASE job = <<"group", e.id>>
    <3>1. job[1] = "group" /\ job # <<"users", e.id>> /\ ~Late(job)
      BY <2>3 DEF Late
    <3>2. p.plan = GroupWrites(e, q.page, a) /\ p.plan # {}
      BY <3>1, WritesBy, GroupWritesSome
    <3>3. ASSUME NEW w \in p.plan
          PROVE  GroupGiven(w, e.id, members)
      <4>1. /\ IsTo(w, "groups", e.id)
            /\ w.body = [peers |-> members, resources |-> a.groups[e.id].resources]
        BY <3>2, GroupWritesAre
      <4>2. "peers" \in DOMAIN w.body /\ w.body.peers = members
        BY ONLY <4>1
      <4>3. w.body # Gone
        BY <4>2, NotGone
      <4>. QED
        BY <4>1, <4>2, <4>3 DEF GroupGiven, IsTo
    <3>. HIDE DEF members, pick
    <3>4. stands(p.todo, p.plan)
      BY <2>1, <2>3, <3>1, <3>2, <3>3, GroupStandsFirst
    <3>. QED
      BY <1>1, <3>4 DEF GroupTask, pick, members
  <2>4. CASE job = <<"users", e.id>>
    <3>1. job[1] = "users" /\ job[2] = e.id /\ <<"group", e.id>> # job
      BY <2>4
    <3>2. p.plan = UsersWrites(e, q.page, a, e.id)
      BY <3>1, WritesBy
    <3>. HIDE DEF members
    <3>3. stands(p.todo, p.plan)
      BY <2>1, <2>4, <3>1, <3>2, GroupStandsUsers
    <3>. QED
      BY <1>1, <3>3 DEF GroupTask, members
  <2>. QED
    BY <2>2, <2>3, <2>4
<1>2. CASE q.make.kind = "new group"
  <2>. DEFINE e == q.make
              pick == Picked(e, q.page, r)
              stands(todo, plan) == GroupStands(e, pick, r, e.peers, <<"post", r>>, todo, plan, a)
  <2>1. stands(q.todo, {})
    BY <1>2 DEF GroupTask
  <2>2. job = <<"post", r>> \/ job = <<"users", r>>
    BY <1>2 DEF JobOf
  <2>3. CASE job = <<"post", r>>
    <3>1. job[1] = "post" /\ job # <<"users", r>>
      BY <2>3
    <3>2. p.plan = {Post(r, e)}
      BY <3>1, WritesBy
    <3>3. Posted(e) = GroupBody(e.named, e.peers, {})
      BY <1>2 DEF Posted, NewGroup
    <3>4. ASSUME NEW w \in p.plan
          PROVE  GroupGiven(w, r, e.peers)
      <4>1. w.type = e.type /\ w.id = r /\ w.body = Posted(e)
        BY <3>2 DEF Post, Write
      <4>2. w.body = [peers |-> e.peers, resources |-> {}]
        BY <3>3, <4>1 DEF GroupBody
      <4>3. "peers" \in DOMAIN w.body /\ w.body.peers = e.peers
        BY ONLY <4>2
      <4>4. w.body # Gone
        BY <4>3, NotGone
      <4>5. e.type = "groups"
        BY <1>2, NewGroupPicks DEF PageOk
      <4>. QED
        BY <4>1, <4>3, <4>4, <4>5 DEF GroupGiven
    <3>. HIDE DEF pick
    <3>5. stands(p.todo, p.plan)
      BY <2>1, <2>3, <3>1, <3>2, <3>4, GroupStandsFirst
    <3>. QED
      BY <1>2, <3>5 DEF GroupTask, pick
  <2>4. CASE job = <<"users", r>>
    <3>1. job[1] = "users" /\ job[2] = r /\ <<"post", r>> # job
      BY <2>4
    <3>2. p.plan = UsersWrites(e, q.page, a, r)
      BY <3>1, WritesBy
    <3>3. stands(p.todo, p.plan)
      BY <2>1, <2>4, <3>1, <3>2, GroupStandsUsers
    <3>. QED
      BY <1>2, <3>3 DEF GroupTask
  <2>. QED
    BY <2>2, <2>3, <2>4
<1>. QED
  BY <1>1, <1>2 DEF IsGroup

LEMMA GroupTaskMakes ==
  ASSUME NEW r, NEW q, NEW p, NEW a, ValidAccount(a), GroupTask(r, q, a), NEW w \in q.plan,
         p.make = q.make, p.page = q.page, p.todo = q.todo, p.plan = q.plan \ {w}
  PROVE  GroupTask(r, p, Applied(a, w, r))
<1>. DEFINE e == q.make
            own == Picked(e, q.page, e.id)
            new == Picked(e, q.page, r)
            members == FormPeers(e, q.page)
            b == Applied(a, w, r)
<1>1. GroupStands(e, own, e.id, members, <<"group", e.id>>, q.todo, q.plan, a)
        => GroupStands(e, own, e.id, members, <<"group", e.id>>, p.todo, p.plan, b)
  BY GroupStandsMakes
<1>2. GroupStands(e, new, r, e.peers, <<"post", r>>, q.todo, q.plan, a)
        => GroupStands(e, new, r, e.peers, <<"post", r>>, p.todo, p.plan, b)
  BY GroupStandsMakes
<1>. HIDE DEF own, new, members, b
<1>3. GroupTask(r, q, a) =>
        /\ e.kind = "group" =>
             GroupStands(e, own, e.id, members, <<"group", e.id>>, q.todo, q.plan, a)
        /\ e.kind = "new group" => GroupStands(e, new, r, e.peers, <<"post", r>>, q.todo, q.plan, a)
  BY DEF GroupTask, own, new, members
<1>4. GroupTask(r, p, b)
  BY <1>1, <1>2, <1>3 DEF GroupTask, own, new, members
<1>. QED
  BY <1>4 DEF b

LEMMA GroupFulfilled ==
  ASSUME NEW r \in Editors, NEW q, IsGroup(q.make), PageOk(q.make, q.page), ValidAccount(acc),
         GroupTask(r, q, acc), q.plan = {}, Left(q.todo) = {}
  PROVE  Fulfilled(r, q.make, q.page)
<1>. DEFINE e == q.make
            page == q.page
<1>0. DOMAIN acc.users = Users /\ DOMAIN page.users = Users
  BY DEF ValidAccount, Coherent, PageOk
<1>1. CASE e.kind = "group"
  <2>. DEFINE pick == Picked(e, page, e.id)
              members == FormPeers(e, page)
  <2>1. GroupStands(e, pick, e.id, members, <<"group", e.id>>, q.todo, {}, acc)
    BY <1>1 DEF GroupTask
  <2>2. /\ MembersAre(e, pick, e.id, members, acc)
        /\ UsersEditable(e.id) => \A u \in pick.added \cup pick.removed : UserHas(acc, e.id, pick, u)
    BY <2>1, GroupStandsDone
  <2>3. /\ e.id \in DOMAIN page.groups /\ e.users \subseteq Users
        /\ pick.added \cup pick.removed = e.users \ ServiceUsers
        /\ \A u \in e.users \ ServiceUsers : u \in pick.added <=> e.id \notin page.users[u].auto
    BY <1>1, GroupPicks
  <2>4. \A p \in e.peers : p \in members <=> p \notin page.groups[e.id].peers
    BY FlipIs DEF FormPeers
  <2>. HIDE DEF pick, members
  <2>5. ASSUME UsersEditable(e.id), NEW u \in e.users \ ServiceUsers
        PROVE  <<"auto", e.id, u>> \in Flip(Facts(page), Facts(acc))
    <3>1. e.id \in acc.users[u].auto <=> e.id \notin page.users[u].auto
      BY <2>2, <2>3, <2>5 DEF UserHas
    <3>. QED
      BY <1>0, <2>3, <3>1, AutoFlips
  <2>6. ASSUME NEW p \in e.peers
        PROVE  acc.peers[p].user \in e.users \/ <<"member", e.id, p>> \in Flip(Facts(page), Facts(acc))
    <3>1. \/ acc.peers[p].user \in e.users
          \/ p \in acc.groups[e.id].peers <=> p \notin page.groups[e.id].peers
      BY <2>2, <2>3, <2>4, <2>6 DEF MembersAre
    <3>2. e.id \in DOMAIN acc.groups
      BY <2>2 DEF MembersAre
    <3>. QED
      BY <2>3, <3>1, <3>2, MemberFlips
  <2>. QED
    BY <1>1, <2>5, <2>6 DEF Fulfilled
<1>2. CASE e.kind = "new group"
  <2>. DEFINE pick == Picked(e, page, r)
  <2>1. GroupStands(e, pick, r, e.peers, <<"post", r>>, q.todo, {}, acc)
    BY <1>2 DEF GroupTask
  <2>2. /\ MembersAre(e, pick, r, e.peers, acc)
        /\ UsersEditable(r) => \A u \in pick.added \cup pick.removed : UserHas(acc, r, pick, u)
    BY <2>1, GroupStandsDone
  <2>3. /\ UsersEditable(r) /\ pick.added = e.users \ ServiceUsers /\ pick.removed = {}
    <3>1. FormOf(e)
      BY DEF PageOk
    <3>2. e.kind = "new group"
      BY <1>2
    <3>. HIDE DEF e, page
    <3>. QED
      BY ONLY <3>1, <3>2, NewGroupPicks, r \in Editors
  <2>. HIDE DEF pick
  <2>4. r \in DOMAIN acc.groups /\ e.peers \subseteq acc.groups[r].peers
    BY <2>2, <2>3 DEF MembersAre
  <2>5. \A u \in e.users \ ServiceUsers : r \in acc.users[u].auto
    BY <2>2, <2>3 DEF UserHas
  <2>. QED
    BY <1>2, <2>4, <2>5 DEF Fulfilled
<1>. QED
  BY <1>1, <1>2 DEF IsGroup

-----------------------------------------------------------------------------
(* A peer: its settings, and then each group that it joins or leaves.      *)

Toggled(e, page) == e.groups \cap EditableGroups(Snap(page))

HasLeft(e, page, a, g) == e.id \in a.groups[g].peers <=> g \notin PeerPage(page, e.id)

SettingsGiven(e, w) ==
  w.type = "peers" /\ w.id = e.id /\ w.body # Gone /\ (e.conf # Same => w.body.conf = e.conf)

MemberGiven(e, page, w) ==
  /\ w.type = "groups" /\ w.id \in Toggled(e, page) /\ w.body # Gone
  /\ e.id \in w.body.peers <=> w.id \notin PeerPage(page, e.id)

PeerStands(e, page, todo, plan, a) ==
  /\ Toggled(e, page) \subseteq DOMAIN a.groups /\ e.id \in DOMAIN a.peers
  /\ \A g : <<"member", g>> \in Left(todo) => g \in Toggled(e, page)
  /\ \A w \in plan : SettingsGiven(e, w) \/ MemberGiven(e, page, w)
  /\ e.conf # Same => \/ <<"settings", e.id>> \in Left(todo)
                      \/ \E w \in plan : w.type = "peers"
                      \/ a.peers[e.id].conf = e.conf
  /\ \A g \in Toggled(e, page) : \/ <<"member", g>> \in Left(todo)
                                 \/ \E w \in plan : w.type = "groups" /\ w.id = g
                                 \/ HasLeft(e, page, a, g)

LEMMA PeerOpened ==
  ASSUME NEW e, NEW page, e.kind = "peer", PageOk(e, page)
  PROVE  e.id \in DOMAIN page.peers
<1>1. e.type = "peers" /\ e.id # None
  BY DEF FormOf, PageOk
<1>. QED
  BY <1>1 DEF PageOk, Shows, OfObject, Held

LEMMA PeerChosen ==
  ASSUME NEW e, NEW page, e.id \in DOMAIN page.peers, NEW g
  PROVE  LET now == Snap(page).peers[e.id].groups
             new == Chosen(e, PeerPage(page, e.id), now, Snap(page))
         IN  /\ g \in new <=> IF g \in Toggled(e, page) THEN g \notin PeerPage(page, e.id)
                              ELSE g \in PeerPage(page, e.id)
             /\ g \in Flip(now, new) <=> g \in Toggled(e, page)
<1>. DEFINE now == Snap(page).peers[e.id].groups
            new == Chosen(e, PeerPage(page, e.id), now, Snap(page))
<1>1. now = PeerPage(page, e.id)
  BY DEF Snap, PeerOf, PeerPage
<1>2. g \in new <=> IF g \in e.groups /\ g \in EditableGroups(Snap(page))
                    THEN g \notin PeerPage(page, e.id) ELSE g \in now
  BY ChosenIs
<1>. HIDE DEF now, new
<1>3. /\ g \in new <=> IF g \in Toggled(e, page) THEN g \notin PeerPage(page, e.id)
                       ELSE g \in PeerPage(page, e.id)
      /\ g \in Flip(now, new) <=> g \in Toggled(e, page)
  BY <1>1, <1>2, FlipIs DEF Toggled
<1>. QED
  BY <1>3 DEF now, new

LEMMA ToggledThere ==
  ASSUME NEW e, NEW page
  PROVE  Toggled(e, page) \subseteq DOMAIN page.groups
  BY DEF Toggled, EditableGroups, Snap

LEMMA PeerStandsSubmit ==
  ASSUME NEW r, NEW e, NEW page, e.kind = "peer", PageOk(e, page), NEW todo,
         todo = Jobs(r, e, page, Snap(page))
  PROVE  PeerStands(e, page, todo, {}, page)
<1>. DEFINE now == Snap(page).peers[e.id].groups
            new == Chosen(e, PeerPage(page, e.id), now, Snap(page))
            first == IF e.conf = Same THEN {} ELSE {<<"settings", e.id>>}
            second == {<<"member", g>> : g \in Flip(now, new)}
<1>1. e.id \in DOMAIN page.peers
  BY PeerOpened
<1>2. e.id \in DOMAIN Snap(page).peers
  BY <1>1 DEF Snap
<1>3. todo = Staged(first, second)
  BY <1>2 DEF Jobs, PeerJobs
<1>4. \A g : g \in Flip(now, new) <=> g \in Toggled(e, page)
  BY <1>1, PeerChosen
<1>5. \A g : <<"member", g>> \in second <=> g \in Flip(now, new)
  <2>1. \A g, h : <<"member", g>> = <<"member", h>> => g = h
    OBVIOUS
  <2>. HIDE DEF now, new
  <2>. QED
    BY <2>1
<1>6. /\ e.conf # Same => <<"settings", e.id>> \in first
      /\ \A g : <<"member", g>> \notin first
  OBVIOUS
<1>7. Left(todo) = first \cup second
  <2>. HIDE DEF first, second
  <2>. QED
    BY <1>3, StagedIs DEF Left
<1>. HIDE DEF now, new, first, second
<1>8. Toggled(e, page) \subseteq DOMAIN page.groups
  BY ToggledThere
<1>. QED
  BY <1>1, <1>4, <1>5, <1>6, <1>7, <1>8 DEF PeerStands

LEMMA SettingsDone ==
  ASSUME NEW e, NEW a, ValidAccount(a), e.id \in DOMAIN a.peers, e.conf # Same
  PROVE  \/ a.peers[e.id].conf = e.conf
         \/ \E w \in SettingsWrites(e, a) : w.type = "peers"
<1>. DEFINE body == PeerBody(a.peers[e.id], e.conf, FALSE)
<1>1. "conf" \in DOMAIN a.peers[e.id]
  BY DEF ValidAccount, Shaped
<1>2. body.conf = e.conf
  BY <1>1 DEF PeerBody, Or
<1>3. \A x : To("peers", e.id, x).type = "peers"
  BY ToIs DEF IsTo
<1>4. SettingsWrites(e, a) = IF body = a.peers[e.id] THEN {} ELSE {To("peers", e.id, body)}
  BY DEF SettingsWrites
<1>. HIDE DEF body
<1>. QED
  BY <1>2, <1>3, <1>4

LEMMA SettingsAreGiven ==
  ASSUME NEW e, NEW a, ValidAccount(a), e.id \in DOMAIN a.peers, NEW w \in SettingsWrites(e, a)
  PROVE  SettingsGiven(e, w)
<1>1. SettingsWrite(w, e, a.peers[e.id])
  BY SettingsWritesAre, ValidParts
<1>2. w.body # Gone
  <2>1. "user" \in DOMAIN w.body
    BY <1>1 DEF SettingsWrite
  <2>. QED
    BY <2>1, NotGone
<1>. QED
  BY <1>1, <1>2 DEF SettingsWrite, SettingsGiven, IsTo, Or

LEMMA MemberDone ==
  ASSUME NEW e, NEW page, NEW a, e.id \in DOMAIN page.peers, NEW g \in Toggled(e, page)
  PROVE  /\ \/ HasLeft(e, page, a, g)
            \/ \E w \in MemberWrites(e, page, Snap(page), g, a) : w.type = "groups" /\ w.id = g
         /\ \A w \in MemberWrites(e, page, Snap(page), g, a) : MemberGiven(e, page, w)
<1>. DEFINE new == Chosen(e, PeerPage(page, e.id), Snap(page).peers[e.id].groups, Snap(page))
            old == a.groups[g].peers
            next == IF g \in new THEN old \cup {e.id} ELSE old \ {e.id}
            body == GroupBody(TRUE, next, a.groups[g].resources)
            plan == MemberWrites(e, page, Snap(page), g, a)
<1>1. g \in new <=> g \notin PeerPage(page, e.id)
  BY PeerChosen
<1>2. plan = IF next = old THEN {} ELSE {To("groups", g, body)}
  BY DEF MemberWrites
<1>3. next = IF g \in new THEN old \cup {e.id} ELSE old \ {e.id}
  OBVIOUS
<1>4. body = [peers |-> next, resources |-> a.groups[g].resources]
  BY DEF GroupBody
<1>5. IsTo(To("groups", g, body), "groups", g) /\ To("groups", g, body).body = body
  BY ToIs
<1>. HIDE DEF new, next, body, plan
<1>6. "peers" \in DOMAIN body /\ body.peers = next
  BY <1>4
<1>7. body # Gone
  BY <1>6, NotGone
<1>8. e.id \in next <=> g \notin PeerPage(page, e.id)
  BY <1>1, <1>3
<1>9. next = old => HasLeft(e, page, a, g)
  BY <1>8 DEF HasLeft
<1>10. next # old => \E w \in plan : w.type = "groups" /\ w.id = g
  BY <1>2, <1>5 DEF IsTo
<1>11. \A w \in plan : MemberGiven(e, page, w)
  BY <1>2, <1>5, <1>6, <1>7, <1>8 DEF IsTo, MemberGiven
<1>. QED
  BY <1>9, <1>10, <1>11 DEF plan

LEMMA PeerStandsWork ==
  ASSUME NEW r, NEW q, NEW a, NEW job, q.make.kind = "peer", PageOk(q.make, q.page),
         q.snap = Snap(q.page), ValidAccount(a), PeerStands(q.make, q.page, q.todo, {}, a),
         JobOf(r, q.make, job), job \in q.todo.now
  PROVE  PeerStands(q.make, q.page, Rest(q.todo, job), Writes(r, q, job, a), a)
<1>. DEFINE e == q.make
            page == q.page
            plan == Writes(r, q, job, a)
            rest == Rest(q.todo, job)
<1>1. \A j \in Left(q.todo) : j # job => j \in Left(rest)
  BY RestLeft
<1>2. \A j \in Left(rest) : j \in Left(q.todo)
  <2>1. rest.now \cup rest.after = (q.todo.now \ {job}) \cup q.todo.after
    BY StagedIs DEF Rest
  <2>. HIDE DEF rest
  <2>. QED
    BY <2>1 DEF Left
<1>3. e.id \in DOMAIN page.peers
  BY PeerOpened
<1>4. e.id \in DOMAIN a.peers
  BY DEF PeerStands
<1>5. CASE job = <<"settings", e.id>>
  <2>1. job[1] = "settings" /\ \A g : job # <<"member", g>>
    BY <1>5
  <2>2. plan = SettingsWrites(e, a)
    BY <2>1, WritesBy
  <2>3. \A w \in plan : SettingsGiven(e, w)
    BY <1>4, <2>2, SettingsAreGiven
  <2>4. e.conf # Same => a.peers[e.id].conf = e.conf \/ \E w \in plan : w.type = "peers"
    BY <1>4, <2>2, SettingsDone
  <2>. HIDE DEF plan, rest
  <2>5. PeerStands(e, page, rest, plan, a)
    BY <1>1, <1>2, <2>1, <2>3, <2>4 DEF PeerStands
  <2>. QED
    BY <2>5 DEF plan, rest
<1>6. CASE \E g \in e.groups : job = <<"member", g>>
  <2>1. PICK g \in e.groups : job = <<"member", g>>
    BY <1>6
  <2>2. /\ job[1] = "member" /\ job[2] = g /\ job # <<"settings", e.id>>
        /\ \A h : h # g => job # <<"member", h>>
    BY <2>1
  <2>3. plan = MemberWrites(e, page, Snap(page), g, a)
    BY <2>2, WritesBy
  <2>4. g \in Toggled(e, page)
    BY <2>1 DEF PeerStands, Left
  <2>5. /\ HasLeft(e, page, a, g) \/ \E w \in plan : w.type = "groups" /\ w.id = g
        /\ \A w \in plan : MemberGiven(e, page, w)
    BY <1>3, <2>3, <2>4, MemberDone
  <2>. HIDE DEF plan, rest
  <2>6. PeerStands(e, page, rest, plan, a)
    BY <1>1, <1>2, <2>1, <2>2, <2>5 DEF PeerStands
  <2>. QED
    BY <2>6 DEF plan, rest
<1>. QED
  BY <1>5, <1>6 DEF JobOf

LEMMA PeerStandsMakes ==
  ASSUME NEW r, NEW e, NEW page, NEW todo, NEW plan, NEW a, ValidAccount(a),
         PeerStands(e, page, todo, plan, a), NEW w \in plan
  PROVE  PeerStands(e, page, todo, plan \ {w}, Applied(a, w, r))
<1>. DEFINE b == Applied(a, w, r)
<1>1. CASE SettingsGiven(e, w)
  <2>1. b.peers = [a.peers EXCEPT ![w.id] = w.body] /\ Kept(b, a, {"peers"})
    BY <1>1, PutPeer DEF SettingsGiven, ValidAccount
  <2>2. b.groups = a.groups
    BY <2>1 DEF Kept, AccountParts
  <2>. HIDE DEF b
  <2>3. e.id \in DOMAIN b.peers /\ b.peers[e.id] = w.body
    BY <1>1, <2>1 DEF PeerStands, SettingsGiven
  <2>4. PeerStands(e, page, todo, plan \ {w}, b)
    BY <1>1, <2>2, <2>3 DEF PeerStands, SettingsGiven, HasLeft
  <2>. QED
    BY <2>4 DEF b
<1>2. CASE MemberGiven(e, page, w)
  <2>1. b.groups = Upsert(a.groups, w.id, w.body) /\ Kept(b, a, {"groups"})
    BY <1>2, PutGroup DEF MemberGiven, ValidAccount
  <2>2. b.peers = a.peers
    BY <2>1 DEF Kept, AccountParts
  <2>. HIDE DEF b
  <2>3. /\ DOMAIN a.groups \subseteq DOMAIN b.groups /\ b.groups[w.id] = w.body
        /\ \A g \in DOMAIN a.groups : g # w.id => b.groups[g] = a.groups[g]
    BY <2>1 DEF Upsert
  <2>4. HasLeft(e, page, b, w.id)
    BY <1>2, <2>3 DEF HasLeft, MemberGiven
  <2>5. \A g \in Toggled(e, page) : g # w.id => (HasLeft(e, page, b, g) <=> HasLeft(e, page, a, g))
    BY <2>3 DEF HasLeft, PeerStands
  <2>6. (\E v \in plan : v.type = "peers") => \E v \in plan \ {w} : v.type = "peers"
    BY <1>2 DEF MemberGiven
  <2>7. PeerStands(e, page, todo, plan \ {w}, b)
    BY <2>2, <2>3, <2>4, <2>5, <2>6 DEF PeerStands
  <2>. QED
    BY <2>7 DEF b
<1>. QED
  BY <1>1, <1>2 DEF PeerStands

LEMMA PeerFulfilled ==
  ASSUME NEW r, NEW e, NEW page, e.kind = "peer", NEW todo, Left(todo) = {},
         PeerStands(e, page, todo, {}, acc), e.id \in DOMAIN page.peers
  PROVE  Fulfilled(r, e, page)
<1>1. \A g \in Toggled(e, page) :
        /\ g \in DOMAIN acc.groups /\ g \in DOMAIN page.groups
        /\ e.id \in acc.groups[g].peers <=> g \notin PeerPage(page, e.id)
  BY ToggledThere DEF PeerStands, HasLeft
<1>2. \A g \in Toggled(e, page) : g \in PeerPage(page, e.id) <=> e.id \in page.groups[g].peers
  BY <1>1 DEF PeerPage
<1>3. \A g \in Toggled(e, page) : <<"member", g, e.id>> \in Flip(Facts(page), Facts(acc))
  BY <1>1, <1>2, MemberFlips
<1>4. e.conf # Same => acc.peers[e.id].conf = e.conf
  BY DEF PeerStands
<1>. QED
  BY <1>3, <1>4 DEF Fulfilled, Toggled

-----------------------------------------------------------------------------
(* A key that is revoked.                                                  *)

KeyGiven(e, w) == w.type = "keys" /\ w.id = e.id /\ w.body # Gone /\ w.body.revoked

KeyStands(e, todo, plan, a) ==
  /\ \A w \in plan : KeyGiven(e, w)
  /\ <<"key", e.id>> \in Left(todo) \/ plan # {} \/ a.keys[e.id].revoked

RevokesKey(e) == e.kind = "key" /\ e.action = "revoke"

LEMMA KeyStandsSubmit ==
  ASSUME NEW r, NEW e, NEW page, NEW snap, RevokesKey(e), NEW todo, todo = Jobs(r, e, page, snap),
         NEW a
  PROVE  KeyStands(e, todo, {}, a)
<1>1. todo = Staged({<<"key", e.id>>}, {})
  BY DEF Jobs, RevokesKey
<1>2. {<<"key", e.id>>} # {}
  OBVIOUS
<1>3. <<"key", e.id>> \in Left(todo)
  BY <1>1, <1>2, StagedLeft
<1>. QED
  BY <1>3 DEF KeyStands

LEMMA KeyStandsWork ==
  ASSUME NEW r, NEW q, NEW a, NEW job, RevokesKey(q.make), JobOf(r, q.make, job), NEW todo
  PROVE  KeyStands(q.make, todo, Writes(r, q, job, a), a)
<1>. DEFINE e == q.make
            plan == Writes(r, q, job, a)
            now == a.keys[e.id]
            body == KeyBody(now, Chosen(e, q.page.keys[e.id].groups, now.groups, q.snap),
                            e.action = "revoke")
<1>1. job = <<"key", e.id>>
  BY DEF JobOf, RevokesKey
<1>2. job[1] = "key" /\ job[2] = e.id /\ e.kind # "bulk" /\ e.action # "delete"
  BY <1>1 DEF RevokesKey
<1>3. plan = KeyWrites(e, q.page, q.snap, e.id, a)
  BY <1>2, WritesBy
<1>4. plan = IF body = now THEN {} ELSE {To("keys", e.id, body)}
  BY <1>3 DEF KeyWrites
<1>5. body.revoked = TRUE
  <2>1. body.revoked = (now.revoked \/ e.action = "revoke")
    BY DEF KeyBody
  <2>. HIDE DEF body
  <2>. QED
    BY <2>1, Zenon DEF RevokesKey
<1>6. "groups" \in DOMAIN body
  BY DEF KeyBody
<1>. HIDE DEF plan, now, body
<1>7. body # Gone
  BY <1>6, NotGone
<1>8. IsTo(To("keys", e.id, body), "keys", e.id) /\ To("keys", e.id, body).body = body
  BY ToIs
<1>9. \A w \in plan : KeyGiven(e, w)
  BY <1>4, <1>5, <1>7, <1>8 DEF KeyGiven, IsTo
<1>10. plan # {} \/ now.revoked
  BY <1>4, <1>5
<1>11. KeyStands(e, todo, plan, a)
  BY <1>9, <1>10 DEF KeyStands, now
<1>. QED
  BY <1>11 DEF plan

LEMMA KeyStandsMakes ==
  ASSUME NEW r, NEW e, NEW todo, NEW plan, NEW a, ValidAccount(a), KeyStands(e, todo, plan, a),
         NEW w \in plan
  PROVE  KeyStands(e, todo, plan \ {w}, Applied(a, w, r))
<1>. DEFINE b == Applied(a, w, r)
<1>1. KeyGiven(e, w)
  BY DEF KeyStands
<1>2. b.keys = Upsert(a.keys, w.id, w.body)
  BY <1>1, PutKey DEF KeyGiven, ValidAccount
<1>. HIDE DEF b
<1>3. b.keys[e.id].revoked
  BY <1>1, <1>2 DEF Upsert, KeyGiven
<1>4. KeyStands(e, todo, plan \ {w}, b)
  BY <1>3 DEF KeyStands
<1>. QED
  BY <1>4 DEF b

LEMMA KeyFulfilled ==
  ASSUME NEW r, NEW e, NEW page, RevokesKey(e), NEW todo, Left(todo) = {}, KeyStands(e, todo, {}, acc)
  PROVE  Fulfilled(r, e, page)
<1>1. acc.keys[e.id].revoked
  BY DEF KeyStands
<1>2. e.kind = "key" /\ e.action = "revoke"
  BY DEF RevokesKey
<1>. QED
  BY <1>1, <1>2 DEF Fulfilled

-----------------------------------------------------------------------------
(* A user, and then the groups in which its devices have drifted.          *)

WantOf(e, page) == Chosen(e, page.users[e.id].auto, page.users[e.id].auto, Snap(page))

Drifting(e, page) == OwnAligned(e, Snap(page))

UserIs(e, page, a) ==
  a.users[e.id].auto = WantOf(e, page) /\ (e.role # Same => a.users[e.id].role = e.role)

SelfGiven(e, page, w) ==
  /\ w.type = "users" /\ w.id = e.id /\ w.body # Gone
  /\ w.body.auto = WantOf(e, page) /\ (e.role # Same => w.body.role = e.role)

AlignGiven(e, page, w) ==
  /\ w.type = "groups" /\ w.id \in ManagedGroups(Snap(page)) /\ w.body # Gone
  /\ \A p \in Drifting(e, page) : p \in w.body.peers <=> w.id \in WantOf(e, page)

Aligned(e, page, a, g) ==
  \A p \in Drifting(e, page) : p \in a.groups[g].peers <=> g \in WantOf(e, page)

AllAligned(e, page, plan, a) ==
  \A g \in ManagedGroups(Snap(page)) :
    (\E w \in plan : w.type = "groups" /\ w.id = g) \/ Aligned(e, page, a, g)

AlignDue(e, page, jobs) == Drifting(e, page) = {} \/ <<"align", e.id>> \in jobs

(* Who and what there is stays as it was on the page.                      *)
UserFrame(page, a) ==
  DOMAIN a.groups = DOMAIN page.groups /\ a.nets = page.nets /\ DOMAIN a.peers = DOMAIN page.peers

UserPending(e, page, todo, a) ==
  /\ a.users[e.id] = page.users[e.id] /\ todo.now = {<<"user", e.id>>}
  /\ <<"user", e.id>> \notin todo.after /\ AlignDue(e, page, todo.after)

UserWritten(e, page, todo, plan, a) ==
  /\ AlignDue(e, page, Left(todo)) /\ (\A w \in plan : SelfGiven(e, page, w))
  /\ plan = {} => UserIs(e, page, a)

GroupsWritten(e, page, plan, a) ==
  /\ UserIs(e, page, a) /\ (\A w \in plan : AlignGiven(e, page, w))
  /\ AllAligned(e, page, plan, a)

UserStands(e, page, want, todo, plan, a) ==
  /\ UserFrame(page, a) /\ e.id \in Users
  /\ \/ plan = {} /\ UserPending(e, page, todo, a)
     \/ /\ want = WantOf(e, page) /\ <<"user", e.id>> \notin Left(todo)
        /\ UserWritten(e, page, todo, plan, a) \/ GroupsWritten(e, page, plan, a)

LEMMA UserOpened ==
  ASSUME NEW e, NEW page, e.kind = "user", PageOk(e, page)
  PROVE  e.id \in Users
<1>1. e.type = "users" /\ e.id # None /\ DOMAIN page.users = Users
  BY DEF FormOf, PageOk, ValidAccount, Coherent
<1>. QED
  BY <1>1 DEF PageOk, Shows, OfObject, Held

LEMMA UserStandsSubmit ==
  ASSUME NEW r, NEW e, NEW page, e.kind = "user", PageOk(e, page), NEW todo,
         todo = Jobs(r, e, page, Snap(page)), NEW want
  PROVE  UserStands(e, page, want, todo, {}, page)
<1>. DEFINE second == IF Drifting(e, page) # {} THEN {<<"align", e.id>>} ELSE {}
<1>1. todo = Staged({<<"user", e.id>>}, second)
  BY DEF Jobs, UserJobs, Drifting
<1>2. <<"user", e.id>> \notin second /\ AlignDue(e, page, second) /\ {<<"user", e.id>>} # {}
  BY DEF AlignDue
<1>. HIDE DEF second
<1>3. todo.now = {<<"user", e.id>>} /\ todo.after = second
  BY <1>1, <1>2, StagedLeft
<1>4. e.id \in Users
  BY UserOpened
<1>. QED
  BY <1>2, <1>3, <1>4 DEF UserStands, UserPending, UserFrame

LEMMA SelfDone ==
  ASSUME NEW e, NEW page, NEW a, a.users[e.id] = page.users[e.id], a.users[e.id] # Bad,
         NEW plan, plan = UserWrites(e, page, Snap(page), a), \A w \in plan : w.body # Bad
  PROVE  (\A w \in plan : SelfGiven(e, page, w)) /\ (plan = {} => UserIs(e, page, a))
<1>. DEFINE want == WantOf(e, page)
            now == a.users[e.id]
            new == Or(e.role, now.role)
            made == [role |-> new, auto |-> want, blocked |-> Or(e.blocked, now.blocked)]
            body == UserBody(now, want, e.role, e.blocked)
<1>1. UserWant(e, page, Snap(page), a) = want
  BY DEF UserWant, WantOf
<1>2. plan = IF body = now THEN {} ELSE {To("users", e.id, body)}
  BY <1>1 DEF UserWrites
<1>3. body = Bad \/ body = made
  BY DEF UserBody
<1>4. "role" \in DOMAIN made /\ made.auto = want /\ made.role = new
  OBVIOUS
<1>5. e.role # Same => new = e.role
  BY DEF Or
<1>6. IsTo(To("users", e.id, body), "users", e.id) /\ To("users", e.id, body).body = body
  BY ToIs
<1>7. made # Gone
  <2>. HIDE DEF made
  <2>. QED
    BY <1>4, NotGone
<1>. HIDE DEF body, made, new, want, now
<1>8. \A w \in plan : w.type = "users" /\ w.id = e.id /\ w.body = made
  BY <1>2, <1>3, <1>6 DEF IsTo
<1>9. \A w \in plan : SelfGiven(e, page, w)
  BY <1>4, <1>5, <1>7, <1>8 DEF SelfGiven, want
<1>10. plan = {} => now = made
  BY <1>2, <1>3 DEF now
<1>11. plan = {} => UserIs(e, page, a)
  BY <1>4, <1>5, <1>10 DEF UserIs, want, now
<1>. QED
  BY <1>9, <1>11

LEMMA AlignDone ==
  ASSUME NEW e, NEW page, NEW a, UserFrame(page, a), NEW want, want = WantOf(e, page)
  PROVE  LET plan == AlignWrites(e, Snap(page), want, a)
         IN  (\A w \in plan : AlignGiven(e, page, w)) /\ AllAligned(e, page, plan, a)
<1>. DEFINE own == Drifting(e, page)
            managed == ManagedGroups(Snap(page))
            members == [g \in DOMAIN a.groups |-> a.groups[g].peers]
            changes == Alignment(members, managed \cap DOMAIN a.groups, own, want)
            new(g) == (members[g] \ own) \cup (IF g \in want THEN own ELSE {})
            of(g) == To("groups", g, GroupBody(TRUE, changes[g], a.groups[g].resources))
            S == DOMAIN changes
            plan == AlignWrites(e, Snap(page), want, a)
<1>1. plan = {of(g) : g \in S}
  BY DEF AlignWrites, Drifting
<1>2. S = {x \in managed \cap DOMAIN a.groups : new(x) # members[x]}
  BY DEF Alignment
<1>3. \A g \in DOMAIN a.groups : members[g] = a.groups[g].peers
  OBVIOUS
<1>4. \A g : new(g) = (members[g] \ own) \cup (IF g \in want THEN own ELSE {})
  OBVIOUS
<1>5. \A g : of(g).type = "groups" /\ of(g).id = g
  <2>1. \A g, x : To("groups", g, x).type = "groups" /\ To("groups", g, x).id = g
    BY ToIs DEF IsTo
  <2>. HIDE DEF changes
  <2>. QED
    BY <2>1
<1>6. \A w \in plan : AlignGiven(e, page, w)
  <2>1. SUFFICES ASSUME NEW w \in plan
                 PROVE  AlignGiven(e, page, w)
    OBVIOUS
  <2>2. AlignWrite(w, a, own, managed, want)
    BY AlignWritesAre DEF Drifting
  <2>. HIDE DEF own, managed, plan
  <2>3. "peers" \in DOMAIN w.body
    BY <2>2 DEF AlignWrite
  <2>4. w.body # Gone
    BY <2>3, NotGone
  <2>5. \A p \in own : p \in w.body.peers <=> w.id \in want
    BY <2>2 DEF AlignWrite
  <2>. QED
    BY <2>2, <2>4, <2>5 DEF AlignWrite, IsTo, AlignGiven, own, managed
<1>7. managed \subseteq DOMAIN a.groups
  BY DEF ManagedGroups, EditableGroups, Snap, UserFrame
<1>. HIDE DEF own, managed, members, changes, new, of, S, plan
<1>8. ASSUME NEW g \in managed
      PROVE  (\E w \in plan : w.type = "groups" /\ w.id = g) \/ Aligned(e, page, a, g)
  <2>1. CASE g \in S
    BY <1>1, <1>5, <2>1
  <2>2. CASE g \notin S
    <3>1. new(g) = a.groups[g].peers
      BY <1>2, <1>3, <1>7, <2>2
    <3>2. \A p \in own : p \in a.groups[g].peers <=> g \in want
      BY <1>4, <3>1
    <3>. QED
      BY <3>2 DEF Aligned, own
  <2>. QED
    BY <2>1, <2>2
<1>9. AllAligned(e, page, plan, a)
  BY <1>8 DEF AllAligned, managed
<1>. QED
  BY <1>6, <1>9 DEF plan

LEMMA UserStandsWork ==
  ASSUME NEW r, NEW q, NEW a, NEW job, q.make.kind = "user", PageOk(q.make, q.page),
         q.snap = Snap(q.page), UserStands(q.make, q.page, q.want, q.todo, {}, a),
         JobOf(r, q.make, job), job \in q.todo.now, a.users[q.make.id] # Bad,
         \A w \in Writes(r, q, job, a) : w.body # Bad,
         NEW want, want = IF job[1] = "user" THEN UserWant(q.make, q.page, q.snap, a) ELSE q.want
  PROVE  UserStands(q.make, q.page, want, Rest(q.todo, job), Writes(r, q, job, a), a)
<1>. DEFINE e == q.make
            page == q.page
            plan == Writes(r, q, job, a)
            rest == Rest(q.todo, job)
<1>1. rest.now \cup rest.after = (q.todo.now \ {job}) \cup q.todo.after
  BY StagedIs DEF Rest
<1>2. Left(rest) = (q.todo.now \ {job}) \cup q.todo.after
  BY <1>1 DEF Left
<1>3. CASE job = <<"user", e.id>>
  <2>1. job[1] = "user"
    BY <1>3
  <2>2. plan = UserWrites(e, page, Snap(page), a)
    BY <2>1, WritesBy
  <2>3. UserPending(e, page, q.todo, a)
    BY <1>3 DEF UserStands, Left
  <2>4. want = WantOf(e, page)
    BY <2>1, <2>3 DEF UserPending, UserWant, WantOf
  <2>5. (\A w \in plan : SelfGiven(e, page, w)) /\ (plan = {} => UserIs(e, page, a))
    BY <2>2, <2>3, SelfDone DEF UserPending
  <2>. HIDE DEF plan, rest
  <2>6. Left(rest) = q.todo.after
    BY <1>2, <1>3, <2>3 DEF UserPending
  <2>7. UserStands(e, page, want, rest, plan, a)
    BY <2>3, <2>4, <2>5, <2>6 DEF UserStands, UserPending, UserWritten
  <2>. QED
    BY <2>7 DEF plan, rest
<1>4. CASE job = <<"align", e.id>>
  <2>1. job[1] = "align" /\ job # <<"user", e.id>>
    BY <1>4
  <2>2. ~UserPending(e, page, q.todo, a)
    BY <2>1 DEF UserPending
  <2>3. /\ q.want = WantOf(e, page) /\ <<"user", e.id>> \notin Left(q.todo)
        /\ UserIs(e, page, a) /\ UserFrame(page, a)
    BY <2>2 DEF UserStands, UserWritten, GroupsWritten
  <2>4. plan = AlignWrites(e, Snap(page), q.want, a) /\ want = q.want
    BY <2>1, WritesBy
  <2>5. (\A w \in plan : AlignGiven(e, page, w)) /\ AllAligned(e, page, plan, a)
    BY <2>3, <2>4, AlignDone
  <2>. HIDE DEF plan, rest
  <2>6. <<"user", e.id>> \notin Left(rest)
    BY <1>2, <2>3 DEF Left
  <2>7. UserStands(e, page, want, rest, plan, a)
    BY <2>3, <2>4, <2>5, <2>6 DEF UserStands, GroupsWritten
  <2>. QED
    BY <2>7 DEF plan, rest
<1>. QED
  BY <1>3, <1>4 DEF JobOf

LEMMA UserStandsMakes ==
  ASSUME NEW r, NEW e, NEW page, NEW want, NEW todo, NEW plan, NEW a, ValidAccount(a),
         UserStands(e, page, want, todo, plan, a), NEW w \in plan
  PROVE  UserStands(e, page, want, todo, plan \ {w}, Applied(a, w, r))
<1>. DEFINE b == Applied(a, w, r)
<1>1. /\ want = WantOf(e, page) /\ <<"user", e.id>> \notin Left(todo)
      /\ UserFrame(page, a) /\ e.id \in Users
      /\ UserWritten(e, page, todo, plan, a) \/ GroupsWritten(e, page, plan, a)
  BY DEF UserStands
<1>2. CASE UserWritten(e, page, todo, plan, a)
  <2>1. SelfGiven(e, page, w)
    BY <1>2 DEF UserWritten
  <2>2. /\ b.users[w.id] = w.body /\ FollowUser(b.groups, a, w.id, w.body.auto)
        /\ b.peers = a.peers /\ b.nets = a.nets
    BY <1>1, <2>1, UserPutUsers DEF SelfGiven
  <2>. HIDE DEF b
  <2>3. UserIs(e, page, b) /\ UserFrame(page, b)
    BY <1>1, <2>1, <2>2 DEF UserIs, UserFrame, SelfGiven, FollowUser
  <2>4. UserStands(e, page, want, todo, plan \ {w}, b)
    BY <1>1, <1>2, <2>3 DEF UserStands, UserWritten
  <2>. QED
    BY <2>4 DEF b
<1>3. CASE GroupsWritten(e, page, plan, a)
  <2>1. AlignGiven(e, page, w)
    BY <1>3 DEF GroupsWritten
  <2>2. b.groups = Upsert(a.groups, w.id, w.body) /\ Kept(b, a, {"groups"})
    BY <2>1, PutGroup DEF AlignGiven, ValidAccount
  <2>3. b.users = a.users /\ b.peers = a.peers /\ b.nets = a.nets
    BY <2>2 DEF Kept, AccountParts
  <2>4. w.id \in DOMAIN a.groups
    BY <1>1, <2>1 DEF AlignGiven, UserFrame, ManagedGroups, EditableGroups, Snap
  <2>. HIDE DEF b
  <2>5. /\ DOMAIN b.groups = DOMAIN a.groups /\ b.groups[w.id] = w.body
        /\ \A g \in DOMAIN a.groups : g # w.id => b.groups[g] = a.groups[g]
    BY <2>2, <2>4 DEF Upsert
  <2>6. ManagedGroups(Snap(page)) \subseteq DOMAIN a.groups
    BY <1>1 DEF UserFrame, ManagedGroups, EditableGroups, Snap
  <2>7. Aligned(e, page, b, w.id)
    BY <2>1, <2>5 DEF Aligned, AlignGiven
  <2>8. \A g \in ManagedGroups(Snap(page)) :
          g # w.id => (Aligned(e, page, b, g) <=> Aligned(e, page, a, g))
    BY <2>5, <2>6 DEF Aligned
  <2>9. AllAligned(e, page, plan \ {w}, b)
    BY <1>3, <2>7, <2>8 DEF AllAligned, GroupsWritten
  <2>10. UserStands(e, page, want, todo, plan \ {w}, b)
    BY <1>1, <1>3, <2>3, <2>5, <2>9 DEF UserStands, GroupsWritten, UserFrame, UserIs
  <2>. QED
    BY <2>10 DEF b
<1>. QED
  BY <1>1, <1>2, <1>3

LEMMA UserFulfilled ==
  ASSUME NEW r, NEW e, NEW page, e.kind = "user", PageOk(e, page), ValidAccount(acc), NEW todo,
         Left(todo) = {}, NEW want, UserStands(e, page, want, todo, {}, acc)
  PROVE  Fulfilled(r, e, page)
<1>1. /\ UserFrame(page, acc) /\ e.id \in Users
      /\ UserWritten(e, page, todo, {}, acc) \/ GroupsWritten(e, page, {}, acc)
  BY DEF UserStands, UserPending, Left
<1>2. UserIs(e, page, acc)
  BY <1>1 DEF UserWritten, GroupsWritten
<1>3. Drifting(e, page) = {} \/ \A g \in ManagedGroups(Snap(page)) : Aligned(e, page, acc, g)
  BY <1>1 DEF UserWritten, GroupsWritten, AlignDue, AllAligned
<1>4. \A g \in ManagedGroups(Snap(page)) : \A p \in Drifting(e, page) :
        p \in acc.groups[g].peers <=> g \in WantOf(e, page)
  BY <1>3 DEF Aligned
<1>5. ManagedGroups(Snap(acc)) = ManagedGroups(Snap(page))
  <2>1. Snap(acc).nets = Snap(page).nets /\ DOMAIN Snap(acc).groups = DOMAIN Snap(page).groups
    BY <1>1 DEF Snap, UserFrame
  <2>. QED
    BY <2>1 DEF ManagedGroups, EditableGroups, RouterGroups
<1>6. ASSUME NEW p \in OwnAligned(e, Snap(page))
      PROVE  PeerDrift(Snap(acc), p, acc.users[e.id].auto) = {}
  <2>1. p \in DOMAIN acc.peers
    BY <1>1 DEF OwnAligned, DevicesOf, Snap, UserFrame
  <2>2. Snap(acc).peers[p].groups = {g \in DOMAIN acc.groups : p \in acc.groups[g].peers}
    BY <2>1 DEF Snap, PeerOf
  <2>3. ManagedGroups(Snap(page)) \subseteq DOMAIN acc.groups
    BY <1>1 DEF UserFrame, ManagedGroups, EditableGroups, Snap
  <2>4. \A g \in ManagedGroups(Snap(page)) :
           g \in Snap(acc).peers[p].groups <=> g \in acc.users[e.id].auto
    BY <1>2, <1>4, <2>2, <2>3 DEF UserIs, Drifting
  <2>. QED
    BY <1>5, <2>4, FlipIs DEF PeerDrift
<1>7. ASSUME NEW g \in e.groups \cap EditableGroups(Snap(page))
      PROVE  <<"auto", g, e.id>> \in Flip(Facts(page), Facts(acc))
  <2>1. g \in acc.users[e.id].auto <=> g \notin page.users[e.id].auto
    BY <1>2, <1>7, ChosenIs DEF UserIs, WantOf
  <2>2. DOMAIN acc.users = Users /\ DOMAIN page.users = Users
    BY DEF ValidAccount, Coherent, PageOk
  <2>. QED
    BY <1>1, <2>1, <2>2, AutoFlips
<1>8. e.role # Same => acc.users[e.id].role = e.role
  BY <1>2 DEF UserIs
<1>. QED
  BY <1>6, <1>7, <1>8 DEF Fulfilled

-----------------------------------------------------------------------------
(* No user is the error that a refused payload is.                         *)

UsersSound(a) == \A u \in Users : a.users[u] # Bad

PlanSound(q) == \A w \in q.plan : w.body # Bad

Sound == UsersSound(acc) /\ \A r \in Editors : PlanSound(edit[r])

LEMMA UsersKept ==
  ASSUME NEW a, NEW w, NEW r, ValidAccount(a), ValidWrite(w), Accepts(a, w), w.type # "users"
  PROVE  Applied(a, w, r).users = a.users
<1>. DEFINE b == Applied(a, w, r)
<1>1. Shaped(a) /\ (w.type = "routers" => w.net \in DOMAIN a.nets)
  BY DEF ValidAccount, Accepts
<1>2. CASE w.body # Gone
  <2>1. \/ Kept(b, a, {"groups"}) \/ Kept(b, a, {"policies"}) \/ Kept(b, a, {"keys"})
        \/ Kept(b, a, {"peers"}) \/ Kept(b, a, {"nets"}) \/ Kept(b, a, {"resources", "groups"})
    BY <1>1, <1>2, PutGroup, PutPolicy, PutKey, PutPeer, PutNetwork, PutRouter, PutResource
       DEF ValidWrite, Types
  <2>. HIDE DEF b
  <2>2. b.users = a.users
    BY <2>1 DEF Kept, AccountParts
  <2>. QED
    BY <2>2 DEF b
<1>3. CASE w.body = Gone /\ w.type \in {"groups", "policies", "keys", "peers", "routers"}
  <2>1. \/ Kept(b, a, {"groups"}) \/ Kept(b, a, {"policies"}) \/ Kept(b, a, {"keys"})
        \/ Kept(b, a, {"nets"}) \/ Kept(b, a, {"peers", "policies", "groups"})
    BY <1>1, <1>3, DeletedOne, DeletedRouter, DeletedPeer
  <2>. HIDE DEF b
  <2>2. b.users = a.users
    BY <2>1 DEF Kept, AccountParts
  <2>. QED
    BY <2>2 DEF b
<1>4. CASE w.body = Gone /\ w.type = "resources"
  <2>. DEFINE d == DropResources(a, {w.id})
  <2>1. Kept(d, a, {"resources", "groups", "policies"}) /\ b = d
    BY <1>1, <1>4, DeletedResource, DroppedResources
  <2>. HIDE DEF b, d
  <2>2. b.users = a.users
    BY <2>1 DEF Kept, AccountParts
  <2>. QED
    BY <2>2 DEF b
<1>5. CASE w.body = Gone /\ w.type = "nets"
  <2>. DEFINE d == DropResources(a, ResourcesIn(a, w.id))
  <2>1. Kept(b, d, {"nets"}) /\ Kept(d, a, {"resources", "groups", "policies"})
    BY <1>1, <1>5, DeletedNetwork, DroppedResources
  <2>. HIDE DEF b, d
  <2>2. b.users = a.users
    BY <2>1 DEF Kept, AccountParts
  <2>. QED
    BY <2>2 DEF b
<1>. QED
  BY <1>2, <1>3, <1>4, <1>5 DEF ValidWrite, Types

LEMMA SoundApplied ==
  ASSUME NEW a, NEW w, NEW r, ValidAccount(a), ValidWrite(w), Accepts(a, w), UsersSound(a),
         w.body # Bad
  PROVE  UsersSound(Applied(a, w, r))
<1>. DEFINE b == Applied(a, w, r)
<1>1. CASE w.type = "users"
  <2>1. w.body # Gone /\ w.id \in Users
    <3>1. w.body # Gone /\ ~w.new
      BY <1>1 DEF ValidWrite
    <3>2. DOMAIN a.users = Users
      BY DEF ValidAccount, Coherent
    <3>. QED
      BY <1>1, <3>1, <3>2 DEF Accepts, Held
  <2>2. /\ b.users[w.id] = w.body /\ \A u \in Users : u # w.id => b.users[u] = a.users[u]
    BY <1>1, <2>1, UserPutUsers
  <2>. HIDE DEF b
  <2>3. UsersSound(b)
    BY <2>2 DEF UsersSound
  <2>. QED
    BY <2>3 DEF b
<1>2. CASE w.type # "users"
  <2>1. b.users = a.users
    BY <1>2, UsersKept
  <2>. HIDE DEF b
  <2>2. UsersSound(b)
    BY <2>1 DEF UsersSound
  <2>. QED
    BY <2>2 DEF b
<1>. QED
  BY <1>1, <1>2

(* The account changes by a planned write only.                            *)
LEMMA AccountNext ==
  ASSUME EditNext
  PROVE  acc' = acc \/ \E r \in Editors : \E w \in edit[r].plan : Takes(r, w)
<1>1. PICK r \in Editors :
        \/ \E e \in Edits : Open(r, e)
        \/ Preview(r) \/ Submit(r) \/ Work(r) \/ Save(r)
        \/ AnswerLost(r) \/ Refused(r) \/ NoAnswer(r)
  BY DEF EditNext
<1>2. CASE Save(r)
  BY <1>2 DEF Save
<1>3. CASE AnswerLost(r)
  BY <1>3 DEF AnswerLost
<1>4. CASE (\E e \in Edits : Open(r, e)) \/ Preview(r) \/ Submit(r) \/ Work(r)
  BY <1>4 DEF Open, Preview, Submit, Work
<1>5. CASE Refused(r) \/ NoAnswer(r)
  BY <1>5 DEF Refused, NoAnswer
<1>. QED
  BY <1>1, <1>2, <1>3, <1>4, <1>5

LEMMA SoundPlan ==
  ASSUME NEW r, NEW q, NEW p, PlanSound(q), StepTo(r, q, p)
  PROVE  PlanSound(p)
<1>1. CASE Opens(q, p)
  BY <1>1 DEF Opens, PlanSound
<1>2. CASE Previews(r, q, p)
  <2>1. p.plan = q.plan
    BY <1>2 DEF Previews, Same1, Parts
  <2>. QED
    BY <2>1 DEF PlanSound
<1>3. CASE Submits(r, q, p)
  <2>1. p.plan = q.plan
    BY <1>3 DEF Submits, Same1, Parts
  <2>. QED
    BY <2>1 DEF PlanSound
<1>4. CASE \E job \in q.todo.now : WorksOn(r, q, p, job)
  BY <1>4 DEF WorksOn, PlanSound
<1>5. CASE \E w \in q.plan : Makes(r, q, p, w)
  <2>1. p.plan \subseteq q.plan
    BY <1>5 DEF Makes
  <2>. QED
    BY <2>1 DEF PlanSound
<1>6. CASE \E job : FailsAt(q, p, job)
  BY <1>6 DEF FailsAt, PlanSound
<1>. QED
  BY <1>1, <1>2, <1>3, <1>4, <1>5, <1>6 DEF StepTo

LEMMA SoundNext ==
  ASSUME EditInv, Sound, EditNext
  PROVE  Sound'
<1>1. UsersSound(acc')
  <2>1. CASE acc' = acc
    BY <2>1 DEF Sound
  <2>2. CASE \E r \in Editors : \E w \in edit[r].plan : Takes(r, w)
    <3>1. PICK r \in Editors : \E w \in edit[r].plan : Takes(r, w)
      BY <2>2
    <3>2. PICK w \in edit[r].plan : Takes(r, w)
      BY <3>1
    <3>3. ValidWrite(w) /\ w.body # Bad /\ ValidAccount(acc) /\ UsersSound(acc)
      BY DEF EditInv, ValidEdit, Sound, PlanSound
    <3>4. Accepts(acc, w) /\ acc' = Applied(acc, w, r)
      BY <3>2 DEF Takes
    <3>5. UsersSound(Applied(acc, w, r))
      BY <3>3, <3>4, SoundApplied
    <3>. QED
      BY <3>4, <3>5 DEF UsersSound
  <2>. QED
    BY <2>1, <2>2, AccountNext
<1>2. PICK r \in Editors : StepTo(r, edit[r], edit'[r]) /\ OthersOf(r)
  BY StepIs
<1>3. PlanSound(edit'[r])
  BY <1>2, SoundPlan DEF Sound
<1>4. ASSUME NEW s \in Editors \ {r}
      PROVE  PlanSound(edit'[s])
  <2>1. edit'[s].plan = edit[s].plan
    BY <1>2, <1>4 DEF OthersOf, Overtaken, Same1, Parts
  <2>. QED
    BY <2>1 DEF Sound, PlanSound
<1>. QED
  BY <1>1, <1>3, <1>4 DEF Sound, UsersSound

LEMMA SoundInit ==
  ASSUME EditInit
  PROVE  Sound
<1>1. UsersSound(acc)
  BY EditConstants DEF EditInit, UsersSound, ValidAccount, Coherent
<1>2. \A r \in Editors : edit[r] = Idle
  BY DEF EditInit
<1>3. PlanSound(Idle)
  BY DEF Idle, PlanSound
<1>. QED
  BY <1>1, <1>2, <1>3 DEF Sound

-----------------------------------------------------------------------------
(* Where a save stands that nobody else came between: what its user asked  *)
(* for is done, planned, or still to be done.                              *)

Judged(e) == IsGroup(e) \/ e.kind \in {"peer", "user"} \/ RevokesKey(e)

Task(r, q, a) ==
  /\ IsGroup(q.make) => GroupTask(r, q, a)
  /\ q.make.kind = "peer" => PeerStands(q.make, q.page, q.todo, q.plan, a)
  /\ q.make.kind = "user" => UserStands(q.make, q.page, q.want, q.todo, q.plan, a)
  /\ RevokesKey(q.make) => KeyStands(q.make, q.todo, q.plan, a)

Tidy(todo) == todo.now = {} => todo.after = {}

OnPage(q, a) == q.page = a /\ PageOk(q.make, a)

OnTask(r, q, a) ==
  /\ q.pc = NextPc(q) /\ Tidy(q.todo) /\ q.snap = Snap(q.page) /\ PageOk(q.make, q.page)
  /\ Task(r, q, a)

Stands(r, q, a) ==
  q.alone =>
    /\ q.pc \in {"open", "shown"} => OnPage(q, a)
    /\ q.pc \in {"turn", "put", "saved"} /\ Judged(q.make) => OnTask(r, q, a)

LEMMA KindsApart ==
  ASSUME NEW e
  PROVE  /\ IsGroup(e) => e.kind \notin {"peer", "user"} /\ ~RevokesKey(e)
         /\ RevokesKey(e) => e.kind \notin {"peer", "user", "bulk"}
         /\ Judged(e) => e.kind # "bulk"
  BY DEF IsGroup, RevokesKey, Judged

LEMMA StandsOpens ==
  ASSUME NEW r, NEW q, NEW p, ValidAccount(acc), Opens(q, p)
  PROVE  Stands(r, p, acc')
<1>1. /\ p.pc = "open" /\ p.make \in Edits /\ Shows(p.make, acc) /\ p.page = acc /\ acc' = acc
  BY DEF Opens
<1>2. PageOk(p.make, acc)
  BY <1>1, FormIs DEF PageOk
<1>. QED
  BY <1>1, <1>2 DEF Stands, OnPage

LEMMA StandsPreviews ==
  ASSUME NEW r, NEW q, NEW p, Stands(r, q, acc), Previews(r, q, p)
  PROVE  Stands(r, p, acc')
<1>1. /\ q.pc = "open" /\ p.pc = "shown" /\ acc' = acc /\ p.alone = q.alone
      /\ p.make = q.make /\ p.page = q.page
  BY DEF Previews, Same1, Parts
<1>2. q.alone => OnPage(q, acc)
  BY <1>1 DEF Stands
<1>. QED
  BY <1>1, <1>2 DEF Stands, OnPage

LEMMA JobsTidy ==
  ASSUME NEW r, NEW e, NEW page, NEW snap, Judged(e)
  PROVE  Tidy(Jobs(r, e, page, snap))
<1>1. \A first, second : Tidy(Staged(first, second))
  BY StagedIs DEF Tidy
<1>2. CASE e.kind = "group"
  BY <1>1, <1>2 DEF Jobs, GroupJobs
<1>3. CASE e.kind = "new group"
  BY <1>1, <1>3 DEF Jobs
<1>4. CASE e.kind = "user"
  BY <1>1, <1>4 DEF Jobs, UserJobs
<1>5. CASE e.kind = "peer"
  BY <1>1, <1>5 DEF Jobs, PeerJobs
<1>6. CASE e.kind = "key"
  BY <1>1, <1>6 DEF Jobs
<1>. QED
  BY <1>2, <1>3, <1>4, <1>5, <1>6 DEF Judged, IsGroup, RevokesKey

LEMMA StandsSubmits ==
  ASSUME NEW r \in Editors, NEW q, NEW p, Stands(r, q, acc), ValidEdit(r, q), Submits(r, q, p)
  PROVE  Stands(r, p, acc')
<1>1. /\ q.pc = "shown" /\ acc' = acc /\ p.alone = q.alone /\ p.make = q.make /\ p.page = q.page
      /\ p.plan = q.plan /\ p.want = q.want /\ p.pc = NextPc(p)
      /\ p.snap \in {Snap(q.page), Snap(acc)} /\ p.todo = Jobs(r, q.make, q.page, p.snap)
  BY DEF Submits, Same1, Parts
<1>2. p.plan = {}
  BY <1>1 DEF ValidEdit
<1>3. p.pc \in {"turn", "saved"}
  BY <1>1, <1>2 DEF NextPc
<1>4. ASSUME p.alone, Judged(p.make)
      PROVE  OnTask(r, p, acc)
  <2>1. OnPage(q, acc)
    BY <1>1, <1>4 DEF Stands
  <2>2. q.page = acc /\ PageOk(p.make, p.page) /\ p.snap = Snap(p.page)
    BY <1>1, <2>1 DEF OnPage
  <2>3. p.todo = Jobs(r, p.make, p.page, Snap(p.page))
    BY <1>1, <2>2
  <2>4. Tidy(p.todo)
    BY <1>4, <2>3, JobsTidy
  <2>5. IsGroup(p.make) => GroupTask(r, p, acc)
    BY <1>2, <2>2, <2>3, GroupTaskSubmit
  <2>6. p.make.kind = "peer" => PeerStands(p.make, p.page, p.todo, p.plan, acc)
    BY <1>1, <1>2, <2>2, <2>3, PeerStandsSubmit
  <2>7. p.make.kind = "user" => UserStands(p.make, p.page, p.want, p.todo, p.plan, acc)
    BY <1>1, <1>2, <2>2, <2>3, UserStandsSubmit
  <2>8. RevokesKey(p.make) => KeyStands(p.make, p.todo, p.plan, acc)
    BY <1>2, <2>3, KeyStandsSubmit
  <2>. QED
    BY <1>1, <2>2, <2>4, <2>5, <2>6, <2>7, <2>8 DEF OnTask, Task
<1>. QED
  BY <1>1, <1>3, <1>4 DEF Stands

LEMMA StandsWorks ==
  ASSUME NEW r \in Editors, NEW q, NEW p, Stands(r, q, acc), ValidEdit(r, q), ValidAccount(acc),
         UsersSound(acc), NEW job \in q.todo.now, WorksOn(r, q, p, job)
  PROVE  Stands(r, p, acc')
<1>1. /\ q.pc = "turn" /\ acc' = acc /\ p.alone = q.alone /\ p.make = q.make /\ p.page = q.page
      /\ p.snap = q.snap /\ p.pc = NextPc(p) /\ p.todo = Rest(q.todo, job)
      /\ p.plan = Writes(r, q, job, acc) /\ \A w \in p.plan : w.body # Bad
      /\ p.want = IF job[1] = "user" THEN UserWant(q.make, q.page, q.snap, acc) ELSE q.want
  BY DEF WorksOn, Same1, Parts
<1>2. q.plan = {} /\ JobOf(r, q.make, job)
  BY <1>1 DEF ValidEdit
<1>3. p.pc \in {"turn", "put", "saved"}
  BY <1>1 DEF NextPc
<1>4. Tidy(p.todo)
  BY <1>1, StagedIs DEF Rest, Tidy
<1>5. ASSUME p.alone, Judged(p.make)
      PROVE  OnTask(r, p, acc)
  <2>1. OnTask(r, q, acc)
    BY <1>1, <1>5 DEF Stands
  <2>2. q.snap = Snap(q.page) /\ PageOk(q.make, q.page) /\ Task(r, q, acc)
    BY <2>1 DEF OnTask
  <2>3. IsGroup(q.make) => GroupTask(r, p, acc)
    BY <1>1, <1>2, <2>2, GroupTaskWork DEF Task
  <2>4. q.make.kind = "peer" => PeerStands(q.make, q.page, p.todo, p.plan, acc)
    BY <1>1, <1>2, <2>2, PeerStandsWork DEF Task
  <2>5. ASSUME q.make.kind = "user"
        PROVE  UserStands(q.make, q.page, p.want, p.todo, p.plan, acc)
    <3>1. UserStands(q.make, q.page, q.want, q.todo, {}, acc)
      BY <1>2, <2>2, <2>5 DEF Task
    <3>2. q.make.id \in Users
      BY <3>1 DEF UserStands
    <3>3. acc.users[q.make.id] # Bad
      BY <3>2 DEF UsersSound
    <3>. QED
      BY <1>1, <1>2, <2>2, <2>5, <3>1, <3>3, UserStandsWork
  <2>6. RevokesKey(q.make) => KeyStands(q.make, p.todo, p.plan, acc)
    BY <1>1, <1>2, KeyStandsWork
  <2>7. Task(r, p, acc)
    BY <1>1, <2>3, <2>4, <2>5, <2>6 DEF Task
  <2>. QED
    BY <1>1, <1>4, <2>2, <2>7 DEF OnTask
<1>. QED
  BY <1>1, <1>3, <1>5 DEF Stands

LEMMA StandsMakes ==
  ASSUME NEW r, NEW q, NEW p, Stands(r, q, acc), ValidAccount(acc), NEW w \in q.plan,
         Makes(r, q, p, w)
  PROVE  Stands(r, p, acc')
<1>1. /\ q.pc = "put" /\ p.alone = q.alone /\ p.make = q.make /\ p.page = q.page
      /\ p.snap = q.snap /\ p.pc = NextPc(p) /\ p.todo = q.todo /\ p.want = q.want
      /\ p.plan = q.plan \ {w}
  BY DEF Makes, Same1, Parts
<1>2. acc' = Applied(acc, w, r)
  BY DEF Makes, Takes
<1>. DEFINE b == Applied(acc, w, r)
<1>3. p.pc \in {"turn", "put", "saved"}
  BY <1>1 DEF NextPc
<1>4. ASSUME p.alone, Judged(p.make)
      PROVE  OnTask(r, p, b)
  <2>1. OnTask(r, q, acc)
    BY <1>1, <1>4 DEF Stands
  <2>2. /\ q.snap = Snap(q.page) /\ PageOk(q.make, q.page) /\ Task(r, q, acc)
        /\ Tidy(q.todo)
    BY <2>1 DEF OnTask
  <2>3. IsGroup(q.make) => GroupTask(r, p, b)
    BY <1>1, <2>2, GroupTaskMakes DEF Task
  <2>4. q.make.kind = "peer" => PeerStands(q.make, q.page, q.todo, p.plan, b)
    BY <1>1, <2>2, PeerStandsMakes DEF Task
  <2>5. q.make.kind = "user" => UserStands(q.make, q.page, q.want, q.todo, p.plan, b)
    BY <1>1, <2>2, UserStandsMakes DEF Task
  <2>6. RevokesKey(q.make) => KeyStands(q.make, q.todo, p.plan, b)
    BY <1>1, <2>2, KeyStandsMakes DEF Task
  <2>. HIDE DEF b
  <2>7. Task(r, p, b)
    BY <1>1, <2>3, <2>4, <2>5, <2>6 DEF Task
  <2>. QED
    BY <1>1, <2>2, <2>7 DEF OnTask
<1>. HIDE DEF b
<1>5. Stands(r, p, b)
  BY <1>3, <1>4 DEF Stands
<1>. QED
  BY <1>2, <1>5 DEF b

LEMMA StandsFails ==
  ASSUME NEW r, NEW q, NEW p, NEW job, FailsAt(q, p, job), NEW a
  PROVE  Stands(r, p, a)
<1>1. CASE q.make.kind = "bulk"
  <2>1. p.pc \in {"turn", "saved"} /\ ~Judged(p.make)
    BY <1>1, KindsApart DEF FailsAt
  <2>. QED
    BY <2>1 DEF Stands
<1>2. CASE q.make.kind # "bulk"
  <2>1. p.pc \in {"partial", "refused"}
    BY <1>2 DEF FailsAt, Answer
  <2>. QED
    BY <2>1 DEF Stands
<1>. QED
  BY <1>1, <1>2

HonestInv ==
  /\ EditInv /\ AllOrdered /\ Sound
  /\ \A r \in Editors : Stands(r, edit[r], acc)

LEMMA StandsNext ==
  ASSUME HonestInv, EditNext
  PROVE  \A r \in Editors : Stands(r, edit'[r], acc')
<1>1. PICK r \in Editors : StepTo(r, edit[r], edit'[r]) /\ OthersOf(r)
  BY StepIs DEF HonestInv
<1>2. /\ ValidAccount(acc) /\ ValidEdit(r, edit[r]) /\ Stands(r, edit[r], acc) /\ UsersSound(acc)
  BY DEF HonestInv, EditInv, Sound
<1>3. Stands(r, edit'[r], acc')
  BY <1>1, <1>2, StandsOpens, StandsPreviews, StandsSubmits, StandsWorks, StandsMakes, StandsFails
     DEF StepTo
<1>4. ASSUME NEW s \in Editors \ {r}
      PROVE  Stands(s, edit'[s], acc')
  <2>1. CASE edit'[s] = edit[s] /\ acc' = acc
    BY <2>1 DEF HonestInv
  <2>2. CASE Overtaken(edit[s], edit'[s])
    BY <2>2 DEF Overtaken, Stands
  <2>. QED
    BY <1>1, <1>4, <2>1, <2>2 DEF OthersOf
<1>. QED
  BY <1>3, <1>4

LEMMA HonestNext ==
  ASSUME HonestInv, [EditNext]_editVars
  PROVE  HonestInv'
<1>1. CASE EditNext
  <2>1. EditInv' /\ AllOrdered' /\ Sound'
    BY <1>1, InvNext, OrderNext, SoundNext DEF HonestInv
  <2>2. \A r \in Editors : Stands(r, edit'[r], acc')
    BY <1>1, StandsNext
  <2>3. (\A r \in Editors : Stands(r, edit[r], acc))'
    BY <2>2
  <2>. QED
    BY <2>1, <2>3 DEF HonestInv
<1>2. CASE UNCHANGED editVars
  BY <1>2 DEF editVars, HonestInv, EditInv, AllOrdered, Sound, UsersSound
<1>. QED
  BY <1>1, <1>2

LEMMA HonestInit ==
  ASSUME EditInit
  PROVE  HonestInv
<1>1. EditInv /\ Sound
  BY InvInit, SoundInit
<1>2. \A r \in Editors : edit[r] = Idle
  BY DEF EditInit
<1>3. \A r : Stands(r, Idle, acc)
  <2>1. Idle.pc = "none"
    BY DEF Idle
  <2>. QED
    BY <2>1 DEF Stands
<1>. QED
  BY <1>1, <1>2, <1>3, OrderedIdle DEF HonestInv, AllOrdered

LEMMA StandsFulfilled ==
  ASSUME HonestInv, NEW r \in Editors, edit[r].pc = "saved", edit[r].alone
  PROVE  Fulfilled(r, edit[r].make, edit[r].page)
<1>. DEFINE q == edit[r]
<1>1. ValidAccount(acc) /\ Stands(r, q, acc)
  BY DEF HonestInv, EditInv
<1>2. CASE Judged(q.make)
  <2>1. OnTask(r, q, acc)
    BY <1>1, <1>2 DEF Stands
  <2>2. PageOk(q.make, q.page) /\ Task(r, q, acc)
    BY <2>1 DEF OnTask
  <2>3. q.plan = {} /\ Left(q.todo) = {}
    BY <2>1 DEF OnTask, NextPc, Tidy, Left
  <2>. HIDE DEF q
  <2>4. IsGroup(q.make) => Fulfilled(r, q.make, q.page)
    BY <1>1, <2>2, <2>3, GroupFulfilled DEF Task
  <2>5. q.make.kind = "peer" => Fulfilled(r, q.make, q.page)
    BY <2>2, <2>3, PeerFulfilled, PeerOpened DEF Task
  <2>6. q.make.kind = "user" => Fulfilled(r, q.make, q.page)
    BY <1>1, <2>2, <2>3, UserFulfilled DEF Task
  <2>7. RevokesKey(q.make) => Fulfilled(r, q.make, q.page)
    BY <2>2, <2>3, KeyFulfilled DEF Task
  <2>8. Fulfilled(r, q.make, q.page)
    BY <1>2, <2>4, <2>5, <2>6, <2>7 DEF Judged
  <2>. QED
    BY <2>8 DEF q
<1>3. CASE ~Judged(q.make)
  BY <1>3 DEF Fulfilled, Judged, IsGroup, RevokesKey
<1>. QED
  BY <1>2, <1>3

(* The answer of every handler says what happened: a saved edit is made as *)
(* a whole if nobody else changed anything since its page, a refused one   *)
(* wrote nothing unless the answer to a write was lost, and a group that   *)
(* was saved without all of its users was saved.                           *)
THEOREM AnswersAreHonest == EditSpec => []HonestAnswer
<1>1. EditInit => HonestInv
  BY HonestInit
<1>2. HonestInv /\ [EditNext]_editVars => HonestInv'
  BY HonestNext
<1>3. HonestInv => HonestAnswer
  <2>1. SUFFICES ASSUME HonestInv, NEW r \in Editors
                 PROVE  LET q == edit[r]
                        IN  /\ (q.pc = "saved" /\ q.alone) => Fulfilled(r, q.make, q.page)
                            /\ q.pc = "refused" => ~q.wrote \/ q.lost
                            /\ (q.pc = "partial" /\ q.make.kind \in {"group", "new group"})
                                 => q.wrote
    BY DEF HonestAnswer
  <2>2. Ordered(edit[r])
    BY <2>1 DEF HonestInv, AllOrdered
  <2>3. edit[r].pc = "saved" /\ edit[r].alone => Fulfilled(r, edit[r].make, edit[r].page)
    BY <2>1, StandsFulfilled
  <2>4. edit[r].pc = "refused" => ~edit[r].wrote \/ edit[r].lost
    BY <2>2 DEF Ordered, AnswersOK
  <2>5. edit[r].pc = "partial" /\ edit[r].make.kind \in {"group", "new group"} => edit[r].wrote
    BY <2>2 DEF Ordered, GroupFirst, IsGroup
  <2>. QED
    BY <2>3, <2>4, <2>5
<1>. QED
  BY <1>1, <1>2, <1>3, PTL DEF EditSpec

-----------------------------------------------------------------------------
(* Previews: who reaches what after a write, and as the page foretold it.  *)

LEMMA SnapIs ==
  ASSUME NEW a
  PROVE  /\ Snap(a).groups = a.groups /\ Snap(a).policies = a.policies
         /\ DOMAIN Snap(a).peers = DOMAIN a.peers /\ DOMAIN Snap(a).resources = DOMAIN a.resources
         /\ \A p \in DOMAIN a.peers : Snap(a).peers[p] = PeerOf(a, p)
         /\ \A x \in DOMAIN a.resources : Snap(a).resources[x] = ResourceOf(a, x)
  BY DEF Snap

(* The view of an account, but for the policies.                           *)
LikeGroups(t, s) ==
  t.groups = s.groups /\ t.peers = s.peers /\ t.resources = s.resources

LEMMA PolicyAfter ==
  ASSUME NEW a, ValidAccount(a), NEW i, NEW p, NEW s,
         s = WithPolicy(Snap(a), i, p) \/ s = WithoutPolicy(Snap(a), i)
  PROVE  Agreed(s) /\ LikeGroups(s, Snap(a))
<1>1. Agreed(Snap(a))
  BY SnapAgreed
<1>2. DOMAIN Snap(a) = SnapParts
  BY DEF Snap, SnapParts
<1>3. LikeGroups(s, Snap(a))
  BY <1>2 DEF WithPolicy, WithoutPolicy, SnapParts, LikeGroups
<1>. QED
  BY <1>1, <1>3 DEF LikeGroups, Agreed

LEMMA NumberedAlike ==
  ASSUME NEW p, NEW pol, NEW r, ValidPolicy(pol), AlikePolicy(p, pol)
  PROVE  AlikePolicy(p, Numbered(pol, r))
<1>1. /\ Numbered(pol, r).on = pol.on
      /\ \A y \in Numbered(pol, r).rules : \E x \in pol.rules : NumberedRule(y, x, r)
      /\ \A x \in pol.rules : \E y \in Numbered(pol, r).rules : NumberedRule(y, x, r)
  BY NumberedIs
<1>2. \A z, x, y : AlikeRule(z, x) /\ NumberedRule(y, x, r) => AlikeRule(z, y)
  BY DEF AlikeRule, NumberedRule, LikeRule
<1>. QED
  BY <1>1, <1>2 DEF AlikePolicy

LEMMA AlikeSelf ==
  ASSUME NEW p
  PROVE  AlikePolicy(p, p)
  BY DEF AlikePolicy, AlikeRule

LEMMA PolicyForetold ==
  ASSUME NEW a, ValidAccount(a), NEW w, w.type = "policies", w.body # Gone, ValidWrite(w),
         Accepts(a, w), NEW r, r # None, NEW i, NEW p, AlikePolicy(p, w.body),
         i = w.id \/ (i \notin DOMAIN a.policies /\ w.id \notin DOMAIN a.policies)
  PROVE  AccessSet(Snap(Applied(a, w, r))) = AccessSet(WithPolicy(Snap(a), i, p))
<1>. DEFINE b == Applied(a, w, r)
            s == WithPolicy(Snap(a), i, p)
            n == Numbered(w.body, r)
<1>1. b.policies = Upsert(a.policies, w.id, n) /\ Kept(b, a, {"policies"})
  BY PutPolicy DEF ValidAccount
<1>2. ValidAccount(b)
  BY AppliedValid
<1>3. AlikePolicy(p, n)
  BY NumberedAlike DEF ValidWrite, ValidBody
<1>4. Agreed(s) /\ LikeGroups(s, Snap(a))
  BY PolicyAfter
<1>5. s.policies = Upsert(a.policies, i, p)
  BY DEF WithPolicy, Snap
<1>. HIDE DEF b, s, n
<1>6. b.groups = a.groups
  BY <1>1 DEF Kept, AccountParts
<1>7. Agreed(Snap(b)) /\ Snap(b).groups = a.groups /\ Snap(b).policies = b.policies
  BY <1>2, <1>6, SnapAgreed, SnapIs
<1>8. \A g : ListedIn(Snap(b), g) = ListedIn(s, g)
  BY <1>4, <1>7, SnapIs DEF ListedIn, LikeGroups
<1>9. Grants(s) = Grants(Snap(b))
  BY <1>1, <1>3, <1>5, <1>7, SameGrants
<1>10. AccessSet(Snap(b)) = AccessSet(s)
  BY <1>4, <1>7, <1>8, <1>9, SameView
<1>. QED
  BY <1>10 DEF b, s

LEMMA SameAccess ==
  ASSUME NEW s, NEW t, Agreed(s), Agreed(t), s.policies = t.policies, s.groups = t.groups
  PROVE  AccessSet(s) = AccessSet(t)
  BY SameGroupsAccess DEF SameGroups

LEMMA PolicyGoneForetold ==
  ASSUME NEW a, ValidAccount(a), NEW w, w.type = "policies", w.body = Gone, ValidWrite(w),
         Accepts(a, w), NEW r, r # None
  PROVE  AccessSet(Snap(Applied(a, w, r))) = AccessSet(WithoutPolicy(Snap(a), w.id))
<1>. DEFINE b == Applied(a, w, r)
            s == WithoutPolicy(Snap(a), w.id)
<1>1. b.policies = Drop(a.policies, w.id) /\ Kept(b, a, {"policies"})
  BY DeletedOne DEF ValidAccount
<1>2. ValidAccount(b)
  BY AppliedValid
<1>3. Agreed(s) /\ LikeGroups(s, Snap(a))
  BY PolicyAfter
<1>4. s.policies = Drop(a.policies, w.id)
  BY DEF WithoutPolicy, Snap
<1>. HIDE DEF b, s
<1>5. b.groups = a.groups
  BY <1>1 DEF Kept, AccountParts
<1>6. AccessSet(Snap(b)) = AccessSet(s)
  BY <1>1, <1>2, <1>3, <1>4, <1>5, SnapAgreed, SnapIs, SameAccess DEF LikeGroups
<1>. QED
  BY <1>6 DEF b, s

LEMMA PeerGoneForetold ==
  ASSUME NEW a, ValidAccount(a), NEW w, w.type = "peers", w.body = Gone, ValidWrite(w),
         Accepts(a, w), NEW r, r # None
  PROVE  AccessSet(Snap(Applied(a, w, r))) = AccessSet(WithoutPeer(Snap(a), w.id))
<1>. DEFINE b == Applied(a, w, r)
            s == WithoutPeer(Snap(a), w.id)
            P == Drop(Snap(a).peers, w.id)
            G == NoPeer(a.groups, w.id)
            R == WithoutRefs(a.policies, {w.id})
<1>1. b.policies = R /\ b.groups = G
  BY DeletedPeer DEF ValidAccount
<1>2. ValidAccount(b)
  BY AppliedValid
<1>3. DOMAIN Snap(a) = SnapParts /\ Agreed(Snap(a))
  BY SnapAgreed DEF Snap, SnapParts
<1>4. s = [Snap(a) EXCEPT !.peers = P, !.groups = G, !.policies = R]
  BY SnapIs DEF WithoutPeer
<1>5. /\ DOMAIN P = DOMAIN a.peers \ {w.id}
      /\ \A p \in DOMAIN a.peers \ {w.id} : P[p] = Snap(a).peers[p]
  BY SnapIs DEF Drop, DropAll
<1>6. /\ DOMAIN G = DOMAIN a.groups
      /\ \A g \in DOMAIN a.groups :
           /\ DOMAIN G[g] = {"peers", "resources"}
           /\ G[g].peers = a.groups[g].peers \ {w.id}
           /\ G[g].resources = a.groups[g].resources \ {}
  BY ValidParts, NoPeerIs DEF LeaveOut
<1>. HIDE DEF b, P, G, R, s
<1>7. s.groups = G /\ s.peers = P /\ s.policies = R /\ s.resources = Snap(a).resources
  BY <1>3, <1>4 DEF SnapParts
<1>8. Agreed(s)
  <2>1. \A p \in DOMAIN P : /\ DOMAIN P[p] = {"user", "groups"}
                             /\ \A g \in P[p].groups : g \in DOMAIN G /\ p \in G[g].peers
    BY <1>3, <1>5, <1>6, SnapIs DEF Agreed
  <2>2. \A x \in DOMAIN Snap(a).resources : \A g \in Snap(a).resources[x].groups :
          g \in DOMAIN G /\ x \in G[g].resources
    BY <1>3, <1>6, SnapIs DEF Agreed
  <2>. QED
    BY ONLY <1>6, <1>7, <2>1, <2>2 DEF Agreed
<1>9. AccessSet(Snap(b)) = AccessSet(s)
  BY <1>1, <1>2, <1>7, <1>8, SnapAgreed, SnapIs, SameAccess
<1>. QED
  BY <1>9 DEF b, s

(* Resources that are gone, alone or with their network.                   *)
LEMMA ResourcesGoneForetold ==
  ASSUME NEW a, ValidAccount(a), NEW rids, NEW b, ValidAccount(b),
         b.groups = NoResources(a.groups, rids), b.policies = WithoutRefs(a.policies, rids),
         NEW s, NEW t, t = WithoutResources(Snap(a), rids),
         s.groups = t.groups, s.policies = t.policies, s.peers = t.peers,
         s.resources = t.resources
  PROVE  AccessSet(Snap(b)) = AccessSet(s)
<1>. DEFINE X == DropAll(Snap(a).resources, rids)
            G == NoResources(a.groups, rids)
            R == WithoutRefs(a.policies, rids)
<1>1. t = [Snap(a) EXCEPT !.resources = X, !.groups = G, !.policies = R]
  BY SnapIs DEF WithoutResources
<1>2. DOMAIN Snap(a) = SnapParts /\ Agreed(Snap(a))
  BY SnapAgreed DEF Snap, SnapParts
<1>3. /\ DOMAIN X = DOMAIN a.resources \ rids
      /\ \A x \in DOMAIN a.resources \ rids : X[x] = Snap(a).resources[x]
  BY SnapIs DEF DropAll
<1>4. LeaveOut(G, a, {}, rids)
  BY ValidParts, NoResourcesIs
<1>5. b.groups = G /\ b.policies = R
  OBVIOUS
<1>. HIDE DEF X, G, R
<1>6. s.groups = G /\ s.resources = X /\ s.policies = R /\ s.peers = Snap(a).peers
  BY <1>1, <1>2 DEF SnapParts
<1>7. Agreed(s)
  <2>1. \A p \in DOMAIN Snap(a).peers :
          /\ DOMAIN Snap(a).peers[p] = {"user", "groups"}
          /\ \A g \in Snap(a).peers[p].groups : g \in DOMAIN G /\ p \in G[g].peers
    BY <1>2, <1>4, SnapIs DEF Agreed, LeaveOut
  <2>2. \A x \in DOMAIN X : \A g \in X[x].groups : g \in DOMAIN G /\ x \in G[g].resources
    BY <1>2, <1>3, <1>4, SnapIs DEF Agreed, LeaveOut
  <2>. QED
    BY ONLY <1>4, <1>6, <2>1, <2>2 DEF Agreed, LeaveOut
<1>. QED
  BY <1>5, <1>6, <1>7, SnapAgreed, SnapIs, SameAccess

LEMMA ResourceGoneForetold ==
  ASSUME NEW a, ValidAccount(a), NEW w, w.type = "resources", w.body = Gone, ValidWrite(w),
         Accepts(a, w), NEW r, r # None
  PROVE  AccessSet(Snap(Applied(a, w, r))) = AccessSet(WithoutResources(Snap(a), {w.id}))
<1>. DEFINE b == Applied(a, w, r)
<1>1. ValidAccount(b)
  BY AppliedValid
<1>2. b = DropResources(a, {w.id})
  BY DeletedResource
<1>3. /\ DropResources(a, {w.id}).groups = NoResources(a.groups, {w.id})
      /\ DropResources(a, {w.id}).policies = WithoutRefs(a.policies, {w.id})
  BY DroppedResources DEF ValidAccount
<1>. HIDE DEF b
<1>4. AccessSet(Snap(b)) = AccessSet(WithoutResources(Snap(a), {w.id}))
  BY <1>1, <1>2, <1>3, ResourcesGoneForetold
<1>. QED
  BY <1>4 DEF b

LEMMA NetworkGoneForetold ==
  ASSUME NEW a, ValidAccount(a), NEW w, w.type = "nets", w.body = Gone, ValidWrite(w),
         Accepts(a, w), NEW r, r # None
  PROVE  AccessSet(Snap(Applied(a, w, r))) = AccessSet(WithoutNetwork(Snap(a), w.id))
<1>. DEFINE b == Applied(a, w, r)
            rids == ResourcesIn(a, w.id)
            d == DropResources(a, rids)
            t == WithoutResources(Snap(a), rids)
            s == WithoutNetwork(Snap(a), w.id)
<1>1. ValidAccount(b)
  BY AppliedValid
<1>2. Kept(b, d, {"nets"})
  BY DeletedNetwork DEF ValidAccount
<1>3. d.groups = NoResources(a.groups, rids) /\ d.policies = WithoutRefs(a.policies, rids)
  BY DroppedResources DEF ValidAccount
<1>4. ResourcesIn(Snap(a), w.id) = rids
  <2>1. \A x \in DOMAIN a.resources : ResourceOf(a, x).net = a.resources[x].net
    BY DEF ValidAccount, Shaped, ResourceOf
  <2>. QED
    BY <2>1, SnapIs DEF ResourcesIn
<1>5. DOMAIN t = SnapParts
  BY DEF WithoutResources, Snap, SnapParts
<1>6. s = [t EXCEPT !.nets = Drop(t.nets, w.id)]
  BY <1>4 DEF WithoutNetwork
<1>. HIDE DEF b, d, rids, s, t
<1>7. /\ s.groups = t.groups /\ s.policies = t.policies /\ s.peers = t.peers
      /\ s.resources = t.resources
  BY <1>5, <1>6 DEF SnapParts
<1>8. b.groups = NoResources(a.groups, rids) /\ b.policies = WithoutRefs(a.policies, rids)
  BY <1>2, <1>3 DEF Kept, AccountParts
<1>9. t = WithoutResources(Snap(a), rids)
  BY DEF t
<1>10. AccessSet(Snap(b)) = AccessSet(s)
  BY <1>1, <1>7, <1>8, <1>9, ResourcesGoneForetold
<1>. QED
  BY <1>10 DEF b, s

LEMMA ResourceAfter ==
  ASSUME NEW a, ValidAccount(a), NEW id, NEW body, body.groups \subseteq DOMAIN a.groups
  PROVE  LET s == WithResource(Snap(a), id, body)
         IN  /\ Agreed(s) /\ s.policies = a.policies
             /\ s.groups = Listed(a.groups, id, body.groups)
<1>. DEFINE s == WithResource(Snap(a), id, body)
            X == Upsert(Snap(a).resources, id, body)
            G == Listed(a.groups, id, body.groups)
<1>1. s = [Snap(a) EXCEPT !.resources = X, !.groups = G]
  BY SnapIs DEF WithResource
<1>2. DOMAIN Snap(a) = SnapParts /\ Agreed(Snap(a))
  BY SnapAgreed DEF Snap, SnapParts
<1>3. ListResource(G, a, id, body.groups)
  BY ValidParts, ListedIs
<1>4. /\ DOMAIN X = DOMAIN a.resources \cup {id} /\ X[id] = body
      /\ \A x \in DOMAIN a.resources : x # id => X[x] = Snap(a).resources[x]
  BY SnapIs DEF Upsert
<1>. HIDE DEF s, X, G
<1>5. s.resources = X /\ s.groups = G /\ s.policies = a.policies /\ s.peers = Snap(a).peers
  BY <1>1, <1>2, SnapIs DEF SnapParts
<1>6. \A p \in DOMAIN Snap(a).peers :
        /\ DOMAIN Snap(a).peers[p] = {"user", "groups"}
        /\ \A g \in Snap(a).peers[p].groups : g \in DOMAIN G /\ p \in G[g].peers
  BY <1>2, <1>3, SnapIs DEF Agreed, ListResource
<1>7. \A x \in DOMAIN X : \A g \in X[x].groups : g \in DOMAIN G /\ x \in G[g].resources
  <2>1. \A g \in body.groups : g \in DOMAIN G /\ id \in G[g].resources
    BY <1>3 DEF ListResource
  <2>2. ASSUME NEW x \in DOMAIN a.resources, x # id, NEW g \in X[x].groups
        PROVE  g \in DOMAIN G /\ x \in G[g].resources
    <3>1. g \in DOMAIN a.groups /\ x \in a.groups[g].resources
      BY <1>2, <1>4, <2>2, SnapIs DEF Agreed
    <3>. QED
      BY <1>3, <2>2, <3>1 DEF ListResource
  <2>. QED
    BY <1>4, <2>1, <2>2
<1>8. Agreed(s)
  BY ONLY <1>3, <1>5, <1>6, <1>7 DEF Agreed, ListResource
<1>. QED
  BY <1>5, <1>8 DEF s, G

LEMMA ResourceForetold ==
  ASSUME NEW a, ValidAccount(a), NEW w, w.type = "resources", w.body # Gone, ValidWrite(w),
         Accepts(a, w), NEW r, r # None
  PROVE  AccessSet(Snap(Applied(a, w, r))) = AccessSet(WithResource(Snap(a), w.id, w.body))
<1>. DEFINE b == Applied(a, w, r)
            s == WithResource(Snap(a), w.id, w.body)
<1>1. ValidAccount(b)
  BY AppliedValid
<1>2. b.groups = Listed(a.groups, w.id, w.body.groups) /\ Kept(b, a, {"resources", "groups"})
  BY PutResource DEF ValidAccount
<1>3. w.body.groups \subseteq DOMAIN a.groups
  BY DEF Accepts, RefersTo
<1>4. Agreed(s) /\ s.policies = a.policies /\ s.groups = Listed(a.groups, w.id, w.body.groups)
  BY <1>3, ResourceAfter
<1>. HIDE DEF b, s
<1>5. b.policies = a.policies
  BY <1>2 DEF Kept, AccountParts
<1>6. AccessSet(Snap(b)) = AccessSet(s)
  BY <1>1, <1>2, <1>4, <1>5, SnapAgreed, SnapIs, SameAccess
<1>. QED
  BY <1>6 DEF b, s

(* A resource that is as the form says it should be.                       *)
LEMMA ResourceAsIs ==
  ASSUME NEW a, ValidAccount(a), NEW id \in DOMAIN a.resources
  PROVE  AccessSet(Snap(a)) = AccessSet(WithResource(Snap(a), id, Snap(a).resources[id]))
<1>. DEFINE body == Snap(a).resources[id]
            s == WithResource(Snap(a), id, body)
            G == Listed(a.groups, id, body.groups)
<1>1. body.groups = {g \in DOMAIN a.groups : id \in a.groups[g].resources}
  <2>1. "groups" \in DOMAIN a.resources[id]
    BY DEF ValidAccount, Shaped
  <2>2. body = ResourceOf(a, id)
    BY SnapIs
  <2>. QED
    BY ONLY <2>1, <2>2 DEF ResourceOf
<1>2. ListResource(G, a, id, body.groups)
  BY ValidParts, ListedIs
<1>. HIDE DEF body
<1>3. Agreed(s) /\ s.policies = a.policies /\ s.groups = G
  BY <1>1, ResourceAfter
<1>. HIDE DEF s, G
<1>4. /\ DOMAIN G = DOMAIN a.groups
      /\ \A g \in DOMAIN a.groups : G[g].peers = a.groups[g].peers
      /\ \A g \in DOMAIN a.groups : G[g].resources = a.groups[g].resources
  <2>1. \A g \in DOMAIN a.groups : g \in body.groups <=> id \in a.groups[g].resources
    BY <1>1
  <2>2. /\ DOMAIN G = DOMAIN a.groups
        /\ \A g \in DOMAIN a.groups : G[g].peers = a.groups[g].peers
        /\ \A g \in DOMAIN a.groups :
             G[g].resources = IF g \in body.groups THEN a.groups[g].resources \cup {id}
                              ELSE a.groups[g].resources \ {id}
    BY ONLY <1>2 DEF ListResource
  <2>3. ASSUME NEW g \in DOMAIN a.groups
        PROVE  G[g].resources = a.groups[g].resources
    <3>1. CASE g \in body.groups
      <4>1. id \in a.groups[g].resources
        BY ONLY <2>1, <2>3, <3>1
      <4>2. G[g].resources = a.groups[g].resources \cup {id}
        BY ONLY <2>2, <2>3, <3>1
      <4>. QED
        BY ONLY <4>1, <4>2
    <3>2. CASE g \notin body.groups
      <4>1. id \notin a.groups[g].resources
        BY ONLY <2>1, <2>3, <3>2
      <4>2. G[g].resources = a.groups[g].resources \ {id}
        BY ONLY <2>2, <2>3, <3>2
      <4>. QED
        BY ONLY <4>1, <4>2
    <3>. QED
      BY ONLY <3>1, <3>2
  <2>. QED
    BY ONLY <2>2, <2>3
<1>5. SameGroups(Snap(a), s)
  BY <1>3, <1>4, SnapIs DEF SameGroups
<1>6. AccessSet(Snap(a)) = AccessSet(s)
  BY <1>3, <1>5, SnapAgreed, SameGroupsAccess
<1>. QED
  BY <1>6 DEF s, body

(* Resources that say which groups they are in.                            *)
Placed(t) == \A x \in DOMAIN t.resources : "groups" \in DOMAIN t.resources[x]

LEMMA MembershipsKeep ==
  ASSUME NEW s, NEW members, DOMAIN s = SnapParts
  PROVE  WithMemberships(s, members).resources = s.resources
BY DEF WithMemberships, SnapParts

LEMMA SnapPlaced ==
  ASSUME NEW a, ValidAccount(a)
  PROVE  Placed(Snap(a))
<1>1. \A x \in DOMAIN a.resources : "groups" \in DOMAIN a.resources[x]
  BY DEF ValidAccount, Shaped
<1>2. \A x \in DOMAIN a.resources : "groups" \in DOMAIN ResourceOf(a, x)
  BY <1>1 DEF ResourceOf
<1>. QED
  BY <1>2, SnapIs DEF Placed

LEMMA Regrouped ==
  ASSUME NEW t, IsView(t), Placed(t), NEW gid \in DOMAIN t.groups, NEW rids
  PROVE  LET s == WithGroupResources(t, gid, rids)
         IN  /\ Agreed(s) /\ s.policies = t.policies /\ DOMAIN s.groups = DOMAIN t.groups
             /\ s.groups[gid].resources = rids
             /\ \A g \in DOMAIN t.groups : /\ s.groups[g].peers = t.groups[g].peers
                                           /\ g # gid => s.groups[g] = t.groups[g]
<1>. DEFINE s == WithGroupResources(t, gid, rids)
            G == [t.groups EXCEPT ![gid].resources = rids]
            X == [r \in DOMAIN t.resources |-> [t.resources[r] EXCEPT !.groups =
                    IF r \in rids THEN t.resources[r].groups \cup {gid}
                    ELSE t.resources[r].groups \ {gid}]]
<1>1. s = [t EXCEPT !.groups = G, !.resources = X]
  BY DEF WithGroupResources, IsView, SnapParts
<1>2. /\ DOMAIN G = DOMAIN t.groups
      /\ \A g \in DOMAIN t.groups : DOMAIN G[g] = {"peers", "resources"}
      /\ \A g \in DOMAIN t.groups : G[g].peers = t.groups[g].peers
      /\ \A g \in DOMAIN t.groups : g # gid => G[g] = t.groups[g]
      /\ G[gid].resources = rids
  BY DEF IsView, Agreed
<1>3. /\ DOMAIN X = DOMAIN t.resources
      /\ \A x \in DOMAIN t.resources :
           X[x].groups = IF x \in rids THEN t.resources[x].groups \cup {gid}
                         ELSE t.resources[x].groups \ {gid}
  BY DEF Placed
<1>. HIDE DEF s, G, X
<1>4. s.groups = G /\ s.resources = X /\ s.policies = t.policies /\ s.peers = t.peers
  BY <1>1 DEF IsView, SnapParts
<1>5. \A p \in DOMAIN t.peers : /\ DOMAIN t.peers[p] = {"user", "groups"}
                                /\ \A g \in t.peers[p].groups : g \in DOMAIN G /\ p \in G[g].peers
  BY <1>2 DEF IsView, Agreed
<1>6. ASSUME NEW x \in DOMAIN X, NEW g \in X[x].groups
      PROVE  g \in DOMAIN G /\ x \in G[g].resources
  <2>1. CASE g = gid
    BY <1>2, <1>3, <1>6, <2>1
  <2>2. CASE g # gid
    <3>1. g \in t.resources[x].groups
      BY <1>3, <1>6, <2>2
    <3>2. g \in DOMAIN t.groups /\ x \in t.groups[g].resources
      BY <1>3, <3>1 DEF IsView, Agreed
    <3>. QED
      BY <1>2, <2>2, <3>2
  <2>. QED
    BY <2>1, <2>2
<1>7. \A g \in DOMAIN G : DOMAIN G[g] = {"peers", "resources"}
  BY <1>2
<1>8. Agreed(s)
  BY <1>4, <1>5, <1>6, <1>7 DEF Agreed
<1>9. /\ Agreed(s) /\ s.policies = t.policies /\ DOMAIN s.groups = DOMAIN t.groups
      /\ s.groups[gid].resources = rids
      /\ \A g \in DOMAIN t.groups : /\ s.groups[g].peers = t.groups[g].peers
                                    /\ g # gid => s.groups[g] = t.groups[g]
  BY <1>2, <1>4, <1>8
<1>. QED
  BY <1>9 DEF s

(* A snapshot with a group more, which is empty.                           *)
LEMMA EmptyGroup ==
  ASSUME NEW s, IsView(s), Placed(s), NEW id, id \notin DOMAIN s.groups, NEW t,
         t = [s EXCEPT !.groups = Upsert(@, id, [peers |-> {}, resources |-> {}])]
  PROVE  /\ IsView(t) /\ Placed(t) /\ t.policies = s.policies
         /\ DOMAIN t.groups = DOMAIN s.groups \cup {id}
         /\ \A g \in DOMAIN s.groups : t.groups[g] = s.groups[g]
<1>. DEFINE G == Upsert(s.groups, id, [peers |-> {}, resources |-> {}])
<1>1. t = [s EXCEPT !.groups = G]
  BY DEF IsView, SnapParts
<1>2. /\ DOMAIN G = DOMAIN s.groups \cup {id}
      /\ \A g \in DOMAIN s.groups : G[g] = s.groups[g]
      /\ DOMAIN G[id] = {"peers", "resources"}
  BY DEF Upsert
<1>. HIDE DEF G
<1>3. DOMAIN t = SnapParts /\ t.groups = G /\ t.policies = s.policies /\ t.peers = s.peers
      /\ t.resources = s.resources
  BY <1>1 DEF IsView, SnapParts
<1>4. \A g \in DOMAIN G : DOMAIN G[g] = {"peers", "resources"}
  BY <1>2 DEF IsView, Agreed
<1>5. Agreed(t)
  BY <1>2, <1>3, <1>4 DEF IsView, Agreed
<1>. QED
  BY <1>2, <1>3, <1>5 DEF IsView, Placed

(* The snapshot after a group of the history is put back.                  *)
LEMMA GroupRestored ==
  ASSUME NEW a, ValidAccount(a), NEW id, NEW body
  PROVE  LET s == AfterRestore(Snap(a), "groups", id, body)
         IN  /\ Agreed(s) /\ s.policies = a.policies
             /\ DOMAIN s.groups = DOMAIN a.groups \cup {id}
             /\ s.groups[id].peers = body.peers /\ s.groups[id].resources = body.resources
             /\ \A g \in DOMAIN a.groups : g # id =>
                  /\ s.groups[g].peers = a.groups[g].peers
                  /\ s.groups[g].resources = a.groups[g].resources
<1>. DEFINE empty == [peers |-> {}, resources |-> {}]
            base == IF id \in DOMAIN Snap(a).groups THEN Snap(a)
                    ELSE [Snap(a) EXCEPT !.groups = Upsert(@, id, empty)]
            t == WithGroupMembers(base, id, body.peers)
            s == WithGroupResources(t, id, body.resources)
<1>1. AfterRestore(Snap(a), "groups", id, body) = s
  BY DEF AfterRestore
<1>2. IsView(Snap(a)) /\ Placed(Snap(a)) /\ Snap(a).groups = a.groups /\ Snap(a).policies = a.policies
  BY SnapView, SnapPlaced, SnapIs
<1>3. /\ id \in DOMAIN a.groups => base = Snap(a)
      /\ id \notin DOMAIN a.groups =>
           base = [Snap(a) EXCEPT !.groups = Upsert(@, id, [peers |-> {}, resources |-> {}])]
  BY <1>2
<1>. HIDE DEF base
<1>. DEFINE members == [g \in {id} |-> body.peers]
<1>4. /\ IsView(base) /\ Placed(base) /\ base.policies = a.policies
      /\ DOMAIN base.groups = DOMAIN a.groups \cup {id}
      /\ \A g \in DOMAIN a.groups : base.groups[g] = a.groups[g]
  <2>1. CASE id \in DOMAIN a.groups
    BY <1>2, <1>3, <2>1
  <2>2. CASE id \notin DOMAIN a.groups
    BY <1>2, <1>3, <2>2, EmptyGroup
  <2>. QED
    BY <2>1, <2>2
<1>5. /\ Moved(t, base, members) /\ t.groups[id].peers = body.peers
      /\ \A g \in DOMAIN base.groups : g # id => t.groups[g].peers = base.groups[g].peers
  <2>1. IsView(base) /\ id \in DOMAIN base.groups
    BY <1>4
  <2>2. MovedOne(t, base, id, body.peers)
    BY <2>1, GroupMoved
  <2>. QED
    BY <2>2 DEF MovedOne
<1>6. t.resources = base.resources
  BY <1>4, MembershipsKeep DEF WithGroupMembers, IsView
<1>. HIDE DEF t, members
<1>7. /\ IsView(t) /\ t.policies = base.policies /\ DOMAIN t.groups = DOMAIN base.groups
      /\ \A g \in DOMAIN base.groups : t.groups[g].resources = base.groups[g].resources
  BY <1>5 DEF Moved
<1>8. Placed(t)
  BY <1>4, <1>6 DEF Placed
<1>9. /\ Agreed(s) /\ s.policies = t.policies /\ DOMAIN s.groups = DOMAIN t.groups
      /\ s.groups[id].resources = body.resources
      /\ \A g \in DOMAIN t.groups : /\ s.groups[g].peers = t.groups[g].peers
                                    /\ g # id => s.groups[g] = t.groups[g]
  <2>1. id \in DOMAIN t.groups
    BY <1>4, <1>7
  <2>. QED
    BY <1>7, <1>8, <2>1, Regrouped
<1>. HIDE DEF s
<1>10. /\ Agreed(s) /\ s.policies = a.policies
      /\ DOMAIN s.groups = DOMAIN a.groups \cup {id}
      /\ s.groups[id].peers = body.peers /\ s.groups[id].resources = body.resources
      /\ \A g \in DOMAIN a.groups : g # id =>
           s.groups[g].peers = a.groups[g].peers /\ s.groups[g].resources = a.groups[g].resources
  BY <1>4, <1>5, <1>7, <1>9
<1>. QED
  BY <1>1, <1>10

LEMMA GrantsNameGroups ==
  ASSUME NEW a, ValidAccount(a), NEW s, s.policies = a.policies, NEW grant \in Grants(s)
  PROVE  grant.src \cup grant.dst \subseteq DOMAIN a.groups
<1>1. Allows(a.policies, grant)
  BY GrantsAre
<1>2. PICK i \in DOMAIN a.policies : \E x \in a.policies[i].rules : grant \in RuleGrants(x)
  BY <1>1 DEF Allows
<1>3. PICK x \in a.policies[i].rules : grant \in RuleGrants(x)
  BY <1>2
<1>4. x.src \cup x.dst \subseteq DOMAIN a.groups
  BY DEF ValidAccount, Coherent
<1>5. grant.src \cup grant.dst = x.src \cup x.dst
  BY <1>3 DEF RuleGrants
<1>. QED
  BY <1>4, <1>5

(* A group that is made again has another id; no policy names the old one. *)
LEMMA GroupRestoreForetold ==
  ASSUME NEW a, ValidAccount(a), NEW w, w.type = "groups", w.body # Gone, ValidWrite(w),
         Accepts(a, w), NEW r, r # None, NEW id,
         id = w.id \/ (id \notin DOMAIN a.groups /\ w.id \notin DOMAIN a.groups)
  PROVE  AccessSet(Snap(Applied(a, w, r))) =
           AccessSet(AfterRestore(Snap(a), "groups", id, w.body))
<1>. DEFINE b == Applied(a, w, r)
            s == AfterRestore(Snap(a), "groups", id, w.body)
<1>1. b.groups = Upsert(a.groups, w.id, w.body) /\ Kept(b, a, {"groups"})
  BY PutGroup DEF ValidAccount
<1>2. ValidAccount(b)
  BY AppliedValid
<1>3. /\ Agreed(s) /\ s.policies = a.policies
      /\ DOMAIN s.groups = DOMAIN a.groups \cup {id}
      /\ s.groups[id].peers = w.body.peers /\ s.groups[id].resources = w.body.resources
      /\ \A g \in DOMAIN a.groups : g # id =>
           s.groups[g].peers = a.groups[g].peers /\ s.groups[g].resources = a.groups[g].resources
  BY GroupRestored
<1>. HIDE DEF b, s
<1>4. b.policies = a.policies
  BY <1>1 DEF Kept, AccountParts
<1>5. Agreed(Snap(b)) /\ Snap(b).groups = b.groups /\ Snap(b).policies = a.policies
  BY <1>2, <1>4, SnapAgreed, SnapIs
<1>6. /\ DOMAIN b.groups = DOMAIN a.groups \cup {w.id} /\ b.groups[w.id] = w.body
      /\ \A g \in DOMAIN a.groups : g # w.id => b.groups[g] = a.groups[g]
  BY <1>1 DEF Upsert
<1>7. CASE id = w.id
  <2>1. SameGroups(Snap(b), s)
    BY <1>3, <1>5, <1>6, <1>7 DEF SameGroups
  <2>. QED
    BY <1>3, <1>5, <2>1, SameGroupsAccess DEF b, s
<1>8. CASE id \notin DOMAIN a.groups /\ w.id \notin DOMAIN a.groups
  <2>1. \A g \in DOMAIN a.groups : ListedIn(Snap(b), g) = ListedIn(s, g)
    BY <1>3, <1>5, <1>6, <1>8 DEF ListedIn
  <2>2. Grants(Snap(b)) = Grants(s)
    BY <1>3, <1>5 DEF Grants
  <2>3. \A grant \in Grants(s) : grant.src \cup grant.dst \subseteq DOMAIN a.groups
    BY <1>3, GrantsNameGroups
  <2>. QED
    BY <1>3, <1>5, <2>1, <2>2, <2>3, SameView DEF b, s
<1>. QED
  BY <1>7, <1>8

(* The snapshot of which the page showed the preview.                      *)
Foretold(r, e, page) == After(r, e, page, Snap(page), page)

LEMMA ForetoldIs ==
  ASSUME NEW r, NEW e, NEW page
  PROVE  /\ e.kind = "group" => Foretold(r, e, page) = AfterGroup(e, page, Snap(page))
         /\ e.kind = "user" => Foretold(r, e, page) = AfterUser(e, page, Snap(page))
         /\ e.kind = "peer" => Foretold(r, e, page) = AfterPeer(e, page, Snap(page))
         /\ e.kind = "policy" =>
              Foretold(r, e, page) = AfterPolicy(Snap(page), e.id, PolicyFromForm(PolicyForm(e, page)))
         /\ e.kind = "new policy" => Foretold(r, e, page) = AfterPolicy(Snap(page), r, NewPolicy(e))
         /\ e.kind = "allow" => Foretold(r, e, page) = AfterPolicy(Snap(page), r, Allowed(e))
         /\ e.kind = "revoke" /\ e.id \in DOMAIN page.policies =>
              Foretold(r, e, page) = AfterRevoke(e, Snap(page), page)
         /\ e.kind = "delete" => Foretold(r, e, page) = AfterDelete(e, Snap(page))
         /\ e.kind = "resource" =>
              Foretold(r, e, page) = AfterResource(e, Snap(page), e.id, ResourceGroups(e, page))
         /\ e.kind = "new resource" =>
              Foretold(r, e, page) = AfterResource(e, Snap(page), r, e.groups)
         /\ e.kind = "restore" /\ RestoreBody(e, Snap(page)) # Bad =>
              Foretold(r, e, page) =
                AfterRestore(Snap(page), e.type, e.id, RestoreBody(e, Snap(page)))
  BY DEF Foretold, After, NewPolicy, Allowed

(* A write that makes of an account what the preview s showed.             *)
Makes1(w, a, r, s) == Accepts(a, w) => AccessSet(Snap(Applied(a, w, r))) = AccessSet(s)

LEMMA CarryOverAlike ==
  ASSUME NEW before, NEW body, ValidPolicy(body), \A b \in before.rules : b.srcRef = None
  PROVE  AlikePolicy(body, CarryOver(before, body))
<1>. DEFINE prev(x) == {b \in before.rules : b.id = x.id /\ x.id # NoId}
            auth(x) == UNION {b.auth : b \in prev(x)}
            direct(x) == {b.srcRef : b \in prev(x)} \ {None}
            new(x) == [x EXCEPT !.auth = auth(x),
                         !.src = IF direct(x) = {} THEN @ ELSE {},
                         !.srcRef = IF direct(x) = {} THEN @ ELSE CHOOSE z \in direct(x) : TRUE]
            rules == {new(x) : x \in body.rules}
<1>1. CarryOver(before, body) = [body EXCEPT !.rules = rules]
  BY DEF CarryOver
<1>2. ASSUME NEW x \in body.rules
      PROVE  AlikeRule(x, new(x))
  <2>1. DOMAIN x = RuleParts
    BY DEF ValidPolicy, ValidRule, RuleParts
  <2>2. direct(x) = {}
    OBVIOUS
  <2>. HIDE DEF direct, auth
  <2>3. new(x) = [x EXCEPT !.auth = auth(x), !.src = x.src, !.srcRef = x.srcRef]
    BY <2>1, <2>2 DEF RuleParts
  <2>. HIDE DEF new
  <2>. QED
    BY <2>1, <2>3 DEF AlikeRule, RuleParts
<1>. HIDE DEF new
<1>3. /\ \A y \in rules : \E x \in body.rules : AlikeRule(x, y)
      /\ \A x \in body.rules : \E y \in rules : AlikeRule(x, y)
  BY <1>2
<1>. HIDE DEF rules
<1>4. CarryOver(before, body).on = body.on /\ CarryOver(before, body).rules = rules
  BY <1>1 DEF ValidPolicy
<1>. QED
  BY <1>3, <1>4 DEF AlikePolicy

LEMMA PolicyTold ==
  ASSUME NEW e, NEW page, ValidAccount(page), NEW r, r # None, e.kind = "policy",
         ~DirectSource(e, page), NEW w \in PolicyWrites(e, page, page), w.body # Bad, ValidWrite(w)
  PROVE  Makes1(w, page, r, Foretold(r, e, page))
<1>. DEFINE body == PolicyFromForm(PolicyForm(e, page))
<1>1. /\ w.type = "policies" /\ w.id = e.id /\ body # Bad
      /\ w.body = CarryOver(page.policies[e.id], body)
  BY PolicyWritesAre DEF IsTo
<1>2. ValidPolicy(body)
  BY <1>1, FormPolicyValid
<1>3. Foretold(r, e, page) = WithPolicy(Snap(page), e.id, body)
  BY <1>1, ForetoldIs DEF AfterPolicy
<1>. HIDE DEF body
<1>4. \A b \in page.policies[e.id].rules : b.srcRef = None
  BY DEF DirectSource
<1>5. AlikePolicy(body, w.body)
  BY <1>1, <1>2, <1>4, CarryOverAlike
<1>6. w.body # Gone
  <2>1. ValidPolicy(w.body)
    BY <1>1, <1>2, CarryOverValid
  <2>. QED
    BY <2>1, NotGone DEF ValidPolicy
<1>. QED
  BY <1>1, <1>3, <1>5, <1>6, PolicyForetold DEF Makes1

LEMMA NewPolicyTold ==
  ASSUME NEW e, NEW page, ValidAccount(page), NEW r, r # None, FormOf(e),
         e.kind \in {"new policy", "allow"}, NEW w, w = Post(r, e), w.body # Bad, ValidWrite(w)
  PROVE  Makes1(w, page, r, Foretold(r, e, page))
<1>1. e.type = "policies"
  BY DEF FormOf
<1>2. w.type = "policies" /\ w.id = r /\ w.body = Posted(e)
  BY <1>1 DEF Post, Write
<1>3. w.body # Gone
  BY <1>2, PostedIsThere
<1>4. Foretold(r, e, page) = AfterPolicy(Snap(page), r, w.body)
  <2>1. CASE e.kind = "new policy"
    <3>1. w.body = NewPolicy(e)
      BY <1>2, <2>1 DEF Posted
    <3>2. Foretold(r, e, page) = AfterPolicy(Snap(page), r, NewPolicy(e))
      BY ONLY <2>1, ForetoldIs
    <3>. QED
      BY ONLY <3>1, <3>2
  <2>2. CASE e.kind = "allow"
    <3>1. w.body = Allowed(e)
      BY <1>2, <2>2 DEF Posted
    <3>2. Foretold(r, e, page) = AfterPolicy(Snap(page), r, Allowed(e))
      BY ONLY <2>2, ForetoldIs
    <3>. QED
      BY ONLY <3>1, <3>2
  <2>. QED
    BY <2>1, <2>2
<1>5. Foretold(r, e, page) = WithPolicy(Snap(page), r, w.body)
  BY <1>4 DEF AfterPolicy
<1>6. AlikePolicy(w.body, w.body)
  BY AlikeSelf
<1>7. Accepts(page, w) =>
        AccessSet(Snap(Applied(page, w, r))) = AccessSet(WithPolicy(Snap(page), w.id, w.body))
  <2>1. ValidAccount(page) /\ ValidWrite(w) /\ r # None /\ w.type = "policies" /\ w.body # Gone
    BY <1>2, <1>3
  <2>. QED
    BY ONLY <1>6, <2>1, PolicyForetold
<1>8. w.id = r
  BY <1>2
<1>. QED
  BY ONLY <1>5, <1>7, <1>8 DEF Makes1

LEMMA RevokeTold ==
  ASSUME NEW e, NEW page, ValidAccount(page), NEW r, r # None, e.kind = "revoke",
         e.id \in DOMAIN page.policies, NEW w \in RevokeWrites(e, page), w.body # Bad, ValidWrite(w)
  PROVE  Makes1(w, page, r, Foretold(r, e, page))
<1>1. /\ w.type = "policies" /\ w.id = e.id
      /\ w.body = Revoke(page.policies[e.id], e.rule, e.mode, e.target)
  BY RevokeWritesAre DEF IsTo
<1>2. Foretold(r, e, page) = IF w.body = Gone THEN WithoutPolicy(Snap(page), e.id)
                             ELSE WithPolicy(Snap(page), e.id, w.body)
  BY <1>1, ForetoldIs DEF AfterRevoke
<1>3. CASE w.body = Gone
  BY <1>1, <1>2, <1>3, PolicyGoneForetold DEF Makes1
<1>4. CASE w.body # Gone
  <2>1. AlikePolicy(w.body, w.body)
    BY AlikeSelf
  <2>. QED
    BY <1>1, <1>2, <1>4, <2>1, PolicyForetold DEF Makes1
<1>. QED
  BY <1>3, <1>4

LEMMA DeleteTold ==
  ASSUME NEW e, NEW page, ValidAccount(page), NEW r, r # None, FormOf(e), e.kind = "delete",
         NEW w, w = Removal(e), ValidWrite(w), Foretold(r, e, page) # None
  PROVE  Makes1(w, page, r, Foretold(r, e, page))
<1>1. e.type \in {"groups", "peers", "policies", "nets", "resources", "routers"}
  BY DEF FormOf
<1>2. w.type = e.type /\ w.id = e.id /\ w.body = Gone
  BY <1>1, RemovalIs
<1>3. Foretold(r, e, page) = AfterDelete(e, Snap(page))
  BY ForetoldIs
<1>4. CASE e.type = "peers"
  <2>1. Foretold(r, e, page) = WithoutPeer(Snap(page), e.id)
    BY <1>3, <1>4 DEF AfterDelete, PeerDeletePreview
  <2>. QED
    BY <1>2, <1>4, <2>1, PeerGoneForetold DEF Makes1
<1>5. CASE e.type = "policies"
  <2>1. Foretold(r, e, page) = WithoutPolicy(Snap(page), e.id)
    BY <1>3, <1>5 DEF AfterDelete, PolicyDeletePreview
  <2>. QED
    BY <1>2, <1>5, <2>1, PolicyGoneForetold DEF Makes1
<1>6. CASE e.type = "resources"
  <2>1. Foretold(r, e, page) = WithoutResources(Snap(page), {e.id})
    BY <1>3, <1>6 DEF AfterDelete, ResourceDeletePreview
  <2>. QED
    BY <1>2, <1>6, <2>1, ResourceGoneForetold DEF Makes1
<1>7. CASE e.type = "nets"
  <2>1. Foretold(r, e, page) = WithoutNetwork(Snap(page), e.id)
    BY <1>3, <1>7 DEF AfterDelete, NetworkDeletePreview
  <2>. QED
    BY <1>2, <1>7, <2>1, NetworkGoneForetold DEF Makes1
<1>8. CASE e.type \in {"groups", "routers"}
  <2>1. AfterDelete(e, Snap(page)) = None
    BY <1>8 DEF AfterDelete
  <2>. QED
    BY <1>3, <2>1
<1>. QED
  BY <1>1, <1>4, <1>5, <1>6, <1>7, <1>8

LEMMA ResourceTold ==
  ASSUME NEW e, NEW page, ValidAccount(page), NEW r, r # None, e.kind = "resource",
         e.id \in DOMAIN page.resources, Foretold(r, e, page) # None,
         \A w \in ResourceWrites(e, page, page) : w.body # Bad /\ ValidWrite(w)
  PROVE  /\ \A w \in ResourceWrites(e, page, page) : Makes1(w, page, r, Foretold(r, e, page))
         /\ ResourceWrites(e, page, page) = {} =>
              AccessSet(Snap(page)) = AccessSet(Foretold(r, e, page))
         /\ AtMostOne(ResourceWrites(e, page, page))
<1>. DEFINE body == ResourceBody(e.net, e.conf, ResourceGroups(e, page))
            now == Snap(page).resources[e.id]
            s == Foretold(r, e, page)
            w == Write("resources", e.id, e.net, body, FALSE)
<1>1. ResourceWrites(e, page, page) = IF body = now THEN {} ELSE {w}
  BY DEF ResourceWrites
<1>2. s = AfterResource(e, Snap(page), e.id, ResourceGroups(e, page))
  BY ForetoldIs
<1>3. body # Bad /\ s = WithResource(Snap(page), e.id, body)
  BY <1>2 DEF AfterResource
<1>4. body # Gone
  <2>1. body = [net |-> e.net, conf |-> e.conf, groups |-> ResourceGroups(e, page)]
    BY <1>3 DEF ResourceBody
  <2>2. "net" \in DOMAIN [net |-> e.net, conf |-> e.conf, groups |-> ResourceGroups(e, page)]
    OBVIOUS
  <2>. QED
    BY ONLY <2>1, <2>2, NotGone
<1>5. w.type = "resources" /\ w.id = e.id /\ w.body = body
  BY DEF Write
<1>. HIDE DEF body, now, s, w
<1>6. CASE body = now
  <2>1. AccessSet(Snap(page)) = AccessSet(s)
    BY <1>3, <1>6, ResourceAsIs DEF now
  <2>. QED
    BY <1>1, <1>6, <2>1 DEF s, AtMostOne
<1>7. CASE body # now
  <2>1. ValidWrite(w)
    BY <1>1, <1>7
  <2>2. Makes1(w, page, r, s)
    BY <1>3, <1>4, <1>5, <2>1, ResourceForetold DEF Makes1
  <2>. QED
    BY <1>1, <1>7, <2>2 DEF s, AtMostOne
<1>. QED
  BY <1>6, <1>7

LEMMA NewResourceTold ==
  ASSUME NEW e, NEW page, ValidAccount(page), NEW r, r # None, FormOf(e),
         e.kind = "new resource", NEW w, w = Post(r, e), w.body # Bad, ValidWrite(w)
  PROVE  Makes1(w, page, r, Foretold(r, e, page))
<1>1. e.type = "resources"
  BY DEF FormOf
<1>2. w.type = "resources" /\ w.id = r /\ w.body = Posted(e)
  BY <1>1 DEF Post, Write
<1>3. w.body # Gone
  BY <1>2, PostedIsThere
<1>4. w.body = ResourceBody(e.net, e.conf, e.groups)
  BY <1>2 DEF Posted, NewResource
<1>5. Foretold(r, e, page) = AfterResource(e, Snap(page), r, e.groups)
  BY ForetoldIs
<1>6. Foretold(r, e, page) = WithResource(Snap(page), r, w.body)
  BY <1>4, <1>5 DEF AfterResource
<1>. QED
  BY <1>2, <1>3, <1>6, ResourceForetold DEF Makes1

LEMMA RestoreTold ==
  ASSUME NEW e, NEW page, ValidAccount(page), NEW r, r # None, FormOf(e), e.kind = "restore",
         r \notin DOMAIN page.groups, r \notin DOMAIN page.policies,
         NEW w \in RestoreWrites(r, e, Snap(page)), w.body # Bad, ValidWrite(w)
  PROVE  Makes1(w, page, r, Foretold(r, e, page))
<1>1. /\ w.type = e.type /\ w.body = RestoreBody(e, Snap(page))
      /\ e.type \in {"groups", "policies"} /\ w.body # Gone
  BY RestoreWritesAre, RestoreShape
<1>2. LET there == IF e.type = "policies" THEN DOMAIN page.policies ELSE DOMAIN page.groups
      IN  w.id = e.id \/ (e.id \notin there /\ w.id = r)
  <2>1. Snap(page).policies = page.policies /\ Snap(page).groups = page.groups
    BY SnapIs
  <2>. QED
    BY <2>1 DEF RestoreWrites, To, Write
<1>3. Foretold(r, e, page) = AfterRestore(Snap(page), e.type, e.id, w.body)
  BY <1>1, ForetoldIs
<1>4. CASE e.type = "policies"
  <2>1. Foretold(r, e, page) = WithPolicy(Snap(page), e.id, w.body)
    BY <1>3, <1>4 DEF AfterRestore
  <2>2. AlikePolicy(w.body, w.body)
    BY AlikeSelf
  <2>3. e.id = w.id \/ (e.id \notin DOMAIN page.policies /\ w.id \notin DOMAIN page.policies)
    BY <1>2, <1>4
  <2>. QED
    BY <1>1, <1>4, <2>1, <2>2, <2>3, PolicyForetold DEF Makes1
<1>5. CASE e.type = "groups"
  <2>1. e.id = w.id \/ (e.id \notin DOMAIN page.groups /\ w.id \notin DOMAIN page.groups)
    BY <1>2, <1>5
  <2>. QED
    BY <1>1, <1>3, <1>5, <2>1, GroupRestoreForetold DEF Makes1
<1>. QED
  BY <1>1, <1>4, <1>5

-----------------------------------------------------------------------------
(* The edits of one write: it makes of the page what the preview showed.   *)

Single(e) ==
  e.kind \in {"policy", "new policy", "allow", "revoke", "delete", "resource", "new resource",
              "restore"}

LEMMA SingleJobs ==
  ASSUME NEW r, NEW e, NEW page, NEW snap, Single(e)
  PROVE  OneIn(Jobs(r, e, page, snap).now) /\ Jobs(r, e, page, snap).after = {}
<1>1. ASSUME NEW job
      PROVE  OneIn(Staged({job}, {}).now) /\ Staged({job}, {}).after = {}
  <2>1. {job} # {}
    OBVIOUS
  <2>2. Staged({job}, {}) = [now |-> {job}, after |-> {}]
    BY <2>1 DEF Staged
  <2>. QED
    BY <2>2 DEF OneIn
<1>2. CASE e.kind \in {"new policy", "allow", "new resource"}
  <2>1. Jobs(r, e, page, snap) = Staged({<<"post", r>>}, {})
    BY <1>2 DEF Jobs
  <2>. QED
    BY <1>1, <2>1
<1>3. CASE e.kind \in {"policy", "revoke", "delete", "resource", "restore"}
  <2>1. Jobs(r, e, page, snap) = Staged({<<e.kind, e.id>>}, {})
    BY <1>3 DEF Jobs
  <2>. QED
    BY <1>1, <2>1
<1>. QED
  BY <1>2, <1>3 DEF Single

(* An edit of one write that was not refused, as it reads the page again.  *)
OneWritten(plan, page, r, s) ==
  \/ plan = {} /\ AccessSet(Snap(page)) = AccessSet(s)
  \/ OneIn(plan) /\ \A w \in plan : Makes1(w, page, r, s)

LEMMA OneIsWritten ==
  ASSUME NEW plan, NEW w, plan = {w}, NEW page, NEW r, NEW s, Makes1(w, page, r, s)
  PROVE  OneWritten(plan, page, r, s)
  BY DEF OneWritten, OneIn

LEMMA SingleWritten ==
  ASSUME NEW r \in Editors, NEW q, NEW job, NEW page, ValidAccount(page), q.page = page,
         q.snap = Snap(page), q.make \in Edits, Single(q.make), JobOf(r, q.make, job),
         Reads(q.make, job, page), ~DirectSource(q.make, page),
         Foretold(r, q.make, page) # None,
         r \notin DOMAIN page.groups, r \notin DOMAIN page.policies,
         \A w \in Writes(r, q, job, page) : w.body # Bad
  PROVE  OneWritten(Writes(r, q, job, page), page, r, Foretold(r, q.make, page))
<1>. DEFINE e == q.make
            plan == Writes(r, q, job, page)
<1>1. FormOf(e) /\ r # None
  BY FormIs, EditConstants
<1>2. \A w \in plan : w.body # Bad /\ ValidWrite(w)
  BY WritesValid
<1>3. CASE e.kind \in {"new policy", "allow", "new resource"}
  <2>1. job = <<"post", r>>
    BY <1>3 DEF JobOf
  <2>2. plan = {Post(r, e)}
    BY <2>1, WritesBy
  <2>3. Makes1(Post(r, e), page, r, Foretold(r, e, page))
    BY <1>1, <1>2, <1>3, <2>2, NewPolicyTold, NewResourceTold
  <2>. QED
    BY <2>2, <2>3, OneIsWritten
<1>4. CASE e.kind = "policy"
  <2>1. job = <<"policy", e.id>>
    BY <1>4 DEF JobOf
  <2>2. plan = PolicyWrites(e, page, page)
    BY <2>1, WritesBy
  <2>3. \A w \in plan : Makes1(w, page, r, Foretold(r, e, page))
    BY <1>1, <1>2, <1>4, <2>2, PolicyTold
  <2>4. \E w : plan = {w}
    BY <2>2 DEF PolicyWrites
  <2>. QED
    BY <2>3, <2>4 DEF OneWritten, OneIn
<1>5. CASE e.kind = "revoke"
  <2>1. job = <<"revoke", e.id>>
    BY <1>5 DEF JobOf
  <2>2. plan = RevokeWrites(e, page) /\ e.id \in DOMAIN page.policies
    BY <2>1, WritesBy DEF Reads
  <2>3. \A w \in plan : Makes1(w, page, r, Foretold(r, e, page))
    BY <1>1, <1>2, <1>5, <2>2, RevokeTold
  <2>4. \E w : plan = {w}
    BY <2>2 DEF RevokeWrites
  <2>. QED
    BY <2>3, <2>4 DEF OneWritten, OneIn
<1>6. CASE e.kind = "delete"
  <2>1. job = <<"delete", e.id>>
    BY <1>6 DEF JobOf
  <2>2. plan = {Removal(e)}
    BY <2>1, WritesBy
  <2>3. Makes1(Removal(e), page, r, Foretold(r, e, page))
    BY <1>1, <1>2, <1>6, <2>2, DeleteTold
  <2>. QED
    BY <2>2, <2>3, OneIsWritten
<1>7. CASE e.kind = "resource"
  <2>1. job = <<"resource", e.id>>
    BY <1>7 DEF JobOf
  <2>2. plan = ResourceWrites(e, page, page) /\ e.id \in DOMAIN page.resources
    BY <2>1, WritesBy DEF Reads
  <2>3. /\ \A w \in plan : Makes1(w, page, r, Foretold(r, e, page))
        /\ plan = {} => AccessSet(Snap(page)) = AccessSet(Foretold(r, e, page))
    BY <1>1, <1>2, <1>7, <2>2, ResourceTold
  <2>4. plan = {} \/ \E w : plan = {w}
    BY <2>2 DEF ResourceWrites
  <2>. QED
    BY <2>3, <2>4 DEF OneWritten, OneIn
<1>8. CASE e.kind = "restore"
  <2>1. job = <<"restore", e.id>>
    BY <1>8 DEF JobOf
  <2>2. plan = RestoreWrites(r, e, Snap(page))
    BY <2>1, WritesBy
  <2>3. \A w \in plan : Makes1(w, page, r, Foretold(r, e, page))
    BY <1>1, <1>2, <1>8, <2>2, RestoreTold
  <2>4. \E w : plan = {w}
    BY <2>2 DEF RestoreWrites
  <2>. QED
    BY <2>3, <2>4 DEF OneWritten, OneIn
<1>. QED
  BY <1>3, <1>4, <1>5, <1>6, <1>7, <1>8 DEF Single

(* The invariant of such an edit, and s the snapshot that it was shown.    *)
Absent(r, a) == r \notin DOMAIN a.groups /\ r \notin DOMAIN a.policies

SingleTold(r, page, todo, plan, a, s) ==
  \/ a = page /\ Absent(r, page) /\ plan = {} /\ OneIn(todo.now) /\ todo.after = {}
  \/ /\ Left(todo) = {} /\ OneIn(plan) /\ \A w \in plan : Makes1(w, a, r, s)
  \/ Left(todo) = {} /\ plan = {} /\ AccessSet(Snap(a)) = AccessSet(s)

LEMMA RestEmpty ==
  ASSUME NEW todo, OneIn(todo.now), todo.after = {}, NEW job \in todo.now
  PROVE  Left(Rest(todo, job)) = {}
<1>1. todo.now \ {job} = {}
  BY DEF OneIn
<1>2. Rest(todo, job).now \cup Rest(todo, job).after = {} \cup {}
  BY <1>1, StagedIs DEF Rest
<1>. QED
  BY <1>2 DEF Left

LEMMA SingleToldWork ==
  ASSUME NEW r \in Editors, NEW q, NEW job \in q.todo.now, NEW a, ValidAccount(a),
         q.snap = Snap(q.page), q.make \in Edits, Single(q.make), JobOf(r, q.make, job),
         Reads(q.make, job, a), ~DirectSource(q.make, q.page),
         Foretold(r, q.make, q.page) # None, NEW s, s = Foretold(r, q.make, q.page),
         \A w \in Writes(r, q, job, a) : w.body # Bad,
         SingleTold(r, q.page, q.todo, {}, a, s)
  PROVE  SingleTold(r, q.page, Rest(q.todo, job), Writes(r, q, job, a), a, s)
<1>1. Left(q.todo) # {}
  BY DEF Left
<1>2. a = q.page /\ Absent(r, q.page) /\ OneIn(q.todo.now) /\ q.todo.after = {}
  BY <1>1 DEF SingleTold
<1>3. Left(Rest(q.todo, job)) = {}
  BY <1>2, RestEmpty
<1>4. OneWritten(Writes(r, q, job, a), a, r, s)
  BY <1>2, SingleWritten DEF Absent
<1>. QED
  BY <1>3, <1>4 DEF SingleTold, OneWritten

LEMMA SingleToldMakes ==
  ASSUME NEW r, NEW page, NEW todo, NEW plan, NEW a, NEW s, NEW w \in plan, Accepts(a, w),
         SingleTold(r, page, todo, plan, a, s)
  PROVE  SingleTold(r, page, todo, plan \ {w}, Applied(a, w, r), s)
<1>1. Left(todo) = {} /\ OneIn(plan) /\ Makes1(w, a, r, s)
  BY DEF SingleTold
<1>2. plan \ {w} = {}
  BY <1>1 DEF OneIn
<1>. QED
  BY <1>1, <1>2 DEF SingleTold, Makes1

-----------------------------------------------------------------------------
(* The edits of several writes change who is in which group, and nothing   *)
(* else that the preview shows.                                            *)

(* The snapshot of the page, with these peers in the groups.               *)
Holding(s, page, members) ==
  /\ Agreed(s) /\ s.policies = page.policies /\ DOMAIN s.groups = DOMAIN page.groups
  /\ \A g \in DOMAIN page.groups :
       s.groups[g].resources = page.groups[g].resources /\ s.groups[g].peers = members[g]

Frame(page, a) ==
  /\ a.policies = page.policies /\ DOMAIN a.groups = DOMAIN page.groups
  /\ \A g \in DOMAIN page.groups : a.groups[g].resources = page.groups[g].resources

Fills(page, a, members) == \A g \in DOMAIN page.groups : a.groups[g].peers = members[g]

LEMMA FrameAccess ==
  ASSUME NEW page, NEW a, ValidAccount(a), NEW s, NEW members, Holding(s, page, members),
         Frame(page, a), Fills(page, a, members)
  PROVE  AccessSet(Snap(a)) = AccessSet(s)
<1>1. Agreed(Snap(a)) /\ Snap(a).groups = a.groups /\ Snap(a).policies = a.policies
  BY SnapAgreed, SnapIs
<1>2. SameGroups(Snap(a), s) /\ Agreed(s)
  BY <1>1 DEF SameGroups, Holding, Frame, Fills
<1>. QED
  BY <1>1, <1>2, SameGroupsAccess

(* A group is written with the peers it is to have and its own resources.  *)
GroupTold(w, page, members) ==
  /\ w.type = "groups" /\ w.body # Gone /\ w.id \in DOMAIN page.groups
  /\ w.body.peers = members[w.id] /\ w.body.resources = page.groups[w.id].resources

LEMMA FramePutGroup ==
  ASSUME NEW page, NEW a, ValidAccount(a), Frame(page, a), NEW members, NEW r,
         NEW w, GroupTold(w, page, members)
  PROVE  /\ Frame(page, Applied(a, w, r))
         /\ Applied(a, w, r).groups[w.id].peers = members[w.id]
         /\ \A g \in DOMAIN page.groups : g # w.id =>
              Applied(a, w, r).groups[g] = a.groups[g]
         /\ Applied(a, w, r).users = a.users /\ Applied(a, w, r).peers = a.peers
<1>. DEFINE b == Applied(a, w, r)
<1>1. b.groups = Upsert(a.groups, w.id, w.body) /\ Kept(b, a, {"groups"})
  BY PutGroup DEF GroupTold, ValidAccount
<1>. HIDE DEF b
<1>2. b.users = a.users /\ b.peers = a.peers /\ b.policies = a.policies
  BY <1>1 DEF Kept, AccountParts
<1>3. /\ DOMAIN b.groups = DOMAIN page.groups /\ b.groups[w.id] = w.body
      /\ \A g \in DOMAIN page.groups : g # w.id => b.groups[g] = a.groups[g]
  BY <1>1 DEF Upsert, Frame, GroupTold
<1>4. \A g \in DOMAIN page.groups : b.groups[g].resources = page.groups[g].resources
  BY <1>3 DEF GroupTold, Frame
<1>5. Frame(page, b)
  BY <1>2, <1>3, <1>4 DEF Frame
<1>. QED
  BY <1>2, <1>3, <1>5 DEF b, GroupTold

LEMMA FramePutPeer ==
  ASSUME NEW page, NEW a, ValidAccount(a), Frame(page, a), NEW r, NEW w, w.type = "peers",
         w.body # Gone
  PROVE  Frame(page, Applied(a, w, r)) /\ Applied(a, w, r).groups = a.groups
<1>. DEFINE b == Applied(a, w, r)
<1>1. Kept(b, a, {"peers"})
  BY PutPeer DEF ValidAccount
<1>. HIDE DEF b
<1>2. b.groups = a.groups /\ b.policies = a.policies
  BY <1>1 DEF Kept, AccountParts
<1>. QED
  BY <1>2 DEF Frame, b

(* A snapshot after memberships were edited.                               *)
LEMMA MovedHolding ==
  ASSUME NEW page, ValidAccount(page), NEW s, NEW moved, Moved(s, Snap(page), moved), NEW members,
         \A g \in DOMAIN page.groups :
           members[g] = IF g \in DOMAIN moved THEN moved[g] ELSE page.groups[g].peers
  PROVE  Holding(s, page, members)
<1>1. Snap(page).groups = page.groups /\ Snap(page).policies = page.policies
  BY SnapIs
<1>. QED
  BY <1>1 DEF Moved, Holding, IsView

-----------------------------------------------------------------------------
(* A peer and its groups.                                                  *)

PeerTarget(e, page) ==
  [g \in DOMAIN page.groups |->
     IF g \notin Toggled(e, page) THEN page.groups[g].peers
     ELSE IF g \in PeerPage(page, e.id) THEN page.groups[g].peers \ {e.id}
     ELSE page.groups[g].peers \cup {e.id}]

LEMMA PeerForetold ==
  ASSUME NEW r, NEW e, NEW page, ValidAccount(page), e.kind = "peer", e.id \in DOMAIN page.peers
  PROVE  Holding(Foretold(r, e, page), page, PeerTarget(e, page))
<1>. DEFINE snap == Snap(page)
            now == snap.peers[e.id].groups
            new == Chosen(e, PeerPage(page, e.id), now, snap)
            moved == [g \in Flip(now, new) \cap DOMAIN snap.groups |->
                        IF g \in new THEN snap.groups[g].peers \cup {e.id}
                        ELSE snap.groups[g].peers \ {e.id}]
            s == Foretold(r, e, page)
<1>1. s = AfterPeer(e, page, snap)
  BY ForetoldIs
<1>2. s = WithMemberships(snap, moved)
  BY <1>1 DEF AfterPeer, WithPeerGroups
<1>3. snap.groups = page.groups
  BY SnapIs
<1>4. \A g : /\ g \in new <=> IF g \in Toggled(e, page) THEN g \notin PeerPage(page, e.id)
                              ELSE g \in PeerPage(page, e.id)
             /\ g \in Flip(now, new) <=> g \in Toggled(e, page)
  BY PeerChosen
<1>. HIDE DEF now, new, s, snap
<1>5. DOMAIN moved = Flip(now, new) \cap DOMAIN page.groups
      /\ \A g \in DOMAIN moved : moved[g] = IF g \in new THEN page.groups[g].peers \cup {e.id}
                                            ELSE page.groups[g].peers \ {e.id}
  BY <1>3
<1>. HIDE DEF moved
<1>6. IsView(snap) /\ DOMAIN moved \subseteq DOMAIN snap.groups
  BY <1>3, <1>5, SnapView DEF snap
<1>7. Moved(s, snap, moved)
  BY <1>2, <1>6, MembershipsMoved
<1>8. \A g \in DOMAIN page.groups :
        PeerTarget(e, page)[g] = IF g \in DOMAIN moved THEN moved[g] ELSE page.groups[g].peers
  BY <1>4, <1>5 DEF PeerTarget
<1>9. Holding(s, page, PeerTarget(e, page))
  BY <1>7, <1>8, MovedHolding DEF snap
<1>. QED
  BY <1>9 DEF s

PeerTold(e, page, plan, a) ==
  /\ Frame(page, a)
  /\ \A g \in DOMAIN page.groups :
       a.groups[g].peers \in {page.groups[g].peers, PeerTarget(e, page)[g]}
  /\ \A w \in plan : \/ w.type = "peers" /\ w.body # Gone
                     \/ GroupTold(w, page, PeerTarget(e, page))

LEMMA PeerToldSubmit ==
  ASSUME NEW e, NEW page
  PROVE  PeerTold(e, page, {}, page)
  BY DEF PeerTold, Frame

LEMMA PeerToldWork ==
  ASSUME NEW r, NEW q, NEW a, NEW job, q.make.kind = "peer", PageOk(q.make, q.page),
         q.snap = Snap(q.page), ValidAccount(a), PeerStands(q.make, q.page, q.todo, {}, a),
         JobOf(r, q.make, job), job \in q.todo.now, PeerTold(q.make, q.page, {}, a)
  PROVE  PeerTold(q.make, q.page, Writes(r, q, job, a), a)
<1>. DEFINE e == q.make
            page == q.page
            plan == Writes(r, q, job, a)
<1>1. e.id \in DOMAIN page.peers
  BY PeerOpened
<1>2. e.id \in DOMAIN a.peers
  BY DEF PeerStands
<1>3. CASE job = <<"settings", e.id>>
  <2>1. job[1] = "settings"
    BY <1>3
  <2>2. plan = SettingsWrites(e, a)
    BY <2>1, WritesBy
  <2>3. \A w \in plan : w.type = "peers" /\ w.body # Gone
    BY <1>2, <2>2, SettingsAreGiven DEF SettingsGiven
  <2>. QED
    BY <2>3 DEF PeerTold
<1>4. CASE \E g \in e.groups : job = <<"member", g>>
  <2>1. PICK g \in e.groups : job = <<"member", g>>
    BY <1>4
  <2>2. job[1] = "member" /\ job[2] = g
    BY <2>1
  <2>3. plan = MemberWrites(e, page, Snap(page), g, a)
    BY <2>2, WritesBy
  <2>4. g \in Toggled(e, page) /\ g \in DOMAIN page.groups
    BY <2>1, ToggledThere DEF PeerStands, Left
  <2>. DEFINE new == Chosen(e, PeerPage(page, e.id), Snap(page).peers[e.id].groups, Snap(page))
  <2>5. g \in new <=> g \notin PeerPage(page, e.id)
    BY <1>1, <2>4, PeerChosen
  <2>. HIDE DEF new
  <2>6. ASSUME NEW w \in plan
        PROVE  GroupTold(w, page, PeerTarget(e, page))
    <3>1. MemberWrite(w, a, g, e.id, new)
      BY <2>3, <2>6, MemberWritesAre DEF new
    <3>2. w.type = "groups" /\ w.id = g
      BY <3>1 DEF MemberWrite, IsTo
    <3>3. w.body = [peers |-> IF g \in new THEN a.groups[g].peers \cup {e.id}
                              ELSE a.groups[g].peers \ {e.id},
                    resources |-> a.groups[g].resources]
      BY ONLY <3>1 DEF MemberWrite
    <3>4. "peers" \in DOMAIN w.body
      BY <3>3
    <3>5. w.body # Gone
      BY <3>4, NotGone
    <3>6. w.body.peers = PeerTarget(e, page)[g]
      <4>1. w.body.peers = IF g \in new THEN a.groups[g].peers \cup {e.id}
                           ELSE a.groups[g].peers \ {e.id}
        BY <3>3
      <4>2. PeerTarget(e, page)[g] = IF g \in PeerPage(page, e.id) THEN page.groups[g].peers \ {e.id}
                                     ELSE page.groups[g].peers \cup {e.id}
        BY <2>4 DEF PeerTarget
      <4>3. a.groups[g].peers = page.groups[g].peers \/ a.groups[g].peers = PeerTarget(e, page)[g]
        BY <2>4 DEF PeerTold
      <4>. QED
        BY ONLY <2>5, <4>1, <4>2, <4>3
    <3>7. w.body.resources = page.groups[g].resources
      BY <2>4, <3>3 DEF PeerTold, Frame
    <3>. QED
      BY <2>4, <3>2, <3>5, <3>6, <3>7 DEF GroupTold
  <2>. QED
    BY <2>6 DEF PeerTold
<1>. QED
  BY <1>3, <1>4 DEF JobOf

LEMMA PeerToldMakes ==
  ASSUME NEW r, NEW e, NEW page, NEW plan, NEW a, ValidAccount(a), PeerTold(e, page, plan, a),
         NEW w \in plan
  PROVE  PeerTold(e, page, plan \ {w}, Applied(a, w, r))
<1>. DEFINE b == Applied(a, w, r)
<1>1. CASE w.type = "peers" /\ w.body # Gone
  <2>1. Frame(page, b) /\ b.groups = a.groups
    BY <1>1, FramePutPeer DEF PeerTold
  <2>. HIDE DEF b
  <2>2. PeerTold(e, page, plan \ {w}, b)
    BY <2>1 DEF PeerTold
  <2>. QED
    BY <2>2 DEF b
<1>2. CASE GroupTold(w, page, PeerTarget(e, page))
  <2>1. /\ Frame(page, b) /\ b.groups[w.id].peers = PeerTarget(e, page)[w.id]
        /\ \A g \in DOMAIN page.groups : g # w.id => b.groups[g] = a.groups[g]
    BY <1>2, FramePutGroup DEF PeerTold
  <2>. HIDE DEF b
  <2>2. PeerTold(e, page, plan \ {w}, b)
    BY <2>1 DEF PeerTold
  <2>. QED
    BY <2>2 DEF b
<1>. QED
  BY <1>1, <1>2 DEF PeerTold

LEMMA PeerToldDone ==
  ASSUME NEW r, NEW e, NEW page, NEW a, ValidAccount(a), PageOk(e, page), e.kind = "peer",
         PeerTold(e, page, {}, a), NEW todo, Left(todo) = {}, PeerStands(e, page, todo, {}, a)
  PROVE  AccessSet(Snap(a)) = AccessSet(Foretold(r, e, page))
<1>1. e.id \in DOMAIN page.peers /\ ValidAccount(page)
  BY PeerOpened DEF PageOk
<1>2. Holding(Foretold(r, e, page), page, PeerTarget(e, page))
  BY <1>1, PeerForetold
<1>3. \A g \in Toggled(e, page) : e.id \in a.groups[g].peers <=> g \notin PeerPage(page, e.id)
  BY DEF PeerStands, HasLeft
<1>4. ASSUME NEW g \in DOMAIN page.groups
      PROVE  a.groups[g].peers = PeerTarget(e, page)[g]
  <2>1. CASE a.groups[g].peers = page.groups[g].peers
    <3>1. g \in PeerPage(page, e.id) <=> e.id \in page.groups[g].peers
      BY DEF PeerPage
    <3>2. g \notin Toggled(e, page)
      BY <1>3, <2>1, <3>1
    <3>. QED
      BY <2>1, <3>2 DEF PeerTarget
  <2>. QED
    BY <2>1 DEF PeerTold
<1>. QED
  BY <1>2, <1>4, FrameAccess DEF PeerTold, Fills

-----------------------------------------------------------------------------
(* A user, whose devices follow its groups, and then the groups in which   *)
(* its devices have drifted.                                               *)

UserMoves(e, page) ==
  [g \in DOMAIN page.groups |->
     IF ~Propagates \/ (g \in WantOf(e, page) <=> g \in page.users[e.id].auto)
     THEN page.groups[g].peers
     ELSE IF g \in WantOf(e, page) THEN page.groups[g].peers \cup OwnPeers(page, e.id)
     ELSE page.groups[g].peers \ OwnPeers(page, e.id)]

UserTarget(e, page) ==
  [g \in DOMAIN page.groups |->
     IF g \in ManagedGroups(Snap(page))
     THEN (UserMoves(e, page)[g] \ Drifting(e, page))
          \cup (IF g \in WantOf(e, page) THEN Drifting(e, page) ELSE {})
     ELSE UserMoves(e, page)[g]]

LEMMA DevicesAre ==
  ASSUME NEW page, NEW u
  PROVE  DevicesOf(Snap(page), {u}) = OwnPeers(page, u)
<1>1. DOMAIN Snap(page).peers = DOMAIN page.peers
      /\ \A p \in DOMAIN page.peers : Snap(page).peers[p].user = page.peers[p].user
  BY DEF Snap, PeerOf
<1>. QED
  BY <1>1 DEF DevicesOf, OwnPeers

(* The groups of a user in a snapshot, and its devices in those that are   *)
(* given.                                                                  *)
LEMMA UserGroupsMoved ==
  ASSUME NEW page, ValidAccount(page), NEW u \in Users, NEW want,
         NEW t, t = WithUserGroups(Snap(page), u, want)
  PROVE  /\ IsView(t) /\ t.policies = page.policies /\ DOMAIN t.groups = DOMAIN page.groups
         /\ \A g \in DOMAIN page.groups :
              /\ t.groups[g].resources = page.groups[g].resources
              /\ t.groups[g].peers =
                   IF ~Propagates \/ (g \in want <=> g \in page.users[u].auto)
                   THEN page.groups[g].peers
                   ELSE IF g \in want THEN page.groups[g].peers \cup OwnPeers(page, u)
                   ELSE page.groups[g].peers \ OwnPeers(page, u)
<1>. DEFINE snap == Snap(page)
            own == DevicesOf(snap, {u})
            changed == Flip(snap.users[u], want) \cap DOMAIN snap.groups
            moved == [g \in changed |-> IF g \in want THEN snap.groups[g].peers \cup own
                                        ELSE snap.groups[g].peers \ own]
            assigned == [snap EXCEPT !.users[u] = want]
<1>1. t = IF Propagates THEN WithMemberships(assigned, moved) ELSE assigned
  BY DEF WithUserGroups
<1>2. snap.groups = page.groups /\ snap.policies = page.policies
  BY SnapIs
<1>3. snap.users[u] = page.users[u].auto
  BY DEF Snap, ValidAccount, Coherent
<1>4. own = OwnPeers(page, u)
  BY DevicesAre
<1>5. IsView(snap)
  BY SnapView
<1>. HIDE DEF own, snap
<1>6. LikeView(assigned, snap)
  BY <1>5 DEF LikeView, IsView, SnapParts
<1>. HIDE DEF assigned
<1>7. /\ DOMAIN moved = changed
      /\ \A g \in changed : moved[g] = IF g \in want THEN page.groups[g].peers \cup own
                                       ELSE page.groups[g].peers \ own
  BY <1>2
<1>8. \A g : g \in changed <=> g \in DOMAIN page.groups /\ ~(g \in want <=> g \in page.users[u].auto)
  BY <1>2, <1>3 DEF Flip
<1>. HIDE DEF moved, changed
<1>9. CASE Propagates
  <2>1. t = WithMemberships(assigned, moved)
    BY <1>1, <1>9
  <2>2. IsView(assigned) /\ DOMAIN moved \subseteq DOMAIN assigned.groups
    BY <1>2, <1>5, <1>6, <1>7, <1>8, LikeIsView DEF LikeView
  <2>3. Moved(t, snap, moved)
    BY <1>6, <2>1, <2>2, MembershipsMoved, MovedLike
  <2>. QED
    BY <1>2, <1>4, <1>7, <1>8, <1>9, <2>3 DEF Moved
<1>10. CASE ~Propagates
  <2>1. Moved(t, snap, <<>>)
    BY <1>1, <1>5, <1>6, <1>10, MovedNot
  <2>2. DOMAIN << >> = {}
    OBVIOUS
  <2>. QED
    BY <1>2, <1>10, <2>1, <2>2 DEF Moved
<1>. QED
  BY <1>9, <1>10

LEMMA AlignmentIs ==
  ASSUME NEW members, NEW managed, NEW pids, NEW want, NEW al,
         al = Alignment(members, managed, pids, want), managed \subseteq DOMAIN members
  PROVE  /\ DOMAIN al \subseteq managed
         /\ \A g \in managed :
              (IF g \in DOMAIN al THEN al[g] ELSE members[g])
                = (members[g] \ pids) \cup (IF g \in want THEN pids ELSE {})
  BY DEF Alignment

LEMMA UserForetold ==
  ASSUME NEW r, NEW e, NEW page, ValidAccount(page), e.kind = "user", e.id \in Users
  PROVE  Holding(Foretold(r, e, page), page, UserTarget(e, page))
<1>. DEFINE snap == Snap(page)
            want == WantOf(e, page)
            own == Drifting(e, page)
            managed == ManagedGroups(snap)
            t == WithUserGroups(snap, e.id, want)
            members == [g \in DOMAIN t.groups |-> t.groups[g].peers]
            al == Alignment(members, managed, own, want)
            s == Foretold(r, e, page)
<1>1. s = AfterUser(e, page, snap)
  BY ForetoldIs
<1>2. snap.users[e.id] = page.users[e.id].auto
  BY DEF Snap, ValidAccount, Coherent
<1>3. Chosen(e, page.users[e.id].auto, snap.users[e.id], snap) = want
  BY <1>2 DEF WantOf
<1>4. s = WithMemberships(t, al)
  BY <1>1, <1>3 DEF AfterUser, Drifting
<1>5. managed \subseteq DOMAIN page.groups
  BY DEF ManagedGroups, EditableGroups, Snap
<1>. HIDE DEF want, own, managed, s
<1>6. /\ IsView(t) /\ t.policies = page.policies /\ DOMAIN t.groups = DOMAIN page.groups
      /\ \A g \in DOMAIN page.groups :
           /\ t.groups[g].resources = page.groups[g].resources
           /\ t.groups[g].peers = UserMoves(e, page)[g]
  <2>1. /\ IsView(t) /\ t.policies = page.policies /\ DOMAIN t.groups = DOMAIN page.groups
        /\ \A g \in DOMAIN page.groups :
             /\ t.groups[g].resources = page.groups[g].resources
             /\ t.groups[g].peers =
                  IF ~Propagates \/ (g \in want <=> g \in page.users[e.id].auto)
                  THEN page.groups[g].peers
                  ELSE IF g \in want THEN page.groups[g].peers \cup OwnPeers(page, e.id)
                  ELSE page.groups[g].peers \ OwnPeers(page, e.id)
    BY UserGroupsMoved
  <2>. HIDE DEF t
  <2>2. \A g \in DOMAIN page.groups : t.groups[g].peers = UserMoves(e, page)[g]
    BY <2>1 DEF UserMoves, want
  <2>. QED
    BY <2>1, <2>2
<1>. HIDE DEF t
<1>7. DOMAIN members = DOMAIN page.groups
      /\ \A g \in DOMAIN page.groups : members[g] = UserMoves(e, page)[g]
  BY <1>6
<1>. HIDE DEF members
<1>8. /\ DOMAIN al \subseteq managed
      /\ \A g \in managed : (IF g \in DOMAIN al THEN al[g] ELSE members[g])
                              = (members[g] \ own) \cup (IF g \in want THEN own ELSE {})
  BY <1>5, <1>7, AlignmentIs
<1>. HIDE DEF al, snap
<1>9. Moved(s, t, al)
  BY <1>4, <1>5, <1>6, <1>8, MembershipsMoved
<1>10. ASSUME NEW g \in DOMAIN page.groups
       PROVE  s.groups[g].peers = UserTarget(e, page)[g]
  <2>1. s.groups[g].peers = IF g \in DOMAIN al THEN al[g] ELSE members[g]
    BY <1>6, <1>7, <1>9 DEF Moved
  <2>2. UserTarget(e, page)[g] =
          IF g \in managed THEN (members[g] \ own) \cup (IF g \in want THEN own ELSE {})
          ELSE members[g]
    BY <1>7 DEF UserTarget, managed, own, want, snap
  <2>3. CASE g \in managed
    BY <1>8, <2>1, <2>2, <2>3
  <2>4. CASE g \notin managed
    BY <1>8, <2>1, <2>2, <2>4
  <2>. QED
    BY <2>3, <2>4
<1>11. /\ Agreed(s) /\ s.policies = page.policies /\ DOMAIN s.groups = DOMAIN page.groups
       /\ \A g \in DOMAIN page.groups : s.groups[g].resources = page.groups[g].resources
  BY <1>6, <1>9 DEF Moved, IsView
<1>12. Holding(s, page, UserTarget(e, page))
  BY <1>10, <1>11 DEF Holding
<1>. QED
  BY <1>12 DEF s

(* Nothing is written yet, only the user is to be written, or the groups   *)
(* are.                                                                    *)
AsShown(e, page, a) ==
  /\ \A g \in DOMAIN page.groups : a.groups[g].peers = page.groups[g].peers
  /\ a.users[e.id].auto = page.users[e.id].auto

UserFirst(e, page, todo, plan, a) ==
  /\ AsShown(e, page, a)
  /\ \/ plan = {} /\ <<"user", e.id>> \in Left(todo)
     \/ OneIn(plan) /\ \A w \in plan : SelfGiven(e, page, w)

UserSecond(e, page, todo, plan, a) ==
  /\ <<"user", e.id>> \notin Left(todo)
  /\ \A g \in DOMAIN page.groups :
       a.groups[g].peers \in {UserMoves(e, page)[g], UserTarget(e, page)[g]}
  /\ \A w \in plan : GroupTold(w, page, UserTarget(e, page))

UserTold(e, page, todo, plan, a) ==
  /\ Frame(page, a) /\ OwnPeers(a, e.id) = OwnPeers(page, e.id)
  /\ UserFirst(e, page, todo, plan, a) \/ UserSecond(e, page, todo, plan, a)

LEMMA UserToldSubmit ==
  ASSUME NEW r, NEW e, NEW page, e.kind = "user", NEW todo, todo = Jobs(r, e, page, Snap(page))
  PROVE  UserTold(e, page, todo, {}, page)
<1>. DEFINE second == IF Drifting(e, page) # {} THEN {<<"align", e.id>>} ELSE {}
<1>1. todo = Staged({<<"user", e.id>>}, second)
  BY DEF Jobs, UserJobs, Drifting
<1>2. {<<"user", e.id>>} # {}
  OBVIOUS
<1>. HIDE DEF second
<1>3. <<"user", e.id>> \in Left(todo)
  BY <1>1, <1>2, StagedLeft
<1>. QED
  BY <1>3 DEF UserTold, UserFirst, AsShown, Frame

LEMMA UserMovesNot ==
  ASSUME NEW e, NEW page, NEW a, AsShown(e, page, a), UserIs(e, page, a)
  PROVE  \A g \in DOMAIN page.groups : a.groups[g].peers = UserMoves(e, page)[g]
  BY DEF AsShown, UserIs, UserMoves

LEMMA UserToldWork ==
  ASSUME NEW r, NEW q, NEW a, NEW job, q.make.kind = "user", PageOk(q.make, q.page),
         q.snap = Snap(q.page), UserStands(q.make, q.page, q.want, q.todo, {}, a),
         JobOf(r, q.make, job), job \in q.todo.now, a.users[q.make.id] # Bad,
         \A w \in Writes(r, q, job, a) : w.body # Bad,
         UserTold(q.make, q.page, q.todo, {}, a)
  PROVE  UserTold(q.make, q.page, Rest(q.todo, job), Writes(r, q, job, a), a)
<1>. DEFINE e == q.make
            page == q.page
            plan == Writes(r, q, job, a)
            rest == Rest(q.todo, job)
<1>1. rest.now \cup rest.after = (q.todo.now \ {job}) \cup q.todo.after
  BY StagedIs DEF Rest
<1>2. Left(rest) = (q.todo.now \ {job}) \cup q.todo.after
  BY <1>1 DEF Left
<1>3. CASE job = <<"user", e.id>>
  <2>1. job[1] = "user"
    BY <1>3
  <2>2. plan = UserWrites(e, page, Snap(page), a)
    BY <2>1, WritesBy
  <2>3. UserPending(e, page, q.todo, a)
    BY <1>3 DEF UserStands, Left
  <2>4. AsShown(e, page, a)
    BY <1>3 DEF UserTold, UserFirst, UserSecond, Left
  <2>5. (\A w \in plan : SelfGiven(e, page, w)) /\ (plan = {} => UserIs(e, page, a))
    BY <2>2, <2>3, SelfDone DEF UserPending
  <2>6. plan = {} \/ OneIn(plan)
    BY <2>2 DEF UserWrites, OneIn
  <2>. HIDE DEF plan, rest
  <2>7. <<"user", e.id>> \notin Left(rest)
    BY <1>2, <1>3, <2>3 DEF UserPending
  <2>8. CASE plan = {}
    <3>1. UserSecond(e, page, rest, plan, a)
      BY <2>4, <2>5, <2>7, <2>8, UserMovesNot DEF UserSecond
    <3>2. UserTold(e, page, rest, plan, a)
      BY <3>1 DEF UserTold
    <3>. QED
      BY <3>2 DEF plan, rest
  <2>9. CASE OneIn(plan)
    <3>1. UserTold(e, page, rest, plan, a)
      BY <2>4, <2>5, <2>9 DEF UserTold, UserFirst
    <3>. QED
      BY <3>1 DEF plan, rest
  <2>. QED
    BY <2>6, <2>8, <2>9
<1>4. CASE job = <<"align", e.id>>
  <2>1. job[1] = "align" /\ job # <<"user", e.id>>
    BY <1>4
  <2>2. ~UserPending(e, page, q.todo, a)
    BY <2>1 DEF UserPending
  <2>3. q.want = WantOf(e, page) /\ <<"user", e.id>> \notin Left(q.todo)
    BY <2>2 DEF UserStands, UserWritten, GroupsWritten
  <2>4. plan = AlignWrites(e, Snap(page), q.want, a)
    BY <2>1, WritesBy
  <2>5. UserSecond(e, page, q.todo, {}, a)
    BY <2>3 DEF UserTold, UserFirst, OneIn
  <2>6. <<"user", e.id>> \notin Left(rest)
    BY <1>2, <2>3 DEF Left
  <2>7. ASSUME NEW w \in plan
        PROVE  GroupTold(w, page, UserTarget(e, page))
    <3>. DEFINE own == Drifting(e, page)
                want == WantOf(e, page)
                managed == ManagedGroups(Snap(page))
    <3>1. AlignWrite(w, a, own, managed, want)
      BY <2>3, <2>4, <2>7, AlignWritesAre DEF Drifting
    <3>. HIDE DEF plan, rest, own, want, managed
    <3>2. w.type = "groups" /\ w.id \in managed
      BY <3>1 DEF AlignWrite, IsTo
    <3>3. w.id \in DOMAIN page.groups
      BY <3>2 DEF managed, ManagedGroups, EditableGroups, Snap
    <3>4. w.body = [peers |-> w.body.peers, resources |-> a.groups[w.id].resources]
      BY <3>1 DEF AlignWrite
    <3>5. "peers" \in DOMAIN w.body /\ w.body.resources = a.groups[w.id].resources
      BY ONLY <3>4
    <3>6. w.body # Gone
      BY <3>5, NotGone
    <3>7. w.body.resources = page.groups[w.id].resources
      BY <3>3, <3>5 DEF UserTold, Frame
    <3>8. w.body.peers = (a.groups[w.id].peers \ own) \cup (IF w.id \in want THEN own ELSE {})
      BY <3>1 DEF AlignWrite
    <3>9. UserTarget(e, page)[w.id] =
            (UserMoves(e, page)[w.id] \ own) \cup (IF w.id \in want THEN own ELSE {})
      BY <3>2, <3>3 DEF UserTarget, own, want, managed
    <3>10. \/ a.groups[w.id].peers = UserMoves(e, page)[w.id]
           \/ a.groups[w.id].peers = UserTarget(e, page)[w.id]
      BY <2>5, <3>3 DEF UserSecond
    <3>11. w.body.peers = UserTarget(e, page)[w.id]
      BY ONLY <3>8, <3>9, <3>10
    <3>. QED
      BY <3>2, <3>3, <3>6, <3>7, <3>11 DEF GroupTold
  <2>. HIDE DEF plan, rest
  <2>8. UserTold(e, page, rest, plan, a)
    BY <2>5, <2>6, <2>7 DEF UserTold, UserSecond
  <2>. QED
    BY <2>8 DEF plan, rest
<1>. QED
  BY <1>3, <1>4 DEF JobOf

LEMMA UserToldMakes ==
  ASSUME NEW r, NEW e, NEW page, NEW want, NEW todo, NEW plan, NEW a, ValidAccount(a),
         UserStands(e, page, want, todo, plan, a), UserTold(e, page, todo, plan, a),
         NEW w \in plan
  PROVE  UserTold(e, page, todo, plan \ {w}, Applied(a, w, r))
<1>. DEFINE b == Applied(a, w, r)
<1>1. <<"user", e.id>> \notin Left(todo) /\ e.id \in Users
  BY DEF UserStands
<1>2. CASE UserFirst(e, page, todo, plan, a)
  <2>1. AsShown(e, page, a) /\ OneIn(plan) /\ SelfGiven(e, page, w)
    BY <1>2 DEF UserFirst
  <2>2. FollowUser(b.groups, a, w.id, w.body.auto) /\ b.peers = a.peers
    BY <1>1, <2>1, UserPutUsers DEF SelfGiven
  <2>3. Kept(b, a, {"users", "groups"})
    BY <2>1, PutUser DEF SelfGiven, ValidAccount
  <2>4. b.policies = a.policies
    BY <2>3 DEF Kept, AccountParts
  <2>. HIDE DEF b
  <2>5. Frame(page, b)
    BY <2>2, <2>4 DEF UserTold, Frame, FollowUser
  <2>6. OwnPeers(b, e.id) = OwnPeers(page, e.id)
    BY <2>2 DEF UserTold, OwnPeers
  <2>7. FollowUser(b.groups, a, e.id, WantOf(e, page))
    BY <2>1, <2>2 DEF SelfGiven
  <2>8. \A g \in DOMAIN page.groups : b.groups[g].peers = UserMoves(e, page)[g]
    BY <2>1, <2>7 DEF FollowUser, AsShown, UserMoves, UserTold, Frame
  <2>9. plan \ {w} = {}
    BY <2>1 DEF OneIn
  <2>10. UserTold(e, page, todo, plan \ {w}, b)
    BY <1>1, <2>5, <2>6, <2>8, <2>9 DEF UserTold, UserSecond
  <2>. QED
    BY <2>10 DEF b
<1>3. CASE UserSecond(e, page, todo, plan, a)
  <2>1. GroupTold(w, page, UserTarget(e, page))
    BY <1>3 DEF UserSecond
  <2>2. /\ Frame(page, b) /\ b.groups[w.id].peers = UserTarget(e, page)[w.id]
        /\ \A g \in DOMAIN page.groups : g # w.id => b.groups[g] = a.groups[g]
        /\ b.peers = a.peers
    BY <2>1, FramePutGroup DEF UserTold
  <2>. HIDE DEF b
  <2>3. OwnPeers(b, e.id) = OwnPeers(page, e.id)
    BY <2>2 DEF UserTold, OwnPeers
  <2>4. UserTold(e, page, todo, plan \ {w}, b)
    BY <1>3, <2>2, <2>3 DEF UserTold, UserSecond
  <2>. QED
    BY <2>4 DEF b
<1>. QED
  BY <1>2, <1>3 DEF UserTold

LEMMA UserToldDone ==
  ASSUME NEW r, NEW e, NEW page, NEW a, ValidAccount(a), PageOk(e, page), e.kind = "user",
         NEW want, NEW todo, Left(todo) = {}, UserStands(e, page, want, todo, {}, a),
         UserTold(e, page, todo, {}, a)
  PROVE  AccessSet(Snap(a)) = AccessSet(Foretold(r, e, page))
<1>1. e.id \in Users /\ ValidAccount(page)
  BY UserOpened DEF PageOk
<1>2. Holding(Foretold(r, e, page), page, UserTarget(e, page))
  BY <1>1, UserForetold
<1>3. UserSecond(e, page, todo, {}, a) /\ Frame(page, a)
  BY DEF UserTold, UserFirst, OneIn
<1>4. Drifting(e, page) = {} \/ \A g \in ManagedGroups(Snap(page)) : Aligned(e, page, a, g)
  BY DEF UserStands, UserPending, Left, UserWritten, GroupsWritten, AlignDue, AllAligned
<1>5. ASSUME NEW g \in DOMAIN page.groups
      PROVE  a.groups[g].peers = UserTarget(e, page)[g]
  <2>1. CASE g \notin ManagedGroups(Snap(page)) \/ Drifting(e, page) = {}
    <3>1. UserTarget(e, page)[g] = UserMoves(e, page)[g]
      BY <2>1 DEF UserTarget
    <3>. QED
      BY <1>3, <3>1 DEF UserSecond
  <2>2. CASE g \in ManagedGroups(Snap(page)) /\ Aligned(e, page, a, g)
    <3>1. \A p \in Drifting(e, page) : p \in a.groups[g].peers <=> g \in WantOf(e, page)
      BY <2>2 DEF Aligned
    <3>2. UserTarget(e, page)[g] = (UserMoves(e, page)[g] \ Drifting(e, page))
            \cup (IF g \in WantOf(e, page) THEN Drifting(e, page) ELSE {})
      BY <2>2 DEF UserTarget
    <3>3. \/ a.groups[g].peers = UserMoves(e, page)[g]
          \/ a.groups[g].peers = UserTarget(e, page)[g]
      BY <1>3 DEF UserSecond
    <3>. QED
      BY ONLY <3>1, <3>2, <3>3
  <2>. QED
    BY <1>4, <2>1, <2>2
<1>. QED
  BY <1>2, <1>3, <1>5, FrameAccess DEF Fills

-----------------------------------------------------------------------------
(* A group, and then the users that gain or lose it; their devices follow. *)

FollowsGroups(e) == UsersEditable(e.id) /\ Propagates

OfUsers(page, p, users) == p \in DOMAIN page.peers /\ page.peers[p].user \in users

GroupTarget(e, page) ==
  LET pick == Picked(e, page, e.id)
  IN  [g \in DOMAIN page.groups |->
         IF g # e.id THEN page.groups[g].peers
         ELSE IF ~FollowsGroups(e) THEN FormPeers(e, page)
         ELSE (FormPeers(e, page) \ DevicesOf(Snap(page), pick.removed))
              \cup DevicesOf(Snap(page), pick.added)]

LEMMA DevicesOfUsers ==
  ASSUME NEW page, NEW users, NEW p
  PROVE  p \in DevicesOf(Snap(page), users) <=> OfUsers(page, p, users)
<1>1. DOMAIN Snap(page).peers = DOMAIN page.peers
      /\ \A x \in DOMAIN page.peers : Snap(page).peers[x].user = page.peers[x].user
  BY DEF Snap, PeerOf
<1>. QED
  BY <1>1 DEF DevicesOf, OfUsers

LEMMA MovedDevices ==
  ASSUME NEW t, NEW s, NEW members, Moved(t, s, members), NEW users
  PROVE  DevicesOf(t, users) = DevicesOf(s, users)
  BY DEF Moved, DevicesOf

LEMMA GroupForetold ==
  ASSUME NEW r, NEW e, NEW page, ValidAccount(page), e.kind = "group", e.id \in DOMAIN page.groups
  PROVE  Holding(Foretold(r, e, page), page, GroupTarget(e, page))
<1>. DEFINE snap == Snap(page)
            form == FormPeers(e, page)
            pick == Picked(e, page, e.id)
            t == WithGroupMembers(snap, e.id, form)
            u == [t EXCEPT !.users = [x \in DOMAIN @ |->
                     IF x \in pick.added THEN @[x] \cup {e.id}
                     ELSE IF x \in pick.removed THEN @[x] \ {e.id} ELSE @[x]]]
            peers == (t.groups[e.id].peers \ DevicesOf(t, pick.removed))
                     \cup DevicesOf(t, pick.added)
            s == Foretold(r, e, page)
<1>1. s = AfterGroup(e, page, snap)
  BY ForetoldIs
<1>2. s = IF UsersEditable(e.id)
          THEN IF Propagates THEN WithGroupMembers(u, e.id, peers) ELSE u
          ELSE t
  BY <1>1 DEF AfterGroup, WithUserAutoGroups
<1>3. snap.groups = page.groups /\ snap.policies = page.policies
  BY SnapIs
<1>4. IsView(snap)
  BY SnapView
<1>. HIDE DEF snap, form, pick, s
<1>5. MovedOne(t, snap, e.id, form)
  BY <1>3, <1>4, GroupMoved
<1>6. /\ IsView(t) /\ t.policies = page.policies /\ DOMAIN t.groups = DOMAIN page.groups
      /\ t.groups[e.id].peers = form
      /\ \A g \in DOMAIN page.groups :
           /\ t.groups[g].resources = page.groups[g].resources
           /\ g # e.id => t.groups[g].peers = page.groups[g].peers
  BY <1>3, <1>5 DEF MovedOne, Moved
<1>7. peers = (form \ DevicesOf(snap, pick.removed)) \cup DevicesOf(snap, pick.added)
  <2>1. \A users : DevicesOf(t, users) = DevicesOf(snap, users)
    BY <1>5, MovedDevices DEF MovedOne
  <2>. QED
    BY <1>6, <2>1
<1>. HIDE DEF t, peers
<1>8. LikeView(u, t)
  BY <1>6 DEF LikeView, IsView, SnapParts
<1>. HIDE DEF u
<1>9. IsView(u)
  BY <1>6, <1>8, LikeIsView
<1>10. CASE FollowsGroups(e)
  <2>1. s = WithGroupMembers(u, e.id, peers)
    BY <1>2, <1>10 DEF FollowsGroups
  <2>2. MovedOne(s, u, e.id, peers)
    BY <1>6, <1>8, <1>9, <2>1, GroupMoved DEF LikeView
  <2>3. /\ IsView(s) /\ s.policies = page.policies /\ DOMAIN s.groups = DOMAIN page.groups
        /\ s.groups[e.id].peers = peers
        /\ \A g \in DOMAIN page.groups :
             /\ s.groups[g].resources = page.groups[g].resources
             /\ g # e.id => s.groups[g].peers = page.groups[g].peers
    BY <1>6, <1>8, <2>2 DEF MovedOne, Moved, LikeView
  <2>4. \A g \in DOMAIN page.groups : s.groups[g].peers = GroupTarget(e, page)[g]
    BY <1>7, <1>10, <2>3 DEF GroupTarget, form, pick, snap
  <2>5. Holding(s, page, GroupTarget(e, page))
    BY <2>3, <2>4 DEF Holding, IsView
  <2>. QED
    BY <2>5 DEF s
<1>11. CASE ~FollowsGroups(e)
  <2>1. s = u \/ s = t
    BY <1>2, <1>11 DEF FollowsGroups
  <2>2. IsView(s) /\ s.policies = t.policies /\ s.groups = t.groups
    BY <1>6, <1>8, <1>9, <2>1 DEF LikeView
  <2>3. \A g \in DOMAIN page.groups : s.groups[g].peers = GroupTarget(e, page)[g]
    BY <1>6, <1>11, <2>2 DEF GroupTarget, form
  <2>4. Holding(s, page, GroupTarget(e, page))
    BY <1>6, <2>2, <2>3 DEF Holding, IsView
  <2>. QED
    BY <2>4 DEF s
<1>. QED
  BY <1>10, <1>11

(* What is in the users and in the other groups is as on the page.         *)
RestAsShown(e, page, a) ==
  /\ a.peers = page.peers
  /\ \A g \in DOMAIN page.groups : g # e.id => a.groups[g].peers = page.groups[g].peers
  /\ \A u \in Users : \A g \in DOMAIN page.groups :
       g # e.id => (g \in a.users[u].auto <=> g \in page.users[u].auto)

Following(e, page, a, p) ==
  LET pick == Picked(e, page, e.id)
  IN  /\ FollowsGroups(e) /\ OfUsers(page, p, pick.added \cup pick.removed)
      /\ UserHas(a, e.id, pick, page.peers[p].user)

(* The devices of those that were written are where their users are, and   *)
(* all other peers as in the form.                                         *)
MembersTold(e, page, a) ==
  \A p : p \in a.groups[e.id].peers <=>
           IF Following(e, page, a, p) THEN OfUsers(page, p, Picked(e, page, e.id).added)
           ELSE p \in FormPeers(e, page)

OneUserTold(e, page, w) ==
  /\ UserGiven(w, e.id, Picked(e, page, e.id)) /\ UsersEditable(e.id)
  /\ \A g \in DOMAIN page.groups :
       g # e.id => (g \in w.body.auto <=> g \in page.users[w.id].auto)

SelfTold(e, page, w) ==
  /\ GroupGiven(w, e.id, FormPeers(e, page))
  /\ w.body.resources = page.groups[e.id].resources

NoneHas(e, page, a) ==
  LET pick == Picked(e, page, e.id)
  IN  \A u \in pick.added \cup pick.removed : ~UserHas(a, e.id, pick, u)

GroupFirstTold(e, page, todo, plan, a) ==
  /\ NoneHas(e, page, a)
  /\ \/ plan = {} /\ todo.now = {<<"group", e.id>>} /\ <<"group", e.id>> \notin todo.after
     \/ /\ OneIn(plan) /\ <<"group", e.id>> \notin Left(todo)
        /\ \A w \in plan : SelfTold(e, page, w)

GroupSecondTold(e, page, todo, plan, a) ==
  /\ <<"group", e.id>> \notin Left(todo)
  /\ MembersTold(e, page, a) /\ \A w \in plan : OneUserTold(e, page, w)

UsersDue(e, todo) == <<"users", e.id>> \in Left(todo) => UsersEditable(e.id)

GroupSaveTold(e, page, todo, plan, a) ==
  /\ Frame(page, a) /\ RestAsShown(e, page, a) /\ UsersDue(e, todo)
  /\ GroupFirstTold(e, page, todo, plan, a) \/ GroupSecondTold(e, page, todo, plan, a)

LEMMA GroupToldSubmit ==
  ASSUME NEW r, NEW e, NEW page, e.kind = "group", PageOk(e, page), NEW todo,
         todo = Jobs(r, e, page, Snap(page))
  PROVE  GroupSaveTold(e, page, todo, {}, page)
<1>. DEFINE second == IF UsersEditable(e.id) /\ e.id \in DOMAIN Snap(page).groups
                      THEN {<<"users", e.id>>} ELSE {}
            pick == Picked(e, page, e.id)
<1>1. todo = Staged({<<"group", e.id>>}, second)
  BY DEF Jobs, GroupJobs
<1>2. {<<"group", e.id>>} # {} /\ <<"group", e.id>> # <<"users", e.id>>
  OBVIOUS
<1>3. <<"group", e.id>> \notin second
      /\ (<<"users", e.id>> \in second => UsersEditable(e.id))
  BY <1>2
<1>. HIDE DEF second
<1>4. todo.now = {<<"group", e.id>>} /\ todo.after = second
      /\ Left(todo) = {<<"group", e.id>>} \cup second
  <2>1. {<<"group", e.id>>} # {}
    OBVIOUS
  <2>2. todo.now = {<<"group", e.id>>} /\ todo.after = second
    BY ONLY <1>1, <2>1, StagedLeft
  <2>. QED
    BY <2>2 DEF Left
<1>5. UsersDue(e, todo)
  BY <1>2, <1>3, <1>4 DEF UsersDue
<1>6. NoneHas(e, page, page)
  <2>1. /\ pick.added \cup pick.removed = e.users \ ServiceUsers
        /\ \A u \in e.users \ ServiceUsers : u \in pick.added <=> e.id \notin page.users[u].auto
    BY GroupPicks
  <2>. HIDE DEF pick
  <2>. QED
    BY <2>1 DEF NoneHas, UserHas, pick
<1>7. Frame(page, page) /\ RestAsShown(e, page, page)
  BY DEF Frame, RestAsShown
<1>. QED
  BY <1>3, <1>4, <1>5, <1>6, <1>7 DEF GroupSaveTold, GroupFirstTold

LEMMA GroupToldWork ==
  ASSUME NEW r, NEW q, NEW a, NEW job, q.make.kind = "group", PageOk(q.make, q.page),
         ValidAccount(a), JobOf(r, q.make, job), job \in q.todo.now,
         \A w \in Writes(r, q, job, a) : w.body # Bad,
         GroupSaveTold(q.make, q.page, q.todo, {}, a)
  PROVE  GroupSaveTold(q.make, q.page, Rest(q.todo, job), Writes(r, q, job, a), a)
<1>. DEFINE e == q.make
            page == q.page
            plan == Writes(r, q, job, a)
            rest == Rest(q.todo, job)
<1>1. rest.now \cup rest.after = (q.todo.now \ {job}) \cup q.todo.after
  BY StagedIs DEF Rest
<1>2. Left(rest) = (q.todo.now \ {job}) \cup q.todo.after
  BY <1>1 DEF Left
<1>3. UsersDue(e, rest)
  BY <1>2 DEF GroupSaveTold, UsersDue, Left
<1>4. Frame(page, a) /\ RestAsShown(e, page, a)
  BY DEF GroupSaveTold
<1>5. e.id \in DOMAIN page.groups
  BY GroupPicks
<1>6. CASE job = <<"group", e.id>>
  <2>1. job[1] = "group"
    BY <1>6
  <2>2. plan = GroupWrites(e, page, a)
    BY <2>1, WritesBy
  <2>3. /\ NoneHas(e, page, a) /\ q.todo.now = {<<"group", e.id>>}
        /\ <<"group", e.id>> \notin q.todo.after
    BY <1>6 DEF GroupSaveTold, GroupFirstTold, GroupSecondTold, Left, OneIn
  <2>4. <<"group", e.id>> \notin Left(rest)
    BY <1>2, <1>6, <2>3
  <2>5. OneIn(plan)
    BY <2>2 DEF GroupWrites, OneIn
  <2>6. ASSUME NEW w \in plan
        PROVE  SelfTold(e, page, w)
    <3>1. /\ IsTo(w, "groups", e.id)
          /\ w.body = [peers |-> FormPeers(e, page), resources |-> a.groups[e.id].resources]
      BY <2>2, <2>6, GroupWritesAre
    <3>2. /\ "peers" \in DOMAIN w.body /\ w.body.peers = FormPeers(e, page)
          /\ w.body.resources = a.groups[e.id].resources
      BY ONLY <3>1
    <3>3. w.body # Gone
      BY <3>2, NotGone
    <3>4. w.body.resources = page.groups[e.id].resources
      BY <1>4, <1>5, <3>2 DEF Frame
    <3>. QED
      BY <3>1, <3>2, <3>3, <3>4 DEF SelfTold, GroupGiven, IsTo
  <2>. HIDE DEF plan, rest
  <2>7. GroupSaveTold(e, page, rest, plan, a)
    BY <1>3, <1>4, <2>3, <2>4, <2>5, <2>6 DEF GroupSaveTold, GroupFirstTold
  <2>. QED
    BY <2>7 DEF plan, rest
<1>7. CASE job = <<"users", e.id>>
  <2>1. job[1] = "users" /\ job[2] = e.id /\ job # <<"group", e.id>> /\ job \in Left(q.todo)
    BY <1>7 DEF Left
  <2>2. plan = UsersWrites(e, page, a, e.id)
    BY <2>1, WritesBy
  <2>3. GroupSecondTold(e, page, q.todo, {}, a)
    BY <2>1 DEF GroupSaveTold, GroupFirstTold, OneIn
  <2>4. <<"group", e.id>> \notin Left(rest) /\ MembersTold(e, page, a)
    BY <1>2, <2>3 DEF GroupSecondTold, Left
  <2>5. UsersEditable(e.id)
    BY <1>7, <2>1 DEF GroupSaveTold, UsersDue
  <2>6. ASSUME NEW w \in plan
        PROVE  OneUserTold(e, page, w)
    <3>1. UserGiven(w, e.id, Picked(e, page, e.id))
      BY <2>2, <2>6, UsersGiven
    <3>2. UsersWrite(w, a, Picked(e, page, e.id), e.id)
      BY <2>2, <2>6, UsersWritesAre
    <3>3. \A g : g # e.id => (g \in w.body.auto <=> g \in a.users[w.id].auto)
      BY <3>2 DEF UsersWrite
    <3>4. w.id \in Users
      BY <3>1 DEF UserGiven
    <3>. QED
      BY <1>4, <2>5, <3>1, <3>3, <3>4 DEF OneUserTold, RestAsShown
  <2>. HIDE DEF plan, rest
  <2>7. GroupSaveTold(e, page, rest, plan, a)
    BY <1>3, <1>4, <2>4, <2>6 DEF GroupSaveTold, GroupSecondTold
  <2>. QED
    BY <2>7 DEF plan, rest
<1>. QED
  BY <1>6, <1>7 DEF JobOf

LEMMA SelfToldMakes ==
  ASSUME NEW r, NEW e, NEW page, NEW todo, NEW plan, NEW a, ValidAccount(a),
         e.id \in DOMAIN page.groups, Frame(page, a), RestAsShown(e, page, a), UsersDue(e, todo),
         GroupFirstTold(e, page, todo, plan, a), NEW w \in plan
  PROVE  GroupSaveTold(e, page, todo, plan \ {w}, Applied(a, w, r))
<1>. DEFINE b == Applied(a, w, r)
<1>1. NoneHas(e, page, a) /\ OneIn(plan) /\ <<"group", e.id>> \notin Left(todo) /\ SelfTold(e, page, w)
  BY DEF GroupFirstTold
<1>2. GroupTold(w, page, [g \in {e.id} |-> FormPeers(e, page)])
  BY <1>1 DEF SelfTold, GroupGiven, GroupTold
<1>3. w.id = e.id
  BY <1>1 DEF SelfTold, GroupGiven
<1>4. /\ Frame(page, b) /\ b.groups[e.id].peers = FormPeers(e, page)
      /\ \A g \in DOMAIN page.groups : g # e.id => b.groups[g] = a.groups[g]
      /\ b.users = a.users /\ b.peers = a.peers
  BY <1>2, <1>3, FramePutGroup
<1>. HIDE DEF b
<1>5. RestAsShown(e, page, b) /\ NoneHas(e, page, b)
  BY <1>1, <1>4 DEF RestAsShown, NoneHas, UserHas
<1>6. MembersTold(e, page, b)
  <2>1. \A p : ~Following(e, page, b, p)
    BY <1>5 DEF Following, NoneHas, OfUsers
  <2>. QED
    BY <1>4, <2>1 DEF MembersTold
<1>7. plan \ {w} = {}
  BY <1>1 DEF OneIn
<1>8. GroupSaveTold(e, page, todo, plan \ {w}, b)
  BY <1>1, <1>4, <1>5, <1>6, <1>7 DEF GroupSaveTold, GroupSecondTold
<1>. QED
  BY <1>8 DEF b

LEMMA OneUserToldMakes ==
  ASSUME NEW r, NEW e, NEW page, NEW todo, NEW plan, NEW a, ValidAccount(a),
         e.id \in DOMAIN page.groups, Frame(page, a), RestAsShown(e, page, a), UsersDue(e, todo),
         GroupSecondTold(e, page, todo, plan, a), NEW w \in plan,
         Picked(e, page, e.id).added \cup Picked(e, page, e.id).removed \subseteq Users
  PROVE  GroupSaveTold(e, page, todo, plan \ {w}, Applied(a, w, r))
<1>. DEFINE b == Applied(a, w, r)
            pick == Picked(e, page, e.id)
            u == w.id
<1>1. OneUserTold(e, page, w) /\ MembersTold(e, page, a)
  BY DEF GroupSecondTold
<1>2. /\ UserGiven(w, e.id, pick) /\ UsersEditable(e.id)
      /\ \A g \in DOMAIN page.groups : g # e.id => (g \in w.body.auto <=> g \in page.users[u].auto)
  BY <1>1 DEF OneUserTold
<1>3. u \in Users /\ w.type = "users" /\ w.body # Gone /\ u \in pick.added \cup pick.removed
      /\ (e.id \in w.body.auto <=> u \in pick.added)
  BY <1>2 DEF UserGiven
<1>4. /\ b.users[u] = w.body /\ \A v \in Users : v # u => b.users[v] = a.users[v]
      /\ FollowUser(b.groups, a, u, w.body.auto) /\ b.peers = a.peers
  BY <1>3, UserPutUsers
<1>5. b.policies = a.policies
  <2>1. Kept(b, a, {"users", "groups"})
    BY <1>3, PutUser DEF ValidAccount
  <2>. QED
    BY <2>1 DEF Kept, AccountParts
<1>. HIDE DEF b, pick
<1>6. Frame(page, b)
  BY <1>4, <1>5 DEF Frame, FollowUser
<1>7. RestAsShown(e, page, b)
  <2>1. \A g \in DOMAIN page.groups : g # e.id => (g \in w.body.auto <=> g \in a.users[u].auto)
    BY <1>2, <1>3 DEF RestAsShown
  <2>2. \A g \in DOMAIN page.groups : g # e.id => b.groups[g].peers = page.groups[g].peers
    BY <1>4, <2>1 DEF FollowUser, RestAsShown, Frame
  <2>3. \A v \in Users : \A g \in DOMAIN page.groups :
          g # e.id => (g \in b.users[v].auto <=> g \in page.users[v].auto)
    BY <1>2, <1>4 DEF RestAsShown
  <2>. QED
    BY <1>4, <2>2, <2>3 DEF RestAsShown
<1>8. UserHas(b, e.id, pick, u)
  BY <1>3, <1>4 DEF UserHas
<1>9. \A v \in Users : v # u => (UserHas(b, e.id, pick, v) <=> UserHas(a, e.id, pick, v))
  BY <1>4 DEF UserHas
<1>10. \A p : p \in OwnPeers(a, u) <=> OfUsers(page, p, {u})
  BY DEF OwnPeers, OfUsers, RestAsShown
<1>11. b.groups[e.id].peers =
         IF ~Propagates \/ UserHas(a, e.id, pick, u) THEN a.groups[e.id].peers
         ELSE IF u \in pick.added THEN a.groups[e.id].peers \cup OwnPeers(a, u)
         ELSE a.groups[e.id].peers \ OwnPeers(a, u)
  BY <1>3, <1>4 DEF FollowUser, UserHas, Frame
<1>12. ASSUME NEW p
       PROVE  p \in b.groups[e.id].peers <=>
                IF Following(e, page, b, p) THEN OfUsers(page, p, pick.added)
                ELSE p \in FormPeers(e, page)
  <2>1. p \in a.groups[e.id].peers <=>
          IF Following(e, page, a, p) THEN OfUsers(page, p, pick.added)
          ELSE p \in FormPeers(e, page)
    BY <1>1 DEF MembersTold, pick
  <2>2. \A x : Following(e, page, x, p) <=>
          /\ FollowsGroups(e) /\ OfUsers(page, p, pick.added \cup pick.removed)
          /\ UserHas(x, e.id, pick, page.peers[p].user)
    BY DEF Following, pick
  <2>3. FollowsGroups(e) <=> Propagates
    BY <1>2 DEF FollowsGroups
  <2>4. CASE OfUsers(page, p, {u})
    <3>1. page.peers[p].user = u /\ OfUsers(page, p, pick.added \cup pick.removed)
          /\ (OfUsers(page, p, pick.added) <=> u \in pick.added)
      BY <1>3, <2>4 DEF OfUsers
    <3>2. Following(e, page, b, p) <=> Propagates
      BY <1>8, <2>2, <2>3, <3>1
    <3>3. Following(e, page, a, p) <=> Propagates /\ UserHas(a, e.id, pick, u)
      BY <2>2, <2>3, <3>1
    <3>4. p \in OwnPeers(a, u)
      BY <1>10, <2>4
    <3>. QED
      BY <1>11, <2>1, <3>1, <3>2, <3>3, <3>4
  <2>5. CASE ~OfUsers(page, p, {u})
    <3>1. p \in b.groups[e.id].peers <=> p \in a.groups[e.id].peers
      BY <1>10, <1>11, <2>5
    <3>2. Following(e, page, b, p) <=> Following(e, page, a, p)
      <4>1. CASE OfUsers(page, p, pick.added \cup pick.removed)
        <5>1. page.peers[p].user # u
          BY <2>5, <4>1 DEF OfUsers
        <5>2. page.peers[p].user \in Users
          BY <4>1 DEF OfUsers, pick
        <5>. QED
          BY <1>9, <2>2, <5>1, <5>2
      <4>2. CASE ~OfUsers(page, p, pick.added \cup pick.removed)
        BY <2>2, <4>2
      <4>. QED
        BY <4>1, <4>2
    <3>. QED
      BY <2>1, <3>1, <3>2
  <2>. QED
    BY <2>4, <2>5
<1>13. MembersTold(e, page, b)
  BY <1>12 DEF MembersTold, pick
<1>14. GroupSaveTold(e, page, todo, plan \ {w}, b)
  BY <1>6, <1>7, <1>13 DEF GroupSaveTold, GroupSecondTold
<1>. QED
  BY <1>14 DEF b

LEMMA GroupToldMakes ==
  ASSUME NEW r, NEW e, NEW page, e.kind = "group", PageOk(e, page), NEW todo, NEW plan, NEW a,
         ValidAccount(a), GroupSaveTold(e, page, todo, plan, a), NEW w \in plan
  PROVE  GroupSaveTold(e, page, todo, plan \ {w}, Applied(a, w, r))
<1>1. e.id \in DOMAIN page.groups /\ e.users \subseteq Users
      /\ Picked(e, page, e.id).added \cup Picked(e, page, e.id).removed = e.users \ ServiceUsers
  BY GroupPicks
<1>2. CASE GroupFirstTold(e, page, todo, plan, a)
  BY <1>1, <1>2, SelfToldMakes DEF GroupSaveTold
<1>3. CASE GroupSecondTold(e, page, todo, plan, a)
  BY <1>1, <1>3, OneUserToldMakes DEF GroupSaveTold
<1>. QED
  BY <1>2, <1>3 DEF GroupSaveTold

LEMMA GroupToldDone ==
  ASSUME NEW r, NEW e, NEW page, NEW a, ValidAccount(a), PageOk(e, page), e.kind = "group",
         NEW todo, Left(todo) = {}, NEW first,
         GroupStands(e, Picked(e, page, e.id), e.id, FormPeers(e, page), first, todo, {}, a),
         GroupSaveTold(e, page, todo, {}, a)
  PROVE  AccessSet(Snap(a)) = AccessSet(Foretold(r, e, page))
<1>. DEFINE pick == Picked(e, page, e.id)
<1>1. e.id \in DOMAIN page.groups /\ ValidAccount(page)
  BY GroupPicks DEF PageOk
<1>2. Holding(Foretold(r, e, page), page, GroupTarget(e, page))
  BY <1>1, GroupForetold
<1>3. UsersEditable(e.id) => \A u \in pick.added \cup pick.removed : UserHas(a, e.id, pick, u)
  BY GroupStandsDone
<1>4. MembersTold(e, page, a) /\ Frame(page, a) /\ RestAsShown(e, page, a)
  BY DEF GroupSaveTold, GroupFirstTold, GroupSecondTold, Left, OneIn
<1>5. pick.added \cap pick.removed = {}
  BY PickedIs
<1>. HIDE DEF pick
<1>6. ASSUME NEW p
      PROVE  p \in a.groups[e.id].peers <=> p \in GroupTarget(e, page)[e.id]
  <2>1. Following(e, page, a, p) <=>
          FollowsGroups(e) /\ OfUsers(page, p, pick.added \cup pick.removed)
    BY <1>3 DEF Following, FollowsGroups, OfUsers, pick
  <2>2. p \in a.groups[e.id].peers <=>
          IF Following(e, page, a, p) THEN OfUsers(page, p, pick.added)
          ELSE p \in FormPeers(e, page)
    BY <1>4 DEF MembersTold, pick
  <2>3. GroupTarget(e, page)[e.id] =
          IF ~FollowsGroups(e) THEN FormPeers(e, page)
          ELSE (FormPeers(e, page) \ DevicesOf(Snap(page), pick.removed))
               \cup DevicesOf(Snap(page), pick.added)
    BY <1>1 DEF GroupTarget, pick
  <2>4. p \in GroupTarget(e, page)[e.id] <=>
          IF ~FollowsGroups(e) THEN p \in FormPeers(e, page)
          ELSE (p \in FormPeers(e, page) /\ ~OfUsers(page, p, pick.removed))
               \/ OfUsers(page, p, pick.added)
    BY <2>3, DevicesOfUsers
  <2>5. /\ OfUsers(page, p, pick.added \cup pick.removed)
             <=> OfUsers(page, p, pick.added) \/ OfUsers(page, p, pick.removed)
        /\ ~(OfUsers(page, p, pick.added) /\ OfUsers(page, p, pick.removed))
    BY <1>5 DEF OfUsers
  <2>. QED
    BY <2>1, <2>2, <2>4, <2>5
<1>7. a.groups[e.id].peers = GroupTarget(e, page)[e.id]
  BY <1>6
<1>8. \A g \in DOMAIN page.groups : g # e.id => a.groups[g].peers = GroupTarget(e, page)[g]
  BY <1>4 DEF RestAsShown, GroupTarget
<1>. QED
  BY <1>2, <1>4, <1>7, <1>8, FrameAccess DEF Fills

-----------------------------------------------------------------------------
(* What is made anew is named for its editor, and nothing is before that   *)
(* editor writes.                                                          *)

OwnPlan(r, q) == \A w \in q.plan : w.new => w.id = r

Unmade ==
  \A r \in Editors : OwnPlan(r, edit[r]) /\ (~edit[r].wrote => Absent(r, acc))

LEMMA WritesOwn ==
  ASSUME NEW r, NEW q, NEW job, NEW a, q.make \in Edits, JobOf(r, q.make, job),
         Reads(q.make, job, a), ValidAccount(a), NEW w \in Writes(r, q, job, a), w.body # Bad
  PROVE  w.new => w.id = r
<1>. DEFINE e == q.make
<1>1. CASE job[1] = "group"
  <2>1. w \in GroupWrites(e, q.page, a)
    BY <1>1, WritesBy
  <2>. QED
    BY <2>1, GroupWritesAre DEF IsTo
<1>2. CASE job[1] = "users"
  <2>1. w \in UsersWrites(e, q.page, a, job[2])
    BY <1>2, WritesBy
  <2>2. UsersWrite(w, a, Picked(e, q.page, job[2]), job[2])
    BY <2>1, UsersWritesAre
  <2>. QED
    BY ONLY <2>2 DEF UsersWrite, IsTo
<1>3. CASE job[1] = "user"
  <2>1. w \in UserWrites(e, q.page, q.snap, a)
    BY <1>3, WritesBy
  <2>2. UserWrite(w, e, a.users[e.id], UserWant(e, q.page, q.snap, a))
    BY <2>1, UserWritesAre
  <2>. QED
    BY ONLY <2>2 DEF UserWrite, IsTo
<1>4. CASE job[1] = "align"
  <2>1. w \in AlignWrites(e, q.snap, q.want, a)
    BY <1>4, WritesBy
  <2>2. AlignWrite(w, a, OwnAligned(e, q.snap), ManagedGroups(q.snap), q.want)
    BY <2>1, AlignWritesAre
  <2>. QED
    BY ONLY <2>2 DEF AlignWrite, IsTo
<1>5. CASE job[1] = "settings"
  <2>1. w \in SettingsWrites(e, a)
    BY <1>5, WritesBy
  <2>2. e.id \in DOMAIN a.peers /\ PeersValid(a)
    BY <1>5, JobIs, ValidParts DEF Reads
  <2>3. SettingsWrite(w, e, a.peers[e.id])
    BY <2>1, <2>2, SettingsWritesAre
  <2>. QED
    BY ONLY <2>3 DEF SettingsWrite, IsTo
<1>6. CASE job[1] = "member"
  <2>. DEFINE joins == Chosen(e, PeerPage(q.page, e.id), q.snap.peers[e.id].groups, q.snap)
  <2>1. w \in MemberWrites(e, q.page, q.snap, job[2], a)
    BY <1>6, WritesBy
  <2>2. MemberWrite(w, a, job[2], e.id, joins)
    BY <2>1, MemberWritesAre
  <2>. QED
    BY ONLY <2>2 DEF MemberWrite, IsTo
<1>7. CASE job[1] = "policy"
  <2>1. w \in PolicyWrites(e, q.page, a)
    BY <1>7, WritesBy
  <2>. QED
    BY <2>1, PolicyWritesAre DEF IsTo
<1>8. CASE job[1] \in {"toggle", "revoke"}
  <2>1. w \in ToggleWrites(e, a) \/ w \in RevokeWrites(e, a)
    BY <1>8, WritesBy
  <2>. QED
    BY <2>1, ToggleWritesAre, RevokeWritesAre DEF IsTo
<1>9. CASE job[1] = "key"
  <2>1. w \in BulkWrites(e, job[2], a) \/ w \in DeleteKeyWrites(job[2], a)
        \/ w \in KeyWrites(e, q.page, q.snap, job[2], a)
    BY <1>9, WritesBy
  <2>2. IsTo(w, "keys", job[2])
    BY <2>1, BulkWritesAre, DeleteKeyWritesAre, KeyWritesAre
  <2>. QED
    BY <2>2 DEF IsTo
<1>10. CASE job[1] \in {"net", "resource", "router"}
  <2>1. w \in NetWrites(e, a) \/ w \in ResourceWrites(e, q.page, a) \/ w \in RouterWrites(e, a)
    BY <1>10, WritesBy
  <2>2. ~w.new
    BY <2>1, NetWritesAre, ResourceWritesAre, RouterWritesAre DEF IsTo
  <2>. QED
    BY <2>2
<1>11. CASE job[1] = "restore"
  <2>1. w \in RestoreWrites(r, e, q.snap)
    BY <1>11, WritesBy
  <2>. QED
    BY <2>1, RestoreWritesAre
<1>12. CASE job[1] = "delete"
  <2>1. e.kind = "delete" /\ w = Removal(e)
    BY <1>12, SingleJob, WritesBy
  <2>2. e.type \in {"groups", "peers", "policies", "nets", "resources", "routers"}
    BY <2>1, FormIs DEF FormOf
  <2>. HIDE DEF e
  <2>. QED
    BY <2>1, <2>2, RemovalIs
<1>13. CASE job[1] = "post"
  <2>1. w = Post(r, e)
    BY <1>13, WritesBy
  <2>. QED
    BY <2>1 DEF Post, Write
<1>. QED
  BY <1>1, <1>2, <1>3, <1>4, <1>5, <1>6, <1>7, <1>8, <1>9, <1>10, <1>11, <1>12, <1>13, JobIs

(* A write makes no group and no policy but the one that it is for.        *)
LEMMA NoOtherGroups ==
  ASSUME NEW a, NEW w, NEW r, ValidAccount(a), ValidWrite(w), Accepts(a, w)
  PROVE  DOMAIN Applied(a, w, r).groups \subseteq
           DOMAIN a.groups \cup (IF w.new THEN {w.id} ELSE {})
<1>. DEFINE b == Applied(a, w, r)
            more == DOMAIN a.groups \cup (IF w.new THEN {w.id} ELSE {})
<1>. SUFFICES DOMAIN b.groups \subseteq more
  OBVIOUS
<1>. HIDE DEF b
<1>1. Shaped(a) /\ (w.type = "routers" => w.net \in DOMAIN a.nets)
  BY DEF ValidAccount, Accepts
<1>2. b.groups = a.groups => DOMAIN b.groups \subseteq more
  OBVIOUS
<1>3. CASE w.body # Gone /\ w.type = "groups"
  <2>1. b.groups = Upsert(a.groups, w.id, w.body)
    BY <1>1, <1>3, PutGroup DEF b
  <2>2. DOMAIN b.groups = DOMAIN a.groups \cup {w.id}
    BY <2>1 DEF Upsert
  <2>3. ~w.new => w.id \in DOMAIN a.groups
    BY <1>3 DEF Accepts, Held
  <2>. QED
    BY <2>2, <2>3
<1>4. CASE w.body # Gone /\ w.type \in {"users", "resources"}
  <2>1. \/ b.groups = Propagated(a, w.id, w.body.auto)
        \/ b.groups = Listed(a.groups, w.id, w.body.groups)
    <3>1. w.type = "users" => b.groups = Propagated(a, w.id, w.body.auto)
      BY <1>1, <1>4, PutUser DEF b
    <3>2. w.type = "resources" => b.groups = Listed(a.groups, w.id, w.body.groups)
      BY <1>1, <1>4, PutResource DEF b
    <3>. QED
      BY ONLY <1>4, <3>1, <3>2
  <2>2. DOMAIN b.groups = DOMAIN a.groups
    BY <2>1 DEF Propagated, Listed
  <2>. QED
    BY <2>2
<1>5. CASE w.body # Gone /\ w.type \in {"peers", "policies", "keys", "nets", "routers"}
  <2>1. \/ Kept(b, a, {"peers"}) \/ Kept(b, a, {"policies"}) \/ Kept(b, a, {"keys"})
        \/ Kept(b, a, {"nets"})
    BY <1>1, <1>5, PutPeer, PutPolicy, PutKey, PutNetwork, PutRouter DEF b
  <2>. QED
    BY <1>2, <2>1 DEF Kept, AccountParts
<1>6. CASE w.body = Gone /\ w.type = "groups"
  <2>1. b.groups = Drop(a.groups, w.id)
    BY <1>1, <1>6, DeletedOne DEF b
  <2>. QED
    BY <2>1 DEF Drop, DropAll
<1>7. CASE w.body = Gone /\ w.type \in {"policies", "keys", "routers"}
  <2>1. Kept(b, a, {"policies"}) \/ Kept(b, a, {"keys"}) \/ Kept(b, a, {"nets"})
    BY <1>1, <1>7, DeletedOne, DeletedRouter DEF b
  <2>. QED
    BY <1>2, <2>1 DEF Kept, AccountParts
<1>8. CASE w.body = Gone /\ w.type = "peers"
  <2>1. b.groups = NoPeer(a.groups, w.id)
    BY <1>1, <1>8, DeletedPeer DEF b
  <2>. QED
    BY <2>1 DEF NoPeer
<1>9. CASE w.body = Gone /\ w.type \in {"resources", "nets"}
  <2>1. \E rids : b.groups = NoResources(a.groups, rids)
    <3>1. CASE w.type = "resources"
      <4>1. b = DropResources(a, {w.id})
        BY <1>9, <3>1, DeletedResource DEF b
      <4>2. b.groups = NoResources(a.groups, {w.id})
        BY <1>1, <4>1, DroppedResources
      <4>. QED
        BY <4>2
    <3>2. CASE w.type = "nets"
      <4>. DEFINE rids == ResourcesIn(a, w.id)
                  d == DropResources(a, rids)
      <4>1. Kept(b, d, {"nets"}) /\ d.groups = NoResources(a.groups, rids)
        BY <1>1, <1>9, <3>2, DeletedNetwork, DroppedResources DEF b
      <4>. HIDE DEF d, rids
      <4>2. b.groups = NoResources(a.groups, rids)
        BY <4>1 DEF Kept, AccountParts
      <4>. QED
        BY <4>2
    <3>. QED
      BY <1>9, <3>1, <3>2
  <2>. QED
    BY <2>1 DEF NoResources
<1>. QED
  BY <1>3, <1>4, <1>5, <1>6, <1>7, <1>8, <1>9 DEF ValidWrite, Types

LEMMA AppliedAbsent ==
  ASSUME NEW a, NEW w, NEW r, ValidAccount(a), ValidWrite(w), Accepts(a, w), NEW s,
         Absent(s, a), w.new => w.id # s
  PROVE  Absent(s, Applied(a, w, r))
<1>. DEFINE b == Applied(a, w, r)
<1>1. DOMAIN b.groups \subseteq DOMAIN a.groups \cup (IF w.new THEN {w.id} ELSE {})
  BY NoOtherGroups
<1>2. DOMAIN b.policies \subseteq DOMAIN a.policies \cup (IF w.new THEN {w.id} ELSE {})
  <2>1. CASE w.type # "policies" \/ w.body = Gone
    <3>1. PoliciesFrom(b, a)
      BY <2>1, AppliedRules
    <3>. HIDE DEF b
    <3>. QED
      BY <3>1 DEF PoliciesFrom
  <2>2. CASE w.type = "policies" /\ w.body # Gone
    <3>1. b.policies = Upsert(a.policies, w.id, Numbered(w.body, r))
      BY <2>2, PutPolicy DEF ValidAccount
    <3>. HIDE DEF b
    <3>2. DOMAIN b.policies = DOMAIN a.policies \cup {w.id}
      BY <3>1 DEF Upsert
    <3>3. ~w.new => w.id \in DOMAIN a.policies
      BY <2>2 DEF Accepts, Held
    <3>. QED
      BY <3>2, <3>3
  <2>. QED
    BY <2>1, <2>2
<1>. HIDE DEF b
<1>3. Absent(s, b)
  BY <1>1, <1>2 DEF Absent
<1>. QED
  BY <1>3 DEF b

(* A write is known to the edit that made it.                              *)
LEMMA WriterIs ==
  ASSUME EditInv, EditNext
  PROVE  \/ acc' = acc
         \/ \E r \in Editors : edit'[r].wrote /\ \E w \in edit[r].plan : Takes(r, w)
<1>1. PICK r \in Editors :
        \/ \E e \in Edits : Open(r, e)
        \/ Preview(r) \/ Submit(r) \/ Work(r) \/ Save(r)
        \/ AnswerLost(r) \/ Refused(r) \/ NoAnswer(r)
  BY DEF EditNext
<1>2. CASE Save(r)
  <2>1. PICK w \in edit[r].plan : Makes(r, edit[r], edit'[r], w)
    BY <1>2, StepSave
  <2>2. edit'[r].wrote /\ Takes(r, w)
    BY <2>1 DEF Makes
  <2>. QED
    BY <2>2
<1>3. CASE AnswerLost(r)
  <2>1. PICK w \in edit[r].plan :
          /\ Takes(r, w)
          /\ Others(r, Failed([edit[r] EXCEPT !.wrote = TRUE, !.lost = TRUE], edit[r].job))
    BY <1>3 DEF AnswerLost
  <2>. DEFINE q == [edit[r] EXCEPT !.wrote = TRUE, !.lost = TRUE]
  <2>2. DOMAIN edit[r] = Parts
    BY DEF EditInv, ValidEdit
  <2>3. DOMAIN q = Parts /\ q.wrote
    BY <2>2 DEF Parts
  <2>4. Others(r, Failed(q, edit[r].job))
    BY <2>1
  <2>. HIDE DEF q
  <2>5. Failed(q, edit[r].job).wrote
    BY <2>3, FailedIs DEF Parts
  <2>6. edit'[r].wrote
    BY <2>4, <2>5, ToOthers
  <2>. QED
    BY <2>1, <2>6
<1>4. CASE (\E e \in Edits : Open(r, e)) \/ Preview(r) \/ Submit(r) \/ Work(r)
  BY <1>4 DEF Open, Preview, Submit, Work
<1>5. CASE Refused(r) \/ NoAnswer(r)
  BY <1>5 DEF Refused, NoAnswer
<1>. QED
  BY <1>1, <1>2, <1>3, <1>4, <1>5

LEMMA OwnPlanStep ==
  ASSUME NEW r, NEW q, NEW p, OwnPlan(r, q), ValidEdit(r, q), ValidAccount(acc),
         StepTo(r, q, p)
  PROVE  OwnPlan(r, p)
<1>1. CASE Opens(q, p)
  BY <1>1 DEF Opens, OwnPlan
<1>2. CASE Previews(r, q, p)
  <2>1. p.plan = q.plan
    BY <1>2 DEF Previews, Same1, Parts
  <2>. QED
    BY <2>1 DEF OwnPlan
<1>3. CASE Submits(r, q, p)
  <2>1. p.plan = q.plan
    BY <1>3 DEF Submits, Same1, Parts
  <2>. QED
    BY <2>1 DEF OwnPlan
<1>4. CASE \E job \in q.todo.now : WorksOn(r, q, p, job)
  <2>1. PICK job \in q.todo.now : WorksOn(r, q, p, job)
    BY <1>4
  <2>2. JobOf(r, q.make, job) /\ q.make \in Edits
    BY <2>1 DEF ValidEdit, WorksOn
  <2>3. /\ Reads(q.make, job, acc) /\ p.plan = Writes(r, q, job, acc)
        /\ \A w \in p.plan : w.body # Bad
    BY <2>1 DEF WorksOn
  <2>. QED
    BY <2>2, <2>3, WritesOwn DEF OwnPlan
<1>5. CASE \E w \in q.plan : Makes(r, q, p, w)
  <2>1. p.plan \subseteq q.plan
    BY <1>5 DEF Makes
  <2>. QED
    BY <2>1 DEF OwnPlan
<1>6. CASE \E job : FailsAt(q, p, job)
  BY <1>6 DEF FailsAt, OwnPlan
<1>. QED
  BY <1>1, <1>2, <1>3, <1>4, <1>5, <1>6 DEF StepTo

LEMMA NotYetStep ==
  ASSUME NEW r, NEW q, NEW p, NothingYet(q), StepTo(r, q, p), ~p.wrote
  PROVE  ~q.wrote
<1>1. CASE Opens(q, p)
  BY <1>1 DEF Opens, NothingYet
<1>2. CASE Previews(r, q, p)
  BY <1>2 DEF Previews, Same1, Parts
<1>3. CASE Submits(r, q, p)
  BY <1>3 DEF Submits, Same1, Parts
<1>4. CASE \E job \in q.todo.now : WorksOn(r, q, p, job)
  BY <1>4 DEF WorksOn, Same1, Parts
<1>5. CASE \E w \in q.plan : Makes(r, q, p, w)
  BY <1>5 DEF Makes
<1>6. CASE \E job : FailsAt(q, p, job)
  BY <1>6, Zenon DEF FailsAt
<1>. QED
  BY <1>1, <1>2, <1>3, <1>4, <1>5, <1>6 DEF StepTo

LEMMA UnmadeNext ==
  ASSUME EditInv, AllOrdered, Unmade, EditNext
  PROVE  Unmade'
<1>1. PICK t \in Editors : StepTo(t, edit[t], edit'[t]) /\ OthersOf(t)
  BY StepIs
<1>2. ASSUME NEW s \in Editors
      PROVE  OwnPlan(s, edit'[s]) /\ (~edit'[s].wrote => ~edit[s].wrote)
  <2>1. CASE s = t
    <3>1. OwnPlan(s, edit[s]) /\ ValidEdit(s, edit[s]) /\ ValidAccount(acc) /\ NothingYet(edit[s])
      BY DEF EditInv, AllOrdered, Ordered, Unmade
    <3>. QED
      BY <1>1, <2>1, <3>1, OwnPlanStep, NotYetStep
  <2>2. CASE s # t
    <3>1. edit'[s].plan = edit[s].plan /\ edit'[s].wrote = edit[s].wrote
      BY <1>1, <2>2 DEF OthersOf, Overtaken, Same1, Parts
    <3>. QED
      BY <3>1 DEF Unmade, OwnPlan
  <2>. QED
    BY <2>1, <2>2
<1>3. ASSUME NEW s \in Editors, ~edit'[s].wrote
      PROVE  Absent(s, acc')
  <2>1. Absent(s, acc)
    BY <1>2, <1>3 DEF Unmade
  <2>2. CASE acc' = acc
    BY <2>1, <2>2
  <2>3. CASE \E r \in Editors : edit'[r].wrote /\ \E w \in edit[r].plan : Takes(r, w)
    <3>1. PICK r \in Editors : edit'[r].wrote /\ \E w \in edit[r].plan : Takes(r, w)
      BY <2>3
    <3>2. PICK w \in edit[r].plan : Takes(r, w)
      BY <3>1
    <3>3. w.new => w.id # s
      BY <1>3, <3>1 DEF Unmade, OwnPlan
    <3>4. ValidAccount(acc) /\ ValidWrite(w)
      BY DEF EditInv, ValidEdit
    <3>5. Accepts(acc, w) /\ acc' = Applied(acc, w, r)
      BY <3>2 DEF Takes
    <3>6. Absent(s, Applied(acc, w, r))
      BY <2>1, <3>3, <3>4, <3>5, AppliedAbsent
    <3>. QED
      BY <3>5, <3>6
  <2>. QED
    BY <2>2, <2>3, WriterIs
<1>. QED
  BY <1>2, <1>3 DEF Unmade

LEMMA UnmadeInit ==
  ASSUME EditInit
  PROVE  Unmade
<1>1. \A r \in Editors : edit[r] = Idle
  BY DEF EditInit
<1>2. \A r : OwnPlan(r, Idle)
  BY DEF Idle, OwnPlan
<1>3. ASSUME NEW r \in Editors
      PROVE  Absent(r, acc)
  BY EditConstants DEF EditInit, Absent
<1>. QED
  BY <1>1, <1>2, <1>3 DEF Unmade

-----------------------------------------------------------------------------
(* Where a save stands that shows a preview and that nobody else came      *)
(* between; s is the snapshot of the preview.                              *)

Told(r, q, a, s) ==
  /\ Single(q.make) => SingleTold(r, q.page, q.todo, q.plan, a, s)
  /\ q.make.kind = "peer" => PeerTold(q.make, q.page, q.plan, a)
  /\ q.make.kind = "user" => UserTold(q.make, q.page, q.todo, q.plan, a)
  /\ q.make.kind = "group" => GroupSaveTold(q.make, q.page, q.todo, q.plan, a)

Previewed(q) == q.alone /\ q.shown # None /\ ~DirectSource(q.make, q.page)

ShownOf(r, q) ==
  /\ Foretold(r, q.make, q.page) # None
  /\ q.shown = Delta(Snap(q.page), Foretold(r, q.make, q.page))

OnPlan(r, q, a) ==
  /\ q.pc = NextPc(q) /\ Tidy(q.todo) /\ q.snap = Snap(q.page) /\ PageOk(q.make, q.page)
  /\ Told(r, q, a, Foretold(r, q.make, q.page))

ToldOf(r, q, a) ==
  Previewed(q) =>
    /\ q.pc \in {"shown", "turn", "put", "saved"} => ShownOf(r, q)
    /\ q.pc \in {"turn", "put", "saved"} => OnPlan(r, q, a)

LEMMA ToldKinds ==
  ASSUME NEW r, NEW e, NEW page, FormOf(e), Foretold(r, e, page) # None
  PROVE  Single(e) \/ e.kind \in {"peer", "user", "group"}
<1>1. e.kind \notin {"new group", "toggle", "key", "bulk", "new key", "net", "new net", "router",
                     "new router"}
  <2>1. SUFFICES ASSUME e.kind \in {"new group", "toggle", "key", "bulk", "new key", "net",
                                    "new net", "router", "new router"}
                 PROVE  FALSE
    OBVIOUS
  <2>2. After(r, e, page, Snap(page), page) = None
    BY <2>1 DEF After
  <2>. QED
    BY <2>2 DEF Foretold
<1>2. e.kind \in {"group", "new group", "user", "peer", "toggle", "revoke", "allow", "policy",
                  "new policy", "key", "bulk", "new key", "net", "new net", "resource",
                  "new resource", "router", "new router", "restore", "delete"}
  BY DEF FormOf
<1>. QED
  BY ONLY <1>1, <1>2 DEF Single

LEMMA ToldOpens ==
  ASSUME NEW r, NEW q, NEW p, Opens(q, p)
  PROVE  ToldOf(r, p, acc')
  BY DEF Opens, ToldOf

LEMMA ToldPreviews ==
  ASSUME NEW r, NEW q, NEW p, Stands(r, q, acc), Previews(r, q, p)
  PROVE  ToldOf(r, p, acc')
<1>1. /\ q.pc = "open" /\ p.pc = "shown" /\ p.alone = q.alone
      /\ p.make = q.make /\ p.page = q.page
  BY DEF Previews, Same1, Parts
<1>2. ASSUME Previewed(p)
      PROVE  ShownOf(r, p)
  <2>1. q.page = acc
    BY <1>1, <1>2 DEF Previewed, Stands, OnPage
  <2>2. PICK snap \in {Snap(q.page), Snap(acc)} :
          \/ p.shown = None
          \/ /\ Shown(q.make, snap) /\ After(r, q.make, q.page, snap, acc) # None
             /\ p.shown = Delta(snap, After(r, q.make, q.page, snap, acc))
    BY DEF Previews
  <2>3. snap = Snap(q.page)
    BY <2>1
  <2>4. /\ After(r, q.make, q.page, Snap(q.page), q.page) # None
        /\ p.shown = Delta(Snap(q.page), After(r, q.make, q.page, Snap(q.page), q.page))
    BY <1>2, <2>1, <2>2, <2>3 DEF Previewed
  <2>. QED
    BY <1>1, <2>4 DEF ShownOf, Foretold
<1>. QED
  BY <1>1, <1>2 DEF ToldOf

LEMMA ToldSubmits ==
  ASSUME NEW r \in Editors, NEW q, NEW p, Stands(r, q, acc), ValidEdit(r, q), Absent(r, acc),
         ToldOf(r, q, acc), Submits(r, q, p)
  PROVE  ToldOf(r, p, acc')
<1>1. /\ q.pc = "shown" /\ acc' = acc /\ p.alone = q.alone /\ p.make = q.make /\ p.page = q.page
      /\ p.shown = q.shown /\ p.plan = q.plan /\ p.pc = NextPc(p)
      /\ p.snap \in {Snap(q.page), Snap(acc)} /\ p.todo = Jobs(r, q.make, q.page, p.snap)
  BY DEF Submits, Same1, Parts
<1>2. p.plan = {}
  BY <1>1 DEF ValidEdit
<1>3. ASSUME Previewed(p)
      PROVE  ShownOf(r, p) /\ OnPlan(r, p, acc)
  <2>1. ShownOf(r, q) /\ OnPage(q, acc)
    BY <1>1, <1>3 DEF Previewed, ToldOf, Stands
  <2>2. p.page = acc /\ PageOk(p.make, p.page) /\ p.snap = Snap(p.page)
    BY <1>1, <2>1 DEF OnPage
  <2>3. p.todo = Jobs(r, p.make, p.page, Snap(p.page))
    BY <1>1, <2>2
  <2>4. ShownOf(r, p)
    BY <1>1, <2>1 DEF ShownOf
  <2>5. Single(p.make) \/ p.make.kind \in {"peer", "user", "group"}
    BY <2>2, <2>4, ToldKinds DEF ShownOf, PageOk
  <2>6. ASSUME Single(p.make)
        PROVE  OneIn(p.todo.now) /\ p.todo.after = {}
    BY <2>3, <2>6, SingleJobs
  <2>7. Tidy(p.todo)
    <3>1. CASE Single(p.make)
      BY <2>6, <3>1 DEF Tidy
    <3>2. CASE p.make.kind \in {"peer", "user", "group"}
      BY <2>3, <3>2, JobsTidy DEF Judged, IsGroup
    <3>. QED
      BY <2>5, <3>1, <3>2
  <2>. DEFINE s == Foretold(r, p.make, p.page)
  <2>8. Single(p.make) => SingleTold(r, p.page, p.todo, p.plan, acc, s)
    BY <1>2, <2>2, <2>6 DEF SingleTold
  <2>9. p.make.kind = "peer" => PeerTold(p.make, p.page, p.plan, acc)
    BY <1>2, <2>2, PeerToldSubmit
  <2>10. p.make.kind = "user" => UserTold(p.make, p.page, p.todo, p.plan, acc)
    BY <1>2, <2>2, <2>3, UserToldSubmit
  <2>11. p.make.kind = "group" => GroupSaveTold(p.make, p.page, p.todo, p.plan, acc)
    BY <1>2, <2>2, <2>3, GroupToldSubmit
  <2>. HIDE DEF s
  <2>12. Told(r, p, acc, s)
    BY <2>8, <2>9, <2>10, <2>11 DEF Told
  <2>. QED
    BY <1>1, <2>2, <2>4, <2>7, <2>12 DEF OnPlan, s
<1>. QED
  BY <1>1, <1>3 DEF ToldOf

LEMMA ToldWorks ==
  ASSUME NEW r \in Editors, NEW q, NEW p, Stands(r, q, acc), ValidEdit(r, q), ValidAccount(acc),
         UsersSound(acc), ToldOf(r, q, acc), NEW job \in q.todo.now, WorksOn(r, q, p, job)
  PROVE  ToldOf(r, p, acc')
<1>1. /\ q.pc = "turn" /\ acc' = acc /\ p.alone = q.alone /\ p.make = q.make /\ p.page = q.page
      /\ p.shown = q.shown /\ p.snap = q.snap /\ p.pc = NextPc(p) /\ p.todo = Rest(q.todo, job)
      /\ Reads(q.make, job, acc)
      /\ p.plan = Writes(r, q, job, acc) /\ \A w \in p.plan : w.body # Bad
  BY DEF WorksOn, Same1, Parts
<1>2. q.plan = {} /\ JobOf(r, q.make, job) /\ q.make \in Edits
  BY <1>1 DEF ValidEdit
<1>3. Tidy(p.todo)
  BY <1>1, StagedIs DEF Rest, Tidy
<1>4. ASSUME Previewed(p)
      PROVE  ShownOf(r, p) /\ OnPlan(r, p, acc)
  <2>1. ShownOf(r, q) /\ OnPlan(r, q, acc) /\ q.alone /\ ~DirectSource(q.make, q.page)
    BY <1>1, <1>4 DEF Previewed, ToldOf
  <2>2. /\ q.snap = Snap(q.page) /\ PageOk(q.make, q.page)
        /\ Told(r, q, acc, Foretold(r, q.make, q.page))
    BY <2>1 DEF OnPlan
  <2>3. Judged(q.make) => Task(r, q, acc)
    BY <1>1, <2>1 DEF Stands, OnTask
  <2>4. ShownOf(r, p)
    BY <1>1, <2>1 DEF ShownOf
  <2>5. ASSUME Single(q.make)
        PROVE  SingleTold(r, q.page, p.todo, p.plan, acc, Foretold(r, q.make, q.page))
    <3>1. SingleTold(r, q.page, q.todo, {}, acc, Foretold(r, q.make, q.page))
      BY <1>2, <2>2, <2>5 DEF Told
    <3>2. Foretold(r, q.make, q.page) # None
      BY <2>1 DEF ShownOf
    <3>. QED
      BY <1>1, <1>2, <2>1, <2>2, <2>5, <3>1, <3>2, SingleToldWork
  <2>6. ASSUME q.make.kind = "peer"
        PROVE  PeerTold(q.make, q.page, p.plan, acc)
    <3>1. PeerTold(q.make, q.page, {}, acc) /\ PeerStands(q.make, q.page, q.todo, {}, acc)
      BY <1>2, <2>2, <2>3, <2>6 DEF Told, Judged, Task
    <3>. QED
      BY <1>1, <1>2, <2>2, <2>6, <3>1, PeerToldWork
  <2>7. ASSUME q.make.kind = "user"
        PROVE  UserTold(q.make, q.page, p.todo, p.plan, acc)
    <3>1. /\ UserTold(q.make, q.page, q.todo, {}, acc)
          /\ UserStands(q.make, q.page, q.want, q.todo, {}, acc)
      BY <1>2, <2>2, <2>3, <2>7 DEF Told, Judged, Task
    <3>2. acc.users[q.make.id] # Bad
      BY <3>1 DEF UserStands, UsersSound
    <3>. QED
      BY <1>1, <1>2, <2>2, <2>7, <3>1, <3>2, UserToldWork
  <2>8. ASSUME q.make.kind = "group"
        PROVE  GroupSaveTold(q.make, q.page, p.todo, p.plan, acc)
    <3>1. GroupSaveTold(q.make, q.page, q.todo, {}, acc)
      BY <1>2, <2>2, <2>8 DEF Told
    <3>. QED
      BY <1>1, <1>2, <2>2, <2>8, <3>1, GroupToldWork
  <2>9. Told(r, p, acc, Foretold(r, p.make, p.page))
    BY <1>1, <2>5, <2>6, <2>7, <2>8 DEF Told
  <2>. QED
    BY <1>1, <1>3, <2>2, <2>4, <2>9 DEF OnPlan
<1>. QED
  BY <1>1, <1>4 DEF ToldOf

LEMMA ToldMakes ==
  ASSUME NEW r, NEW q, NEW p, Stands(r, q, acc), ValidAccount(acc), ToldOf(r, q, acc),
         NEW w \in q.plan, Makes(r, q, p, w)
  PROVE  ToldOf(r, p, acc')
<1>1. /\ q.pc = "put" /\ p.alone = q.alone /\ p.make = q.make /\ p.page = q.page
      /\ p.shown = q.shown /\ p.snap = q.snap /\ p.pc = NextPc(p) /\ p.todo = q.todo
      /\ p.plan = q.plan \ {w}
  BY DEF Makes, Same1, Parts
<1>2. Accepts(acc, w) /\ acc' = Applied(acc, w, r)
  BY DEF Makes, Takes
<1>. DEFINE b == Applied(acc, w, r)
<1>3. ASSUME Previewed(p)
      PROVE  ShownOf(r, p) /\ OnPlan(r, p, b)
  <2>1. ShownOf(r, q) /\ OnPlan(r, q, acc) /\ q.alone
    BY <1>1, <1>3 DEF Previewed, ToldOf
  <2>2. /\ q.snap = Snap(q.page) /\ PageOk(q.make, q.page) /\ Tidy(q.todo)
        /\ Told(r, q, acc, Foretold(r, q.make, q.page))
    BY <2>1 DEF OnPlan
  <2>3. Judged(q.make) => Task(r, q, acc)
    BY <1>1, <2>1 DEF Stands, OnTask
  <2>4. ShownOf(r, p)
    BY <1>1, <2>1 DEF ShownOf
  <2>5. Single(q.make) => SingleTold(r, q.page, q.todo, p.plan, b, Foretold(r, q.make, q.page))
    BY <1>1, <1>2, <2>2, SingleToldMakes DEF Told
  <2>6. q.make.kind = "peer" => PeerTold(q.make, q.page, p.plan, b)
    BY <1>1, <2>2, PeerToldMakes DEF Told
  <2>7. ASSUME q.make.kind = "user"
        PROVE  UserTold(q.make, q.page, q.todo, p.plan, b)
    <3>1. /\ UserTold(q.make, q.page, q.todo, q.plan, acc)
          /\ UserStands(q.make, q.page, q.want, q.todo, q.plan, acc)
      BY <2>2, <2>3, <2>7 DEF Told, Judged, Task
    <3>. QED
      BY <1>1, <3>1, UserToldMakes
  <2>8. q.make.kind = "group" => GroupSaveTold(q.make, q.page, q.todo, p.plan, b)
    BY <1>1, <2>2, GroupToldMakes DEF Told
  <2>. HIDE DEF b
  <2>9. Told(r, p, b, Foretold(r, p.make, p.page))
    BY <1>1, <2>5, <2>6, <2>7, <2>8 DEF Told
  <2>. QED
    BY <1>1, <2>2, <2>4, <2>9 DEF OnPlan
<1>. HIDE DEF b
<1>4. ToldOf(r, p, b)
  BY <1>3 DEF ToldOf
<1>. QED
  BY <1>2, <1>4 DEF b

LEMMA ToldFails ==
  ASSUME NEW r, NEW q, NEW p, NEW job, ToldOf(r, q, acc), FailsAt(q, p, job)
  PROVE  ToldOf(r, p, acc')
<1>1. CASE q.make.kind # "bulk"
  <2>1. p.pc \in {"partial", "refused"}
    BY <1>1 DEF FailsAt, Answer
  <2>. QED
    BY <2>1 DEF ToldOf
<1>2. CASE q.make.kind = "bulk"
  <2>1. Foretold(r, q.make, q.page) = None
    <3>1. After(r, q.make, q.page, Snap(q.page), q.page) = None
      BY <1>2 DEF After
    <3>. QED
      BY <3>1 DEF Foretold
  <2>2. q.pc \in {"turn", "put"} /\ p.alone = q.alone /\ p.shown = q.shown /\ p.make = q.make
        /\ p.page = q.page
    BY DEF FailsAt
  <2>3. ~Previewed(q)
    BY <2>1, <2>2 DEF ToldOf, ShownOf
  <2>4. ~Previewed(p)
    BY <2>2, <2>3 DEF Previewed
  <2>. QED
    BY <2>4 DEF ToldOf
<1>. QED
  BY <1>1, <1>2

PreviewInv ==
  /\ HonestInv /\ Unmade
  /\ \A r \in Editors : ToldOf(r, edit[r], acc)

LEMMA ToldNext ==
  ASSUME PreviewInv, EditNext
  PROVE  \A r \in Editors : ToldOf(r, edit'[r], acc')
<1>1. PICK r \in Editors : StepTo(r, edit[r], edit'[r]) /\ OthersOf(r)
  BY StepIs DEF PreviewInv, HonestInv
<1>2. /\ ValidAccount(acc) /\ ValidEdit(r, edit[r]) /\ Stands(r, edit[r], acc) /\ UsersSound(acc)
      /\ ToldOf(r, edit[r], acc) /\ NothingYet(edit[r])
      /\ ~edit[r].wrote => Absent(r, acc)
  BY DEF PreviewInv, HonestInv, EditInv, Sound, AllOrdered, Ordered, Unmade
<1>3. Submits(r, edit[r], edit'[r]) => Absent(r, acc)
  BY <1>2 DEF Submits, NothingYet
<1>4. ToldOf(r, edit'[r], acc')
  BY <1>1, <1>2, <1>3, ToldOpens, ToldPreviews, ToldSubmits, ToldWorks, ToldMakes, ToldFails
     DEF StepTo
<1>5. ASSUME NEW s \in Editors \ {r}
      PROVE  ToldOf(s, edit'[s], acc')
  <2>1. CASE edit'[s] = edit[s] /\ acc' = acc
    BY <2>1 DEF PreviewInv
  <2>2. CASE Overtaken(edit[s], edit'[s])
    BY <2>2 DEF Overtaken, ToldOf, Previewed
  <2>. QED
    BY <1>1, <1>5, <2>1, <2>2 DEF OthersOf
<1>. QED
  BY <1>4, <1>5

LEMMA PreviewNext ==
  ASSUME PreviewInv, [EditNext]_editVars
  PROVE  PreviewInv'
<1>1. HonestInv'
  BY HonestNext DEF PreviewInv
<1>2. CASE EditNext
  <2>1. Unmade'
    BY <1>2, UnmadeNext DEF PreviewInv, HonestInv
  <2>2. \A r \in Editors : ToldOf(r, edit'[r], acc')
    BY <1>2, ToldNext
  <2>3. (\A r \in Editors : ToldOf(r, edit[r], acc))'
    BY <2>2
  <2>. QED
    BY <1>1, <2>1, <2>3 DEF PreviewInv
<1>3. CASE UNCHANGED editVars
  <2>1. Unmade' /\ (\A r \in Editors : ToldOf(r, edit[r], acc))'
    BY <1>3 DEF editVars, PreviewInv, Unmade
  <2>. QED
    BY <1>1, <2>1 DEF PreviewInv
<1>. QED
  BY <1>2, <1>3

LEMMA PreviewInit ==
  ASSUME EditInit
  PROVE  PreviewInv
<1>1. \A r \in Editors : edit[r] = Idle
  BY DEF EditInit
<1>2. \A r : ToldOf(r, Idle, acc)
  <2>1. Idle.pc = "none"
    BY DEF Idle
  <2>. QED
    BY <2>1 DEF ToldOf
<1>. QED
  BY <1>1, <1>2, HonestInit, UnmadeInit DEF PreviewInv

LEMMA SavedAsShown ==
  ASSUME PreviewInv, NEW r \in Editors, edit[r].pc = "saved", Previewed(edit[r])
  PROVE  edit[r].shown = Delta(Snap(edit[r].page), Snap(acc))
<1>. DEFINE q == edit[r]
            s == Foretold(r, q.make, q.page)
<1>1. ValidAccount(acc) /\ Stands(r, q, acc) /\ ToldOf(r, q, acc)
  BY DEF PreviewInv, HonestInv, EditInv
<1>2. ShownOf(r, q) /\ OnPlan(r, q, acc) /\ q.alone
  BY <1>1 DEF ToldOf, Previewed
<1>3. PageOk(q.make, q.page) /\ Told(r, q, acc, s)
  BY <1>2 DEF OnPlan
<1>4. q.plan = {} /\ Left(q.todo) = {}
  BY <1>2 DEF OnPlan, NextPc, Tidy, Left
<1>5. Judged(q.make) => Task(r, q, acc)
  BY <1>1, <1>2 DEF Stands, OnTask
<1>6. Single(q.make) \/ q.make.kind \in {"peer", "user", "group"}
  BY <1>2, <1>3, ToldKinds DEF ShownOf, PageOk
<1>. HIDE DEF q
<1>7. CASE Single(q.make)
  <2>1. SingleTold(r, q.page, q.todo, {}, acc, s)
    BY <1>3, <1>4, <1>7 DEF Told
  <2>. HIDE DEF s
  <2>2. q.todo.now = {}
    BY <1>4 DEF Left
  <2>3. ~OneIn({})
    BY DEF OneIn
  <2>4. AccessSet(Snap(acc)) = AccessSet(s)
    BY ONLY <2>1, <2>2, <2>3 DEF SingleTold
  <2>. QED
    BY <1>2, <2>4 DEF ShownOf, Delta, s, q
<1>8. CASE q.make.kind = "peer"
  <2>1. PeerTold(q.make, q.page, {}, acc) /\ PeerStands(q.make, q.page, q.todo, {}, acc)
    BY <1>3, <1>4, <1>5, <1>8 DEF Told, Judged, Task
  <2>2. AccessSet(Snap(acc)) = AccessSet(s)
    BY <1>1, <1>3, <1>4, <1>8, <2>1, PeerToldDone
  <2>. HIDE DEF s
  <2>. QED
    BY <1>2, <2>2 DEF ShownOf, Delta, s, q
<1>9. CASE q.make.kind = "user"
  <2>1. /\ UserTold(q.make, q.page, q.todo, {}, acc)
        /\ UserStands(q.make, q.page, q.want, q.todo, {}, acc)
    BY <1>3, <1>4, <1>5, <1>9 DEF Told, Judged, Task
  <2>2. AccessSet(Snap(acc)) = AccessSet(s)
    BY <1>1, <1>3, <1>4, <1>9, <2>1, UserToldDone
  <2>. HIDE DEF s
  <2>. QED
    BY <1>2, <2>2 DEF ShownOf, Delta, s, q
<1>10. CASE q.make.kind = "group"
  <2>. DEFINE pick == Picked(q.make, q.page, q.make.id)
              first == <<"group", q.make.id>>
  <2>1. GroupSaveTold(q.make, q.page, q.todo, {}, acc)
    BY <1>3, <1>4, <1>10 DEF Told
  <2>2. GroupTask(r, q, acc)
    BY <1>5, <1>10 DEF Judged, Task, IsGroup
  <2>3. GroupStands(q.make, pick, q.make.id, FormPeers(q.make, q.page), first, q.todo, {}, acc)
    BY <1>4, <1>10, <2>2 DEF GroupTask
  <2>4. AccessSet(Snap(acc)) = AccessSet(s)
    BY <1>1, <1>3, <1>4, <1>10, <2>1, <2>3, GroupToldDone
  <2>. HIDE DEF s
  <2>. QED
    BY <1>2, <2>4 DEF ShownOf, Delta, s, q
<1>. QED
  BY <1>6, <1>7, <1>8, <1>9, <1>10

(* The preview of every page is true: what it showed that would be reached *)
(* and no longer be reached is what the saved edit changed, if nobody else *)
(* changed anything between the page and the answer. Left out are policies *)
(* with a direct source, which the page shows without it.                  *)
THEOREM PreviewsAreTrue == EditSpec => []PreviewTrue
<1>1. EditInit => PreviewInv
  BY PreviewInit
<1>2. PreviewInv /\ [EditNext]_editVars => PreviewInv'
  BY PreviewNext
<1>3. PreviewInv => PreviewTrue
  BY SavedAsShown DEF PreviewTrue, Previewed
<1>. QED
  BY <1>1, <1>2, <1>3, PTL DEF EditSpec
=============================================================================
