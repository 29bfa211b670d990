------------------------------ MODULE Payloads ------------------------------
(***************************************************************************)
(* The bodies birdseye-web sends to NetBird (birdseye_web/payloads.py), and *)
(* how an editor makes one from what the user changed and what NetBird     *)
(* answers just before the write: the three-way rules of routes_users.py,  *)
(* peers.py and diff.py, the policy editor (routes_policies.py), one-click *)
(* edits of the matrix (quickedit.py) and restores from the history        *)
(* (restore.py). Nothing here has state.                                   *)
(*                                                                         *)
(* What is refused here (PayloadError) is Bad: no write is made of it.     *)
(***************************************************************************)
EXTENDS Access

CONSTANTS
  Bad,      \* PayloadError
  Same,     \* a field the form does not carry
  Postures  \* the posture checks there are

ASSUME PayloadConstants == Same # None

(* In place of a body: the object is deleted.                              *)
Gone == [gone |-> TRUE]

(* The id of a rule says who made it, and which it is; a new rule has none. *)
NoId == <<None, None>>

Protocols == {"all", "tcp", "udp", "icmp", "netbird-ssh"}
Ported == {"tcp", "udp"}
Roles == {"admin", "network_admin", "user", "auditor", "billing_admin"}
LastPort == 65535
MaxKeyDays == 365

Or(given, kept) == IF given = Same THEN kept ELSE given

-----------------------------------------------------------------------------
(* Slips: plausible errors, none of which is in the code.                  *)

(* The whole list of the form, as it was shown.                            *)
WholeForm(current, selected, initial, editable) == selected

(* The direct source is kept beside the groups that the user picked.       *)
KeepsBoth(before, body) ==
  [body EXCEPT !.rules = {[r EXCEPT !.srcRef =
     IF \E b \in before.rules : b.id = r.id THEN (CHOOSE b \in before.rules : b.id = r.id).srcRef
     ELSE None] : r \in @}]

-----------------------------------------------------------------------------
(* Groups, users, peers, keys. In the forms that show what was checked,    *)
(* only the user's own change is applied to what NetBird answers now.      *)

GroupBody(named, peers, resources) ==
  IF named THEN [peers |-> peers, resources |-> resources] ELSE Bad

(* UserForm.auto_groups, group_edit: the change, not the whole form.       *)
Edited(current, selected, initial, editable) ==
  LET sel == selected \cap editable
      init == initial \cap editable
  IN  (current \ (init \ sel)) \cup (sel \ init)

(* Users that gain or lose a group; service users are not in the form.     *)
UserGroupChanges(selected, initial) ==
  [added |-> (selected \ initial) \ ServiceUsers,
   removed |-> (initial \ selected) \ ServiceUsers]

UserBody(fresh, auto, role, blocked) ==
  LET new == Or(role, fresh.role)
  IN  IF new # fresh.role /\ ~({new, fresh.role} \subseteq Roles) THEN Bad
      ELSE [role |-> new, auto |-> auto, blocked |-> Or(blocked, fresh.blocked)]

(* The form has no field for the inactivity expiry; approval only clears.  *)
PeerBody(fresh, conf, approved) ==
  [fresh EXCEPT !.conf = Or(conf, @), !.waits = @ /\ ~approved]

KeyBody(fresh, groups, revoke) ==
  [groups |-> groups, revoked |-> fresh.revoked \/ revoke]

NewKeyBody(days, limit, groups) ==
  IF days \in 1..MaxKeyDays /\ limit >= 0 THEN [groups |-> groups, revoked |-> FALSE] ELSE Bad

ResourceBody(nid, conf, groups) ==
  IF groups = {} THEN Bad ELSE [net |-> nid, conf |-> conf, groups |-> groups]

NetBody(conf) == [conf |-> conf]

(* One routing peer or groups of them, never both.                         *)
RouterBody(peer, groups, on) ==
  IF (peer # None) <=> (groups # {}) THEN Bad
  ELSE [peer |-> peer, groups |-> groups, on |-> on]

-----------------------------------------------------------------------------
(* Policies. An editor rule has the ports as the tokens of its text, and   *)
(* no fields for a direct source and for authorized_groups.                *)

PortsOk(tokens, protocol) ==
  /\ \A t \in tokens : t[1] \in 1..LastPort /\ t[2] \in t[1]..LastPort
  /\ tokens # {} => protocol \in Ported

BuildRule(r) ==
  IF \/ r.src = {}
     \/ r.dst = {} /\ r.dstRef = None
     \/ r.protocol \notin Protocols
     \/ ~PortsOk(r.tokens, r.protocol)
  THEN Bad
  ELSE [id |-> r.id, on |-> r.on, both |-> r.both, auth |-> {},
        svc |-> [protocol |-> r.protocol, ports |-> r.tokens],
        src |-> r.src, srcRef |-> None,
        dst |-> IF r.dstRef = None THEN r.dst ELSE {}, dstRef |-> r.dstRef]

(* _raw_policy: what the editor shows of a rule.                           *)
EditorRule(rule) ==
  [id |-> rule.id, on |-> rule.on, both |-> rule.both, src |-> rule.src,
   dst |-> rule.dst, dstRef |-> rule.dstRef,
   protocol |-> rule.svc.protocol, tokens |-> rule.svc.ports]

PolicyFromForm(form) ==
  LET rules == {BuildRule(r) : r \in form.rules}
  IN  IF rules = {} \/ Bad \in rules THEN Bad
      ELSE [conf |-> form.conf, on |-> form.on, posture |-> form.posture, rules |-> rules]

(* rule_for_put: a direct reference takes the place of the groups.         *)
RuleForPut(rule) ==
  [rule EXCEPT !.src = IF rule.srcRef = None THEN @ ELSE {},
               !.dst = IF rule.dstRef = None THEN @ ELSE {}]

PolicyForPut(pol) == [pol EXCEPT !.rules = {RuleForPut(r) : r \in @}]

(* Keeps the rule fields that the editor does not show.                    *)
CarryOver(before, body) ==
  LET prev(r) == {b \in before.rules : b.id = r.id /\ r.id # NoId}
      auth(r) == UNION {b.auth : b \in prev(r)}
      direct(r) == {b.srcRef : b \in prev(r)} \ {None}
  IN  [body EXCEPT !.rules =
         {[r EXCEPT !.auth = auth(r),
                    !.src = IF direct(r) = {} THEN @ ELSE {},
                    !.srcRef = IF direct(r) = {} THEN @ ELSE CHOOSE x \in direct(r) : TRUE]
            : r \in @}]

(* quickedit.py: the rule without one of a side, None when nothing is left *)
(* on that side.                                                           *)
Without(rule, side, target) ==
  LET ids == IF side = "source" THEN rule.src ELSE rule.dst
      ref == IF side = "source" THEN rule.srcRef ELSE rule.dstRef
  IN  IF ref # None THEN IF ref = target THEN None ELSE Bad
      ELSE IF target \notin ids THEN Bad
      ELSE IF ids = {target} THEN None
      ELSE IF side = "source" THEN [rule EXCEPT !.src = @ \ {target}]
      ELSE [rule EXCEPT !.dst = @ \ {target}]

Revoke(pol, rid, mode, target) ==
  LET rule == CHOOSE r \in pol.rules : r.id = rid
      side == IF mode = "remove_source" THEN "source" ELSE "destination"
      kept == Without(RuleForPut(rule), side, target)
      rules == (pol.rules \ {rule}) \cup ({kept} \ {None})
  IN  IF ~(\E r \in pol.rules : r.id = rid) THEN Bad
      ELSE IF mode = "delete" THEN Gone
      ELSE IF mode = "disable" THEN PolicyForPut([pol EXCEPT !.on = FALSE])
      ELSE IF kept = Bad THEN Bad
      ELSE IF rules = {} THEN Gone ELSE PolicyForPut([pol EXCEPT !.rules = rules])

(* allow_policy: a group may reach a group, a resource or a peer.          *)
AllowPolicy(src, dst, svc) ==
  LET rule == [id |-> NoId, on |-> TRUE, both |-> FALSE, src |-> {src} \cap Groups,
               dst |-> {dst} \cap Groups,
               dstRef |-> IF dst \in Groups THEN None ELSE dst,
               protocol |-> svc.protocol, tokens |-> svc.ports]
  IN  PolicyFromForm([conf |-> "matrix", on |-> TRUE, posture |-> {}, rules |-> {rule}])

-----------------------------------------------------------------------------
(* restore.py: an object of the history, put back or made again.           *)

PolicyProblems(snap, pol) ==
  LET refs == (UNION {{r.srcRef, r.dstRef} : r \in pol.rules}) \ {None}
      gids == UNION {r.src \cup r.dst : r \in pol.rules}
  IN  \/ ~(gids \subseteq DOMAIN snap.groups)
      \/ ~(refs \subseteq DOMAIN snap.peers \cup DOMAIN snap.resources)
      \/ ~(pol.posture \subseteq Postures)

(* A policy that would grant something else than it did is not restored; a *)
(* policy that is made again has rules without ids.                        *)
RestorePolicy(snap, id, pol) ==
  LET body == PolicyForPut(pol)
      anew == [body EXCEPT !.rules = {[r EXCEPT !.id = NoId] : r \in @}]
  IN  IF PolicyProblems(snap, pol) THEN Bad
      ELSE IF id \in DOMAIN snap.policies THEN body ELSE anew

(* A group comes back without the peers and resources that are gone.       *)
RestoreGroup(snap, id, group) ==
  IF id = AllGroup THEN Bad
  ELSE [peers |-> group.peers \cap DOMAIN snap.peers,
        resources |-> group.resources \cap DOMAIN snap.resources]

(* What the preview shows of it.                                           *)
AfterRestore(snap, type, id, body) ==
  IF type = "policies" THEN WithPolicy(snap, id, body)
  ELSE LET empty == [peers |-> {}, resources |-> {}]
           base == IF id \in DOMAIN snap.groups THEN snap
                   ELSE [snap EXCEPT !.groups = Upsert(@, id, empty)]
       IN  WithGroupResources(WithGroupMembers(base, id, body.peers), id, body.resources)
=============================================================================
