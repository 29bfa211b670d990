---------------------------- MODULE Maintenance -----------------------------
(***************************************************************************)
(* The account reconcilers: netbird_maintenance.py runs manage_posture.py  *)
(* (a posture check on every policy) and then allow_ping.py (an ICMP       *)
(* companion, named "ZPING: ...", of every policy); both also run by hand, *)
(* as does cleanup_ephemeral.py (peers that went away).                    *)
(*                                                                         *)
(* A step lists the account once and then makes its writes one after the   *)
(* other from that list; users, devices and other runs change the account  *)
(* meanwhile. A policy is [name, comp, marks, on, checks, rules]: comp says *)
(* that its name has the prefix, marks are the words of its description    *)
(* that matter, rules has each rule at its place in the list.              *)
(***************************************************************************)
EXTENDS Naturals, Sequences, FiniteSets, TLC

CONSTANTS
  PolicyIds,      \* ids of policies
  Starts,         \* the policies to begin with
  Devices,        \* the peers to begin with
  Runners,        \* bound: the runs, one each
  Orders,         \* what a run is told
  Deeds,          \* what users do: [id, pol], pol is Nothing to delete
  MaxDeeds,       \* bound: changes by users and devices
  MaxErrors,      \* bound: API calls that fail
  Check, Checks,  \* the posture check to attach, and those there are
  Nothing

(* What a policy is made of.                                               *)
IsRule(r) ==
  r = [protocol |-> r.protocol, src |-> r.src, srcRef |-> r.srcRef,
       dst |-> r.dst, dstRef |-> r.dstRef, both |-> r.both, on |-> r.on]

IsPolicy(pol) ==
  /\ pol = [name |-> pol.name, comp |-> pol.comp, marks |-> pol.marks, on |-> pol.on,
            checks |-> pol.checks, rules |-> pol.rules]
  /\ pol.comp \in BOOLEAN
  /\ DOMAIN pol.rules \subseteq Nat /\ pol.rules = [n \in DOMAIN pol.rules |-> pol.rules[n]]
  /\ \A n \in DOMAIN pol.rules : IsRule(pol.rules[n])

ArePolicies(seen) ==
  /\ DOMAIN seen \subseteq PolicyIds /\ seen = [id \in DOMAIN seen |-> seen[id]]
  /\ \A id \in DOMAIN seen : IsPolicy(seen[id])

IsOrder(order) ==
  /\ order.posture \in {"none", "add", "remove"} /\ order.ping \in {"none", "ping", "remove"}
  /\ order.sweep \in BOOLEAN /\ order.dry \in BOOLEAN /\ order.cron \in BOOLEAN

AreDevices(seen) ==
  /\ DOMAIN seen \subseteq DOMAIN Devices /\ seen = [p \in DOMAIN seen |-> seen[p]]
  /\ \A p \in DOMAIN seen : seen[p] \in [eph : BOOLEAN, conn : BOOLEAN, seen : {"old", "now"}]

ASSUME MaintenanceConstants ==
  /\ Nothing \notin Runners \cup PolicyIds /\ MaxDeeds \in Nat /\ MaxErrors \in Nat
  /\ \A seen \in Starts : ArePolicies(seen)
  /\ AreDevices(Devices)
  /\ \A d \in Deeds : d.id \in PolicyIds /\ (d.pol # Nothing => IsPolicy(d.pol))
  /\ \A order \in Orders : IsOrder(order)

VARIABLES
  pols,     \* [id -> policy]
  devices,  \* [device -> [eph, conn, seen]]
  run,      \* [Runners -> the state of the run]
  report,   \* what the monitoring was told last
  deeds, errors

maintenanceVars == <<pols, devices, run, report, deeds, errors>>

Asleep == [pc |-> "none", order |-> Nothing, steps |-> <<>>, todo |-> {},
           failed |-> FALSE, calm |-> TRUE]

-----------------------------------------------------------------------------
(* Slips: plausible errors, none of which is in the code.                  *)

(* The companion does not take the marker of its original.                 *)
NoMarker(pol) == {"auto"}

-----------------------------------------------------------------------------
(* f with v at x, which may be new to it, and f without x.                 *)
With(f, x, v) == [y \in DOMAIN f \cup {x} |-> IF y = x THEN v ELSE f[y]]

Less(f, x) == [y \in DOMAIN f \ {x} |-> f[y]]

-----------------------------------------------------------------------------
(* manage_posture.py                                                       *)

SkipsPosture(pol) == "POSTURE_IGNORE" \in pol.marks

(* A direct reference takes the place of the groups.                       *)
PutRule(rule) ==
  [rule EXCEPT !.src = IF rule.srcRef = Nothing THEN @ ELSE {},
               !.dst = IF rule.dstRef = Nothing THEN @ ELSE {}]

NewChecks(order, pol) ==
  IF order.posture = "add" THEN pol.checks \cup {Check} ELSE pol.checks \ {Check}

(* --rule gives the whole name, with the prefix if it has it.              *)
Targets(order, seen) ==
  {id \in DOMAIN seen : order.only \in {Nothing, <<seen[id].comp, seen[id].name>>}}

AttachWrites(order, seen) ==
  LET changes(id) == /\ order.posture = "add" => ~SkipsPosture(seen[id])
                     /\ NewChecks(order, seen[id]) # seen[id].checks
      body(id) == [seen[id] EXCEPT !.checks = NewChecks(order, seen[id]),
                                   !.rules = [n \in DOMAIN @ |-> PutRule(@[n])]]
  IN  {[op |-> "put", id |-> id, pol |-> body(id)]
        : id \in {x \in Targets(order, seen) : changes(x)}}

-----------------------------------------------------------------------------
(* allow_ping.py                                                           *)

SkipsPing(pol) == "PING_IGNORE" \in pol.marks

EndpointKey(rule) ==
  <<IF rule.srcRef # Nothing THEN {rule.srcRef} ELSE rule.src,
    IF rule.dstRef # Nothing THEN {rule.dstRef} ELSE rule.dst>>

OtherRules(pol) == {n \in DOMAIN pol.rules : pol.rules[n].protocol \notin {"all", "icmp"}}

(* The places of the rules to mirror: of rules with the same ends, the     *)
(* first.                                                                  *)
Qualifying(pol) ==
  {n \in OtherRules(pol) : \A m \in OtherRules(pol) :
     m < n => EndpointKey(pol.rules[m]) # EndpointKey(pol.rules[n])}

(* A policy that should have a companion.                                  *)
Wants(pol) == ~SkipsPing(pol) /\ Qualifying(pol) # {}

CompanionMarks(pol) == {"auto"} \cup (pol.marks \cap {"POSTURE_IGNORE"})

MirrorRule(rule) == [PutRule(rule) EXCEPT !.protocol = "icmp", !.on = TRUE]

(* The companion a policy should have. Its rules are enabled whatever the  *)
(* mirrored ones are.                                                      *)
PingPayload(pol) ==
  [name |-> pol.name, comp |-> TRUE, marks |-> CompanionMarks(pol), on |-> pol.on,
   checks |-> pol.checks, rules |-> [n \in Qualifying(pol) |-> MirrorRule(pol.rules[n])]]

RuleSignature(rule) == <<rule.protocol, rule.src, rule.dst, rule.both, rule.on>>

(* What is compared to tell drift: of the rules neither the order nor the  *)
(* direct references.                                                      *)
Signature(pol) ==
  LET same(sig) == {n \in DOMAIN pol.rules : RuleSignature(pol.rules[n]) = sig}
  IN  <<pol.on, pol.marks, pol.checks,
        [sig \in {RuleSignature(pol.rules[n]) : n \in DOMAIN pol.rules} |-> Cardinality(same(sig))]>>

(* Policies by name: of several with the same name the last in the list.   *)
Named(seen, comp) ==
  [name \in {seen[id].name : id \in {x \in DOMAIN seen : seen[x].comp = comp}} |->
     CHOOSE id \in DOMAIN seen : seen[id].comp = comp /\ seen[id].name = name]

Creations(seen) ==
  LET missing == {id \in DOMAIN seen : /\ ~seen[id].comp /\ Wants(seen[id])
                                       /\ seen[id].name \notin DOMAIN Named(seen, TRUE)}
  IN  {[op |-> "post", id |-> id, pol |-> PingPayload(seen[id])] : id \in missing}

CompanionWrites(seen, name) ==
  LET id == Named(seen, TRUE)[name]
      original == seen[Named(seen, FALSE)[name]]
  IN  IF name \notin DOMAIN Named(seen, FALSE) \/ ~Wants(original)
      THEN {[op |-> "delete", id |-> id, pol |-> seen[id]]}
      ELSE IF Signature(seen[id]) = Signature(PingPayload(original)) THEN {}
      ELSE {[op |-> "put", id |-> id, pol |-> PingPayload(original)]}

PingWrites(seen) == Creations(seen) \cup UNION {CompanionWrites(seen, n) : n \in DOMAIN Named(seen, TRUE)}

RemoveWrites(seen) ==
  {[op |-> "delete", id |-> id, pol |-> seen[id]] : id \in {x \in DOMAIN seen : seen[x].comp}}

-----------------------------------------------------------------------------
(* cleanup_ephemeral.py                                                    *)

ShouldDelete(peer) == peer.eph /\ ~peer.conn /\ peer.seen = "old"

SweepWrites(seen) ==
  {[op |-> "sweep", id |-> p, pol |-> Nothing] : p \in {x \in DOMAIN seen : ShouldDelete(seen[x])}}

-----------------------------------------------------------------------------
(* A run and its steps.                                                    *)

StepsOf(order) ==
  LET posture == IF order.posture = "none" THEN <<>> ELSE <<"posture">>
      ping == IF order.ping = "none" THEN <<>> ELSE <<order.ping>>
      sweep == IF order.sweep THEN <<"sweep">> ELSE <<>>
  IN  posture \o ping \o sweep

StepWrites(order, step) ==
  CASE step = "posture" -> AttachWrites(order, pols)
    [] step = "ping" -> PingWrites(pols)
    [] step = "remove" -> RemoveWrites(pols)
    [] step = "sweep" -> SweepWrites(devices)

(* A step that cannot begin: the check or the policy it is told is missing. *)
Refuses(order, step) ==
  /\ step = "posture"
  /\ Check \notin Checks \/ (order.only # Nothing /\ Targets(order, pols) = {})

MaintenanceInit ==
  /\ pols \in Starts /\ devices = Devices
  /\ run = [x \in Runners |-> Asleep]
  /\ report = "none" /\ deeds = 0 /\ errors = 0

Disturbed(x) == [y \in Runners |-> IF y = x THEN run[y] ELSE [run[y] EXCEPT !.calm = FALSE]]

RunStarts(x, order) ==
  /\ run[x].pc = "none"
  /\ run' = [run EXCEPT ![x] = [Asleep EXCEPT !.pc = "list", !.order = order,
                                              !.steps = StepsOf(order)]]
  /\ UNCHANGED <<pols, devices, report, deeds, errors>>

(* The step that failed is over, the next one begins all the same.         *)
GivesUp(q) == [q EXCEPT !.pc = "end", !.todo = {}, !.failed = TRUE]

ListAccount(x) ==
  /\ run[x].pc = "list" /\ run[x].steps # <<>>
  /\ LET q == run[x]
         step == Head(q.steps)
         writes == StepWrites(q.order, step)
     IN  run' = [run EXCEPT ![x] =
           IF Refuses(q.order, step) THEN GivesUp(q)
           ELSE IF writes = {} \/ q.order.dry THEN [q EXCEPT !.pc = "end"]
           ELSE [q EXCEPT !.pc = "write", !.todo = writes]]
  /\ UNCHANGED <<pols, devices, report, deeds, errors>>

(* Companions are created before the others are compared.                  *)
Ready(todo) ==
  IF \E w \in todo : w.op = "post" THEN {w \in todo : w.op = "post"} ELSE todo

Vanished(w) ==
  CASE w.op = "post" -> FALSE
    [] w.op = "sweep" -> w.id \notin DOMAIN devices
    [] OTHER -> w.id \notin DOMAIN pols

Effect(w) ==
  /\ ~Vanished(w)
  /\ CASE w.op = "post" ->
            /\ PolicyIds \ DOMAIN pols # {}
            /\ pols' = With(pols, CHOOSE id \in PolicyIds : id \notin DOMAIN pols, w.pol)
       [] w.op = "put" -> pols' = With(pols, w.id, w.pol)
       [] w.op = "delete" -> pols' = Less(pols, w.id)
       [] OTHER -> UNCHANGED pols
  /\ devices' = IF w.op = "sweep" THEN Less(devices, w.id) ELSE devices

MakeWrite(x) ==
  /\ run[x].pc = "write"
  /\ \E w \in Ready(run[x].todo) :
       /\ Effect(w)
       /\ run' = [Disturbed(x) EXCEPT ![x].todo = @ \ {w},
                    ![x].pc = IF run[x].todo = {w} THEN "end" ELSE "write"]
  /\ UNCHANGED <<report, deeds, errors>>

(* A call fails: NetBird does not answer, or what it is about is gone.     *)
CallFails(x) ==
  /\ run[x].pc \in {"list", "write"} /\ run[x].steps # <<>>
  /\ IF \E w \in Ready(run[x].todo) : Vanished(w) THEN UNCHANGED errors
     ELSE errors < MaxErrors /\ errors' = errors + 1
  /\ run' = [run EXCEPT ![x] = GivesUp(@)]
  /\ UNCHANGED <<pols, devices, report, deeds>>

StepEnds(x) ==
  /\ run[x].pc = "end"
  /\ run' = [run EXCEPT ![x].steps = Tail(@), ![x].pc = "list"]
  /\ UNCHANGED <<pols, devices, report, deeds, errors>>

(* A scheduled run tells the monitoring; a dry run only that it failed.    *)
RunEnds(x) ==
  /\ run[x].pc = "list" /\ run[x].steps = <<>>
  /\ run' = [run EXCEPT ![x].pc = "done"]
  /\ report' = IF ~run[x].order.cron THEN report
               ELSE IF run[x].failed THEN "CRIT"
               ELSE IF run[x].order.dry THEN report ELSE "OK"
  /\ UNCHANGED <<pols, devices, deeds, errors>>

(* A user changes, adds or deletes a policy.                               *)
UserActs(d) ==
  /\ deeds < MaxDeeds /\ deeds' = deeds + 1
  /\ IF d.pol = Nothing
     THEN d.id \in DOMAIN pols /\ pols' = Less(pols, d.id)
     ELSE pols' = With(pols, d.id, d.pol)
  /\ run' = Disturbed(Nothing)
  /\ UNCHANGED <<devices, report, errors>>

(* A device connects, or is away long enough.                              *)
DeviceActs(p) ==
  /\ deeds < MaxDeeds /\ deeds' = deeds + 1
  /\ devices' = [devices EXCEPT ![p].conn = ~@, ![p].seen = IF devices[p].conn THEN "old" ELSE "now"]
  /\ run' = Disturbed(Nothing)
  /\ UNCHANGED <<pols, report, errors>>

MaintenanceNext ==
  \/ \E x \in Runners :
       \/ \E order \in Orders : RunStarts(x, order)
       \/ ListAccount(x) \/ MakeWrite(x) \/ CallFails(x) \/ StepEnds(x) \/ RunEnds(x)
  \/ \E d \in Deeds : UserActs(d)
  \/ \E p \in DOMAIN devices : DeviceActs(p)

MaintenanceSpec == MaintenanceInit /\ [][MaintenanceNext]_maintenanceVars

-----------------------------------------------------------------------------
(* Properties.                                                             *)

Originals == {id \in DOMAIN pols : ~pols[id].comp}

OneOfEachName ==
  \A i, j \in DOMAIN pols :
    (pols[i].name = pols[j].name /\ pols[i].comp = pols[j].comp) => i = j

(* The companion z lets ICMP through exactly where its original o lets the *)
(* other protocols through, under the same checks.                         *)
Mirrors(z, o) ==
  LET ends(pol) == {EndpointKey(pol.rules[n]) : n \in DOMAIN pol.rules}
      other(pol) == {EndpointKey(pol.rules[n]) : n \in OtherRules(pol)}
  IN  /\ z.name = o.name /\ z.on = o.on /\ z.checks = o.checks
      /\ ends(z) = other(o)
      /\ \A n \in DOMAIN z.rules : z.rules[n].protocol = "icmp"

Mirrored ==
  LET wants(o) == "PING_IGNORE" \notin o.marks /\ OtherRules(o) # {}
  IN  /\ \A i \in Originals : wants(pols[i]) =>
           \E j \in DOMAIN pols : pols[j].comp /\ Mirrors(pols[j], pols[i])
      /\ \A j \in DOMAIN pols \ Originals :
           \E i \in Originals : wants(pols[i]) /\ Mirrors(pols[j], pols[i])

(* Rules that name a peer or a resource directly: their change in a        *)
(* companion is not seen.                                                  *)
NoDirect ==
  \A i \in DOMAIN pols : \A n \in DOMAIN pols[i].rules :
    pols[i].rules[n].srcRef = Nothing /\ pols[i].rules[n].dstRef = Nothing

(* The reconcilers settle. After a run that nothing disturbed and no call  *)
(* failed in, every policy that should have a companion has one that       *)
(* mirrors it, every companion has its original, and the same run again    *)
(* would write nothing ("Without this the two reconcilers fight each other *)
(* once an hour", allow_ping.py:128). Nor does it find a peer to delete.   *)
Settles ==
  \A x \in Runners :
    LET q == run[x]
    IN  (q.pc = "done" /\ q.calm /\ ~q.failed /\ ~q.order.dry /\ OneOfEachName) =>
          /\ \A n \in DOMAIN StepsOf(q.order) : StepWrites(q.order, StepsOf(q.order)[n]) = {}
          /\ q.order.ping = "ping" /\ NoDirect => Mirrored

MaintenanceTypes ==
  /\ DOMAIN pols \subseteq PolicyIds /\ DOMAIN devices \subseteq DOMAIN Devices
  /\ report \in {"none", "OK", "CRIT"} /\ deeds \in 0..MaxDeeds /\ errors \in 0..MaxErrors
  /\ \A x \in Runners :
       /\ run[x].pc \in {"none", "list", "write", "end", "done"}
       /\ (run[x].todo # {}) <=> (run[x].pc = "write")
       /\ \A w \in run[x].todo : w.op = "post" => w.pol.comp
=============================================================================
