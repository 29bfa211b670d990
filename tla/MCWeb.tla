------------------------------- MODULE MCWeb --------------------------------
(* Instances of WebEdit, Maintenance and Sessions for TLC: three parts that *)
(* share no state here, checked in one run. A behaviour is one of them.    *)
EXTENDS WebEdit, Maintenance, Sessions

CONSTANTS
  all, eng, db, idp,   \* groups; the identity provider writes idp
  ann, bob, bot,       \* users; bot is a service user
  a1, b1, box,         \* peers: a device of ann, one of bob, a server
  web,                 \* a resource
  lan, hop,            \* a network and its router
  sshd, dir,            \* policies; dir has a rule with a direct source
  live, dead,          \* setup keys, one of them revoked
  ed1, ed2,            \* editors
  m1, m2, m3, m4, m5, m6, m7, m8,  \* policies of the reconcilers
  cron, hand,          \* a scheduled run and one by hand
  tab,                 \* an ephemeral peer
  gate,                \* the posture check
  phone                \* a browser

AllGroups == {all, eng, db, idp}
AllPeers == {a1, b1, box}
AllUsers == {ann, bob, bot}
OnlyIdp == {idp}
OnlyBot == {bot}
OnlyWeb == {web}
TwoEditors == {ed1, ed2}
OneCheck == {"os"}

Ssh == [protocol |-> "tcp", ports |-> {<<22, 22>>}]
AnyService == [protocol |-> "all", ports |-> {}]

r1 == <<None, "r1">>

OneRule(src, srcRef, dst, dstRef, svc) ==
  [id |-> r1, on |-> TRUE, both |-> FALSE, auth |-> {"login"}, svc |-> svc,
   src |-> src, srcRef |-> srcRef, dst |-> dst, dstRef |-> dstRef]

Start ==
  [groups |-> all :> [peers |-> {a1, b1, box}, resources |-> {}]
              @@ eng :> [peers |-> {a1}, resources |-> {}]
              @@ db :> [peers |-> {box}, resources |-> {web}]
              @@ idp :> [peers |-> {a1}, resources |-> {}],
   users |-> ann :> [auto |-> {eng, idp}, role |-> "user", blocked |-> FALSE]
             @@ bob :> [auto |-> {eng}, role |-> "user", blocked |-> FALSE]
             @@ bot :> [auto |-> {}, role |-> "admin", blocked |-> FALSE],
   peers |-> a1 :> [user |-> ann, conf |-> "c", idle |-> TRUE, waits |-> FALSE]
             @@ b1 :> [user |-> bob, conf |-> "c", idle |-> FALSE, waits |-> TRUE]
             @@ box :> [user |-> None, conf |-> "c", idle |-> FALSE, waits |-> FALSE],
   resources |-> web :> [net |-> lan, conf |-> "c", groups |-> {}],
   nets |-> lan :> [conf |-> "c", routers |-> hop :> [peer |-> box, groups |-> {}, on |-> TRUE]],
   policies |-> sshd :> [conf |-> "c", on |-> TRUE, posture |-> {"os"},
                        rules |-> {OneRule({eng}, None, {db}, None, Ssh)}]
                @@ dir :> [conf |-> "c", on |-> TRUE, posture |-> {},
                           rules |-> {OneRule({}, box, {eng}, None, AnyService)}],
   keys |-> live :> [groups |-> {eng}, revoked |-> FALSE]
            @@ dead :> [groups |-> {}, revoked |-> TRUE]]

Begin == {Start}

Of(kind, type, id, net) == [kind |-> kind, type |-> type, id |-> id, net |-> net]

FormRule(src, dst, protocol, tokens) ==
  [id |-> NoId, on |-> TRUE, both |-> FALSE, src |-> src, dst |-> dst, dstRef |-> None,
   protocol |-> protocol, tokens |-> tokens]

Changes ==
  { [named |-> TRUE, peers |-> {box}, users |-> {bob}] @@ Of("group", "groups", eng, None),
    [named |-> TRUE, peers |-> {a1}, users |-> {ann}] @@ Of("group", "groups", db, None),
    [named |-> TRUE, peers |-> {b1}, users |-> {ann}] @@ Of("new group", "groups", None, None),
    [role |-> "admin", blocked |-> Same, groups |-> {db, idp}, align |-> {b1}]
      @@ Of("user", "users", bob, None),
    [conf |-> "d", groups |-> {db}] @@ Of("peer", "peers", a1, None),
    [src |-> {idp}, tokens |-> {<<80, 443>>}, more |-> {}, flip |-> FALSE]
      @@ Of("policy", "policies", sshd, None),
    [src |-> {eng}, tokens |-> Same, more |-> {}, flip |-> TRUE]
      @@ Of("policy", "policies", dir, None),
    Of("toggle", "policies", sshd, None),
    [rule |-> r1, mode |-> "remove_source", target |-> eng] @@ Of("revoke", "policies", sshd, None),
    Of("delete", "groups", db, None),
    Of("delete", "peers", box, None),
    [groups |-> {db}, action |-> "revoke", keys |-> {live}] @@ Of("key", "keys", live, None),
    [groups |-> {}, action |-> "delete", keys |-> {live, dead}] @@ Of("bulk", "keys", None, None),
    [conf |-> "d", groups |-> {eng}] @@ Of("resource", "resources", web, lan),
    [src |-> eng, dst |-> web, svc |-> Ssh] @@ Of("allow", "policies", None, None),
    [old |-> [peers |-> {a1, box}, resources |-> {}]] @@ Of("restore", "groups", db, None),
    [old |-> [Start.policies[sshd] EXCEPT !.on = FALSE]] @@ Of("restore", "policies", sshd, None),
    [form |-> [conf |-> "d", on |-> TRUE, posture |-> {},
               rules |-> {FormRule({db}, {idp}, "udp", {<<53, 53>>})}]]
      @@ Of("new policy", "policies", None, None),
    [form |-> [conf |-> "d", on |-> TRUE, posture |-> {},
               rules |-> {FormRule({db}, {idp}, "icmp", {<<53, 53>>})}]]
      @@ Of("new policy", "policies", None, None),
    [rule |-> r1, mode |-> "delete", target |-> None] @@ Of("revoke", "policies", dir, None),
    Of("delete", "nets", lan, None),
    Of("delete", "policies", sshd, None),
    Of("delete", "resources", web, lan),
    Of("delete", "routers", hop, lan),
    [groups |-> {}, action |-> "delete", keys |-> {dead}] @@ Of("key", "keys", dead, None),
    [days |-> 365, limit |-> 0, groups |-> {idp}] @@ Of("new key", "keys", None, None),
    [days |-> 366, limit |-> 0, groups |-> {}] @@ Of("new key", "keys", None, None),
    [conf |-> "d"] @@ Of("net", "nets", lan, None),
    [conf |-> "d"] @@ Of("new net", "nets", None, None),
    [conf |-> "d", groups |-> {idp}] @@ Of("new resource", "resources", None, lan),
    [peer |-> None, groups |-> {eng}] @@ Of("router", "routers", hop, lan),
    [peer |-> box, groups |-> {eng}] @@ Of("new router", "routers", None, lan) }

-----------------------------------------------------------------------------
(* The reconcilers: "a" is exempt from the check and has an old companion, *)
(* "b" has none yet, "c" is gone.                                          *)
EightIds == {m1, m2, m3, m4, m5, m6, m7, m8}
CronAndHand == {cron, hand}
OnePhone == {phone}
OneGate == {gate}

Mirrorable(protocol, src, dst) ==
  [protocol |-> protocol, src |-> src, srcRef |-> Nothing, dst |-> dst, dstRef |-> Nothing,
   both |-> FALSE, on |-> TRUE]

ToKeep(name, comp, marks, checks, rules) ==
  [name |-> name, comp |-> comp, marks |-> marks, on |-> TRUE, checks |-> checks, rules |-> rules]

Exempt == ToKeep("a", FALSE, {"POSTURE_IGNORE"}, {}, <<Mirrorable("tcp", {eng}, {db})>>)
Plain == ToKeep("b", FALSE, {}, {},
  <<Mirrorable("tcp", {eng}, {db}), Mirrorable("udp", {eng}, {db}), Mirrorable("all", {db}, {db})>>)

Before == {m1 :> Exempt @@ m3 :> Plain
           @@ m2 :> ToKeep("a", TRUE, {"auto"}, {}, <<Mirrorable("icmp", {eng}, {eng})>>)
           @@ m4 :> ToKeep("c", TRUE, {"auto"}, {gate}, <<Mirrorable("icmp", {eng}, {db})>>)}

Ephemeral == tab :> [eph |-> TRUE, conn |-> FALSE, seen |-> "old"]

Told(posture, only, ping, sweep, dry, scheduled) ==
  [posture |-> posture, only |-> only, ping |-> ping, sweep |-> sweep, dry |-> dry,
   cron |-> scheduled]

ToldAll == {
  Told("add", Nothing, "ping", FALSE, FALSE, TRUE),
  Told("add", Nothing, "ping", FALSE, TRUE, TRUE),
  Told("add", <<FALSE, "b">>, "none", FALSE, FALSE, TRUE),
  Told("add", <<FALSE, "d">>, "none", FALSE, FALSE, FALSE),
  Told("remove", <<FALSE, "b">>, "none", FALSE, FALSE, FALSE),
  Told("none", Nothing, "remove", FALSE, FALSE, FALSE),
  Told("none", Nothing, "none", TRUE, FALSE, FALSE)}

UserDeeds == {
  [id |-> m1, pol |-> [Exempt EXCEPT !.marks = {}]],
  [id |-> m1, pol |-> [Exempt EXCEPT !.rules[1].dst = {}, !.rules[1].dstRef = web]],
  [id |-> m3, pol |-> [Plain EXCEPT !.marks = {"PING_IGNORE"}]],
  [id |-> m3, pol |-> Nothing],
  [id |-> m4, pol |-> [Plain EXCEPT !.name = "c"]]}

-----------------------------------------------------------------------------
VARIABLE part

Init == EditInit /\ MaintenanceInit /\ SessionInit
        /\ part \in {"editors", "reconcilers", "sessions"}

Next ==
  \/ part = "editors" /\ EditNext /\ UNCHANGED <<maintenanceVars, sessionVars, part>>
  \/ part = "reconcilers" /\ MaintenanceNext /\ UNCHANGED <<editVars, sessionVars, part>>
  \/ part = "sessions" /\ SessionNext /\ UNCHANGED <<editVars, maintenanceVars, part>>

Spec == Init /\ [][Next]_<<editVars, maintenanceVars, sessionVars, part>>

TypeOK == EditTypes /\ MaintenanceTypes /\ SessionTypes
=============================================================================
