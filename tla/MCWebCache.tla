----------------------------- MODULE MCWebCache -----------------------------
(* Instances of WebCache for TLC: an admin and a user who may read only    *)
(* one endpoint, which is read in the second round.                        *)
EXTENDS WebCache

CONSTANTS admin, member, policies, resources

Admins == {admin}
Both == {admin, member}
Two == {policies, resources}
Second == {resources}
Roles == [u \in Both |-> IF u = admin THEN Two ELSE Second]
=============================================================================
