\* snapshot.py:5: the next page shows the change. Three requests, one change.
SPECIFICATION FairSpec
CONSTANTS
  admin = admin
  member = member
  policies = policies
  resources = resources
  Users <- Both
  Endpoints <- Two
  Nested <- Second
  Sees <- Roles
  Editors <- Admins
  Ttl = 1
  LoadLimit = 1
  Requests = {r1, r2, r3}
  MaxWrites = 1
INVARIANTS NextPageShows
CHECK_DEADLOCK FALSE
