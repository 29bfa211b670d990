\* An admin and a member, two requests at once, two changes.
SPECIFICATION FairSpec
CONSTANTS
  admin = admin
  member = member
  policies = policies
  resources = resources
  Users <- Both
  Endpoints <- Two
  Nested <- Second
  Sees <- Roles
  Editors <- Admins
  Ttl = 1
  LoadLimit = 1
  Requests = {r1, r2}
  MaxWrites = 2
INVARIANTS TypeOK LateLoadsOnly NotShared
PROPERTIES StalenessBounded Answered
CHECK_DEADLOCK FALSE
