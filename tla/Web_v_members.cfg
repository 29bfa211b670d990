CONSTANTS
  Peers <- AllPeers
  Users <- AllUsers
  Groups <- AllGroups
  Resources <- OnlyWeb
  AllGroup = all
  Synced <- OnlyIdp
  ServiceUsers <- OnlyBot
  Propagates = TRUE
  None = None
  Bad = Bad
  Same = Same
  Postures <- OneCheck
  Editors <- TwoEditors
  Edits <- Changes
  Accounts <- Begin
  MaxFaults = 1
  all = all
  eng = eng
  db = db
  idp = idp
  ann = ann
  bob = bob
  bot = bot
  a1 = a1
  b1 = b1
  box = box
  web = web
  lan = lan
  hop = hop
  sshd = sshd
  dir = dir
  live = live
  dead = dead
  ed1 = ed1
  ed2 = ed2
  PolicyIds <- EightIds
  Starts <- Before
  Devices <- Ephemeral
  Runners <- CronAndHand
  Orders <- ToldAll
  Deeds <- UserDeeds
  MaxDeeds = 1
  MaxErrors = 1
  Check = gate
  Checks <- OneGate
  Nothing = Nothing
  m1 = m1
  m2 = m2
  m3 = m3
  m4 = m4
  m5 = m5
  m6 = m6
  m7 = m7
  m8 = m8
  cron = cron
  hand = hand
  tab = tab
  gate = gate
  MaxRequests = 4
  Browsers <- OnePhone
  MaxTime = 3
  MaxAge = 2
  PendingTTL = 1
  MaxPending = 1
  TokenLife = 2
  Leeway = 1
  Rotates = TRUE
  Nobody = Nobody
  phone = phone
SPECIFICATION Spec
PROPERTIES MembersKept
CHECK_DEADLOCK FALSE
