\* Each service on its own.
SPECIFICATION Spec
CONSTANTS
  ann = ann
  bob = bob
  phone = phone
  handle = handle
  u1 = u1
  u2 = u2
  g1 = g1
  Accounts = {ann, bob}
  Identities = {phone, handle}
  LinkBefores <- MCBefores
  LinksAtOnce = 2
  MaxLinkRequests = 3
  Roles = {"chat", "audio", "classifier"}
  Chat = "chat"
  Audio = "audio"
  Unnamed = {"classifier"}
  Backends = {"a", "b"}
  Models = {"m", "n"}
  Unset = "none"
  Endpoints = {"u", "v"}
  RoleBefores <- MCRoleBefores
  RolesAtOnce = 2
  MaxRoleRequests = 3
  Posts = {1, 2}
  MaxNews = 1
  MaxLosses = 1
  MaxLoads = 2
  MaxCrossing = 2
  Patches <- MCPatches
  Serves <- MCServes
  Replies = {1}
  PressesAtOnce = 2
  MaxReactions = 2
  MaxAnswers = 2
  MaxRuns = 2
  MaxMishaps = 1
  MaxDays = 1
  MaxNightly = 1
  UserFacts = {u1, u2}
  GeneralFacts = {g1}
  DayFacts = {u1}
  MaxNotes = 2
  MaxEdits = 2
  NHours = 3
  HoursPerDay = 2
  Started = 3
  Seeded = {1}
  Safety = 1
  MaxHours = 2
  MaxPeriods = 4
  MaxDrops = 1
  MaxFaults = 1
INVARIANTS
  LinksKept
  ChatKept
  RolesKept
  FeedbackKept
  FactsAsTold
  InsightsComplete
CHECK_DEADLOCK FALSE
