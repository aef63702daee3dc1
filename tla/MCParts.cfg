SPECIFICATION Spec
CONSTANTS
  Parts = {"bridge", "outbox", "health", "live", "news", "quotas", "connection", "pairing", "sending", "inbox", "models", "settings", "sandboxes"}
  Events <- MCEvents
  Lanes = {"inbox", "frames"}
  Detaching = {"inbox"}
  Threads = {"home", "guest"}
  Open = {"home"}
  Admins = {"home"}
  Feeds = {"news", "games"}
  CfgMuted <- MCCfgMuted
  Keep = 2
  Plans <- MCPlans
  MaxRestarts = 1
  Nobody = Nobody
  NoOverlay = NoOverlay
  Torn = Torn
  Items = {i1, i2}
  Routes <- MCRoutes
  ClaimLimit = 2
  MaxVersion = 2
  MaxBubbles = 4
  MaxHitches = 2
  DeadAfter = 2
  MinNotify = 4
  Watched = {"whatsapp", "messenger"}
  Scripts <- MCScripts
  Platforms = {"discord", "whatsapp", "messenger"}
  QueueSize = 2
  MaxDots = 4
  Articles <- MCArticles
  Channels <- MCChannels
  Pollers = {"steam", "free", "crack", "tech"}
  MaxPerDay = 1
  MaxDays = 2
  MaxSlips = 2
  Accounts <- MCAccounts
  Watches = {"supabase", "neon"}
  MaxTokens = 4
  MaxPeriods = 2
  MaxFaults = 2
  MaxReboots = 1
  Attempts = {a1, a2, a3}
  Uploads = {u}
  MaxSessions = 2
  Calls = {"reply", "other"}
  Mixes <- MCMixes
  Pieces = 2
  Tries = 2
  LastMs = 3
  Msgs = {m1, m2}
  SeenLimit = 0
  Day = 1
  Slack = 1
  LastTime = 5
  MaxTaken = 3
  Clients = {"zen", "vision", "chat", "chat_stream", "responses"}
  AskedAtMost = 3
  Words = 2
  Limits <- MCLimits
  Tokens <- MCTokens
  Durations <- MCDurations
  Clocks <- MCClocks
  Catalogues <- MCCatalogues
  RouteSets <- MCRouteSets
  Switches <- MCSwitches
  Users = {c1, c2}
  Procs = {p1, p2}
  NoProc = NoProc
SYMMETRY Alike
CHECK_DEADLOCK FALSE
INVARIANTS PartsTyped StopReachesNewest NothingComesBack OutboxIsTrue LastAlertIsTrue LiveMessageIsTrue NewsIsDelivered QuotasAreKept ClientsComeBack SendsAreSound InboxIsSound CallsAreSound AcceptedIsUsable SandboxesAreKnown
