SPECIFICATION MCSpec

CONSTANTS
  flash = flash
  haiku = haiku
  Primary = flash
  Fallbacks <- OneFallback
  DailyCallCap <- FallbackCapped
  Uncapped = Uncapped
  FailThreshold = 5
  CoolDown = 2
  MaxRetries = 3
  DailyBudget = 3
  Costs = {0, 1, 2}
  Responses <- Every
  MaxCallsCounted = 0
  SyncWorkers = {w1, w2}
  Releases = 2
  NoRow = NoRow
  NoWorker = NoWorker
  Words <- Letters
  Prompts <- ThreePhrases
  Users <- ThreeUsers
  Newsletters = {1, 2, 3, 4, 5}
  Letter <- FiveLetters
  Curated <- AiRule
  MinSize = 2
  MaxSize = 3
  Jobs = {j1, j2}
  MaxDeliveries = 3

INVARIANTS
  TypeOK
  OpenBreakerSparesProvider
  OneRowPerCall
  NothingPrivateLeaves

PROPERTIES
  NewsNamesItsSources
  CallEnds
  PrimaryIsTriedAgain
  SettlesAfterDeployment

CHECK_DEADLOCK FALSE
