SPECIFICATION MCSpec

CONSTANTS
  w1 = w1
  w2 = w2
  p1 = p1
  d1 = d1
  k1 = k1
  k2 = k2
  q1 = q1
  q2 = q2
  Rules = {1, 2}
  Contents <- ThreeRules
  Seeds <- ShopIsWaste
  Mails <- Letters
  Workers = {w1, w2}
  Pages = {p1}
  Editors = {d1}
  SureEnough = 55
  MaxRecords = 2
  MaxMoves = 2
  MaxEdits = 2
  MaxCrashes = 1
  Nothing = Nothing
  Senders = {1, 2}
  Rankers = {k1, k2}
  Requests = {q1, q2}
  Offers = {"one_click", "link"}
  Confidences = {90}
  MaxRanks = 2
  MaxChanges = 1
  MaxExecutes = 2
  Unlisted = Unlisted
  MaxChoices = 2
  Drainers = {hook, sheet}
  MaxAttempts = 2

INVARIANTS
  TypeOK
  OverrideHolds
  EditsReachVerdict
  SuccessIsKept
  VetoHides
  QueuedIsNotLost

PROPERTIES
  EmailIsTriaged
  DismissalSurvives
  RanksEnd

CHECK_DEADLOCK FALSE
