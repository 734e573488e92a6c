SPECIFICATION LaneSpec

CONSTANTS
  a1 = a1
  a2 = a2
  e1 = e1
  e2 = e2
  w1 = w1
  w2 = w2
  NoMessage = NoMessage
  Accounts = {a1}
  Emails = {e1, e2}
  Categories = {"must_read"}
  Workers = {w1, w2}
  AccountOf <- OneAccount
  ScanResults <- AnyScan
  Verdicts <- FirstListed
  ClusterKey <- SameKey
  Trigger = "scheduled"
  ProvidersMayFail = TRUE
  UnsubscribeQueue = FALSE
  EnqueueLimit = 5
  Readable = {}
  MaxFaults = 1

PROPERTIES
  FailureIsReported
  RunEnds
