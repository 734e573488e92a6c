SPECIFICATION Spec

CONSTANTS
  a1 = a1
  a2 = a2
  e1 = e1
  e2 = e2
  w1 = w1
  w2 = w2
  NoMessage = NoMessage
  Accounts = {a1}
  Emails = {e1, e2}
  Categories = {"must_read", "good_to_read"}
  Workers = {w1, w2}
  AccountOf <- OneAccount
  ScanResults <- AnyScan
  Verdicts <- Mixed
  ClusterKey <- SameKey
  Trigger = "scheduled"
  ProvidersMayFail = FALSE
  UnsubscribeQueue = FALSE
  EnqueueLimit = 5
  Readable = {e1, e2}
  MaxFaults = 0

SYMMETRY WorkerSym

INVARIANTS
  TypeOK
  DigestCoversCategory

PROPERTIES
  ImplementsDigestRun
