SPECIFICATION MCSpec

CONSTANTS
  w1 = w1
  m1 = m1
  m2 = m2
  m3 = m3
  Workers = {w1, w2}
  MaxMail = 2
  MaxGrants = 2
  MaxRequests = 1
  MaxFailures = 1
  Nobody = Nobody
  Tabs = {t1}
  Mails = {m1, m2, m3}
  MailAccount <- TwoAccounts
  BatchSize = 1
  MaxFaults = 3
  Identities = {e1, e2}
  MaxFlows = 3
  Nothing = Nothing

INVARIANTS
  DisconnectLeavesNothing

CHECK_DEADLOCK FALSE
