SPECIFICATION CrossServerSafety
CONSTANTS
  Ids = {d1, d2}
  Grants = {g1}
  Requests = {r1}
  Kinds = {"callback"}
  Batch = 2
  MaxAttempts = 2
  MaxDelay = 1
  Retention = 0
  SuppressFor = 1
  MaxEdits = 2
  MaxFaults = 1
  MaxEvents = 3
  Readers = {q1, q2}
  Handlers = {h1}
  MaxAge = 1
  MaxStamp = 0
  MaxAnswers = 2
  MaxLinkEdits = 1
  MaxHappenings = 2
  MaxRemoteFaults = 1
  Deliveries = {w1}
  Tests = {t1}
  Resends = {p1}
  MaxHookAttempts = 2
  HookBatch = 2
  DisableAfter = 0
  Hour = 1
  MaxHookChanges = 1
INVARIANTS GivenUpForCause NoLostWakeup FailureTold TokensAgree KeptAtMostMaxAge
