SPECIFICATION CrossServerSpec
CONSTANTS
  Ids = {d1}
  Grants = {g1}
  Requests = {r1}
  Kinds = {"callback"}
  Batch = 1
  MaxAttempts = 2
  MaxDelay = 1
  Retention = 0
  SuppressFor = 1
  MaxEdits = 1
  MaxFaults = 1
  MaxEvents = 2
  Readers = {q1}
  Handlers = {h1}
  MaxAge = 1
  MaxStamp = 1
  MaxAnswers = 1
  MaxLinkEdits = 1
  MaxHappenings = 3
  MaxRemoteFaults = 1
  Deliveries = {w1}
  Tests = {}
  Resends = {}
  MaxHookAttempts = 2
  HookBatch = 2
  DisableAfter = 0
  Hour = 1
  MaxHookChanges = 1
PROPERTIES KeepsPromise SweepSettles StatusFollows QueuedIsSettled
