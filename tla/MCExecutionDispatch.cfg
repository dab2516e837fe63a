CONSTANTS
  i1 = i1
  i2 = i2
  s1 = s1
  s2 = s2
  Intents = {i1, i2}
  Isolates = {s1, s2}
  Capacity = 1
  Cap = 2
  QueueLimit = 1
  Ttl = 1
  Backoff = 2
  MaxBatch = 2
  MaxStorageFailures = 1
  MaxCrashes = 1
SPECIFICATION Spec
INVARIANTS
  SecondOrderNeedsUnsavedDrain
  LiveIntentHasAPlace
  WakeIsScheduled
PROPERTIES
  DeferredIsDecided
