\* Two requests, two workers, one retry each, a queue of one.
\* The daemon may stop and then nothing moves.
CONSTANTS
  Requests = {r1, r2}
  Listeners = {l1}
  Workers = {w1, w2}
  CacheThread = cache
  MaxRetries = 1
  QueueLength = 1
  Delays = {1}
  MaxTime = 1
  None = None
SPECIFICATION Spec
SYMMETRY Symmetry
INVARIANTS FilesExact OneOwner RetryBound
CHECK_DEADLOCK FALSE
