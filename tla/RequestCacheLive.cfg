\* One request with two retries, so that progress can be checked.
CONSTANTS
  Requests = {r1}
  Listeners = {l1}
  Workers = {w1, w2}
  CacheThread = cache
  MaxRetries = 2
  QueueLength = 1
  Delays = {1}
  MaxTime = 2
  None = None
SPECIFICATION FairSpec
PROPERTIES RetryHappens StopEndsThread
CHECK_DEADLOCK FALSE
