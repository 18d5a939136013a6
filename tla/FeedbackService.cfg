CONSTANTS
  Keys = {k1, k2, k3}
  Handlers = {h1, h2}
  None = None
  CACHE_TTL_SECONDS = 2
  CACHE_MAX_ENTRIES = 2
  request_timeout_seconds = 2
  retry_budget_seconds = 1
  SDK_RETRIES = 1
  Horizon = 6
SPECIFICATION Spec
INVARIANT CacheIsFresh
INVARIANT TimeIsBounded
SYMMETRY Symmetry
CHECK_DEADLOCK FALSE
