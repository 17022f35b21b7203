\* Nonces reused, early and late; full buckets, relocations, deletions;
\* windows that rotate early and late; two requests in flight, and thresholds
\* of 2, so that a streak can break.  The clocks stop at MaxTime and CacheMaxTime.
SPECIFICATION MCSpec
CONSTANTS
  n1 = n1  n2 = n2  x1 = x1  x2 = x2  x3 = x3  x4 = x4
  Message <- MCMessage
  Start = 6
  MaxTime = 19
  MaxAge = 3
  MaxFutureSkew = 1
  ValidityWindow = 6
  GcInterval = 1
  NonceCacheTtl = 6
  MaxNonceCacheSize = 2
  FingerprintOf <- MCFingerprint
  HomeOf <- MCHome
  FingerprintHash <- MCHash
  BucketCount = 4
  EntriesPerBucket = 2
  MaxKicks = 3
  MaxHeld = 2
  MaxRefused = 2
  MaxOverflowed = 1
  WindowDuration = 1
  CacheMaxTime = 7
  r1 = r1  r2 = r2
  Timeout = 1
  OpenTimeout = 2
  FailureThreshold = 2
  SuccessThreshold = 2
INVARIANTS AcceptedOnce FiltersAreExact GatewayIsAccounted
PROPERTIES ThresholdsHonoured RequestsEnd
CHECK_DEADLOCK FALSE
