CONSTANTS
  n1 = n1
  n2 = n2
  n3 = n3
  k = k
  None = None
  Notifications <- MCNotifications
  Workers = {w1, w2}
  key <- MCKey
  MAX_ATTEMPTS = 2
  BATCH_SIZE = 2
  CLAIM_LEASE = 2
  TIME_LIMIT = 1
  retryDelay <- MCRetryDelay
  MaxDeaths = 1
SPECIFICATION FairSpec
CONSTRAINT OneOther
INVARIANTS
  TypeOK
  ClaimIsExclusive
  DuplicatesNeedALoss
  OutcomeIsEarned
  AttemptsBounded
  QueuedOnce
PROPERTIES
  FinishedStays
  EventuallyFinished
