CONSTANTS
  e1 = e1
  e2 = e2
  w1 = w1
  w2 = w2
  Event <- MCEvent
  Worker <- MCWorker
  MAX_ATTEMPTS = 2
  ClaimSize = 2
  MaxOverruns = 2
  MaxCrashes = 2
SPECIFICATION FairSpec
INVARIANTS
  ClaimsDisjoint
  DeadOnlyWhenExhausted
PROPERTIES
  EventuallySettled
  PromiseKept
CHECK_DEADLOCK FALSE
