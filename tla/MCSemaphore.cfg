CONSTANTS
  Callers = {t1, t2, t3, t4}
  Permits = 2
SPECIFICATION SemaphoreSpec
INVARIANTS
  PermitsConserved
  NoLostWakeup
PROPERTIES
  NoSleepBesideFreePermit
  ImplementsCountingSemaphore
