\* The list, the ownership of events, the sleeping loop, and that timers settle.
CONSTANTS
  e1 = e1
  e2 = e2
  e3 = e3
  o1 = o1
  o2 = o2
  o3 = o3
  NULL = NULL
  Event <- MCEvent
  Owner <- MCOwner
  Timeouts <- MCTimeouts
  IdleTimeout = 3
  MaxTime = 2
SPECIFICATION FairSpec
INVARIANTS
  TypeOK
  SchedulerInv
  StopsClean
PROPERTIES
  RunIsComplete
  ImplementsTimers
  TimersSettle
CHECK_DEADLOCK FALSE
