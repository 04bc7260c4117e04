SPECIFICATION FairSpec
CONSTANTS
  c1 = c1
  c2 = c2
  c3 = c3
  k1 = k1
  k2 = k2
  Callers = {c1, c2, c3}
  Keys = {k1, k2}
  WaitersPerKey = 2
  TotalWaiters = 2
  EligibleTimes = {0, 1}
  Deadlines = {0, 1}
  MaxTicket = 4
  MaxTime = 1
INVARIANTS
  OnePermitPerKey
  QueuesExact
PROPERTIES
  FifoPerKey
  EmbargoKept
  WaitReturns
