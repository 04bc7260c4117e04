SPECIFICATION FairSpec
CONSTANTS
  c1 = c1
  c2 = c2
  c3 = c3
  Callers = {c1, c2, c3}
  Identity <- MCIdentity
  ResourceLimits <- MCResourceLimits
  QueueLimits <- MCQueueLimits
  Calls <- MCCalls
  WaitPolicies <- Policies
  MaxAmount = 2
  MaxTicket = 3
  MaxTime = 1
INVARIANTS
  TypeOK
  LedgerExact
  NoIdleCapacity
  WithinLimits
PROPERTIES
  ImplementsLedger
  NoOvertaking
  CallReturns
