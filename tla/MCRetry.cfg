SPECIFICATION FairSpec
CONSTANTS
  wire = wire
  other = other
  Absent = Absent
  Bytes = {wire}
  Page <- MCPage
  Scan <- MCScan
  AdmissionWaiting = 1
  ClockMax = 9
  MaxAmount = 1
  MaxTime = 5
  Retry <- MCRetryPolicy
  RateLimit <- MCRateLimit
  QueueTimeout = 1
  RequestBody = 1
  Header = wire
  Metadata = 1
  RemoteBuckets = {other}
  GuidanceDelays = {0, 1}
CHECK_DEADLOCK FALSE
INVARIANTS
  RepeatsExact
  NothingHeldWhileWaiting
  CancelStops
PROPERTY StepReturns
