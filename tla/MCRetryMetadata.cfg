SPECIFICATION Spec
CONSTANTS
  wire = wire
  other = other
  Absent = Absent
  Bytes = {wire}
  Page <- MCSinglePage
  Scan <- MCSingleScan
  AdmissionWaiting = 1
  ClockMax = 9
  MaxAmount = 2
  MaxTime = 5
  Retry <- MCRetryPolicy
  RateLimit <- MCRateLimit
  QueueTimeout = 1
  RequestBody = 1
  Header = wire
  Metadata = 2
  RemoteBuckets = {other}
  GuidanceDelays = {0, 1}
CHECK_DEADLOCK FALSE
INVARIANT AttemptExecutable
