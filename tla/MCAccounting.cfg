SPECIFICATION Spec
CONSTANTS
  Bytes = {wire}
  wire = wire
  Page <- MCPage
  Scan <- MCScan
  AdmissionWaiting = 1
  ClockMax = 5
  MaxAmount = 2
  MaxTime = 4
INVARIANTS
  TypeOK
  WithinBudgets
  AllowanceFits
PROPERTY DeadlineKept
