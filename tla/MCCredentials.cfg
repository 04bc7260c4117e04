SPECIFICATION Spec
CONSTANTS
  i1 = i1
  i2 = i2
  i3 = i3
  i4 = i4
  NoId = NoId
  Garbage = Garbage
  Insts = {"d1", "d2"}
  PersistentOff = {}
  Names = {"a", "b"}
  TemporaryNames = {"a"}
  Providers = {"d1"}
  Ids = {i1, i2, i3}
  MaxLiveRecords = 2
SYMMETRY MCSymmetry
CHECK_DEADLOCK FALSE
INVARIANTS
  EveryImageWhole
  AcknowledgedSurvives
  LiveAgreesWithDisk
PROPERTIES
  ResolvedUnambiguously
