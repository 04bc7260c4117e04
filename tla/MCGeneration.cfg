SPECIFICATION FairSpec
CONSTANTS
  x1 = x1
  x2 = x2
  r1 = r1
  r2 = r2
  None = None
  Foreign = Foreign
  Closed = Closed
  Management = Management
  Connections <- MCConnections
  Connectors <- MCConnectors
  Roots <- MCRoots
  Contents <- MCContents
  SqlName <- MCSqlName
  Names <- MCNames
  ForeignNames <- MCForeignNames
  MaxStatements = 3
SYMMETRY MCSymmetry
CHECK_DEADLOCK FALSE
INVARIANTS
  CatalogAgrees
PROPERTIES
  OnlyForward
