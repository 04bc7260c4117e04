SPECIFICATION FairSpec
CONSTANTS
  x1 = x1
  x2 = x2
  r1 = r1
  r2 = r2
  None = None
  Foreign = Foreign
  Closed = Closed
  Management = Management
  Connections <- MCConnections
  Connectors <- MCConnectors
  Roots = {r1}
  Contents <- MCFewContents
  SqlName <- MCSqlName
  Names <- MCNames
  ForeignNames = {}
  MaxStatements = 3
CHECK_DEADLOCK FALSE
PROPERTIES
  StatementsEnd
