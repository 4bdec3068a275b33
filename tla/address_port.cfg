CONSTANTS
  Contents <- MCContents
  Spans = {}
  Words <- MCWords
  MaxBytes = 4
  MaxChunks = 4
  V4 <- MCV4
  V6 <- MCV6
  Ports <- MCPorts
  MaxHops = 2
SPECIFICATION Spec
INVARIANTS PortKept
CHECK_DEADLOCK FALSE
