\* The page is left twice with different roots.
CONSTANTS
  Part <- MCPart
  Device <- MCDevice
  PartsOn <- MCPartsOn
  Dir <- MCDir
  Length <- MCLength
  Above <- MCAbove
  Prefix <- MCPrefix
  Type0 <- MCType0
  NoMount = "NULL"
  None = "none"
  Lost = "lost"
  MaxOps = 3
  MaxRuns = 2
SPECIFICATION Spec
INVARIANT FilesDelivered
CHECK_DEADLOCK FALSE
