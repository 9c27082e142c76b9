\* Three operations and three visits: another root, then the first one again.
CONSTANTS
  Part <- MCPart
  Device <- MCDevice
  PartsOn <- MCPartsOn
  Dir <- MCDir
  Length <- MCLength
  Above <- MCAbove
  Prefix <- MCPrefix
  Type0 <- MCType0
  NoMount = "NULL"
  None = "none"
  Lost = "lost"
  MaxOps = 3
  MaxRuns = 3
SPECIFICATION Spec
INVARIANTS
  TypeOK
  OneRoot
  CompleteIffRoot
  SortedWhenAllMounted
  MountedAsListed
  FstabOnRoot
\* The page may have been left for good.
CHECK_DEADLOCK FALSE
