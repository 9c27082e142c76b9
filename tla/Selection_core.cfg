\* Three visits in any modes, three clicks.
CONSTANTS
  Group <- MCGroup
  Package <- MCPackage
  GroupOf <- MCGroupOf
  On0 <- MCOn0
  Flag0 <- MCFlag0
  Toggle = {"XAPP", "BUR", "GAME", "APPEX"}
  MaxOps = 3
  MaxVisits = 3
SPECIFICATION Spec
INVARIANTS
  TypeOK
  OtherDesktopsOut
  ExpertShowsFlags
PROPERTY SameAgain
\* The page may have been left, or the program may have ended.
CHECK_DEADLOCK FALSE
