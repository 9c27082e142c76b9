\* All paths through the pages; nothing is bounded.
CONSTANTS
  Pkg <- MCPkg
  Discs <- MCDiscs
  Same <- MCSame
SPECIFICATION Spec
INVARIANTS
  TypeOK
  TransactionsNested
  InitializedOnce
PROPERTIES
  ImplementsDelivery
  WorkReachesUser
\* The program may have ended, or hang behind the window select leaves open.
CHECK_DEADLOCK FALSE
