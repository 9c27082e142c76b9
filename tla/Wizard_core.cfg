\* A plugin of each kind the engine meets: Back and Forward over all of them.
CONSTANTS
  Names = {"greet", "layout", "configsource", "formatdisk", "select", "install", "rootconf", "timeconfig", "netconf", "Completed"}
  N <- MCN
  PageType <- MCPageType
  Complete0 <- MCComplete0
  RunResults <- MCRun
  PrerunResults <- MCPrerun
  Skippers <- MCSkippers
  Workers <- MCWorkers
  Markers <- MCMarkers
  LeavesModal <- MCLeavesModal
SPECIFICATION Spec
INVARIANTS
  TypeOK
  PageFollowsActive
  NoReentrantClick
  NoReturnIntoUnloaded
  RanInOrder
  StuckOnlyBehindModal
PROPERTY ImplementsTour
\* The program stops when fwife_exit has been called, and hangs behind the
\* window select leaves open: see StuckOnlyBehindModal.
CHECK_DEADLOCK FALSE
