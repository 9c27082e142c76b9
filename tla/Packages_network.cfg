\* A disc is found, then the user comes back and says no.
CONSTANTS
  Pkg <- MCPkg
  Discs <- MCDiscs
  Same <- MCSame
SPECIFICATION Spec
INVARIANT NetworkWhenNo
CHECK_DEADLOCK FALSE
