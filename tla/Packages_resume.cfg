\* Back to select after packages were selected.
CONSTANTS
  Pkg <- MCPkg
  Discs <- MCDiscs
  Same <- MCSame
SPECIFICATION Spec
INVARIANT SelectionResumes
CHECK_DEADLOCK FALSE
