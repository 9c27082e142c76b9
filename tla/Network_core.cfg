\* Two interfaces, four entries of a page, three buttons.
CONSTANTS
  Iface <- MCIface
  Found <- MCFound
  MaxOps = 3
  MaxVisits = 4
SPECIFICATION Spec
INVARIANTS
  TypeOK
  WrittenAsShown
  OwnProfile
  
\* The program may have ended.
CHECK_DEADLOCK FALSE
