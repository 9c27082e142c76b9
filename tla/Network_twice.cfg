\* One button a visit; the saved profile is offered twice.
CONSTANTS
  Iface <- MCIface
  Found <- MCFound
  MaxOps = 1
  MaxVisits = 3
SPECIFICATION Spec
INVARIANT ProfileThere
\* The program may have ended.
CHECK_DEADLOCK FALSE
