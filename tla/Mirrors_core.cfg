\* Two mirrors of the distribution, one of them preferred, and two a user may
\* add, one without a directory.
CONSTANTS
  Shipped = {hu, de}
  Custom = {lan, bare}
  Bare = {bare}
  Preferred = {hu}
  MaxRows = 3
SPECIFICATION Spec
INVARIANTS
  TypeOK
  NoLateAlarm
  ShippedStay
PROPERTIES
  GoodIfAnswered
  UsedFirst
  TestingEnds
