\* One mirror is enough: run_net_config has tried before it.
CONSTANTS
  Shipped = {hu}
  Custom = {}
  Bare = {}
  Preferred = {hu}
  MaxRows = 1
SPECIFICATION Spec
INVARIANT ConnectTimesOut
