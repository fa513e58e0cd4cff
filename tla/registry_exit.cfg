CONSTANTS
  Addr = {a1, a2, a3}
  Policy = {p1, p2, p3}
  Name = {eth, wifi}
  NULL = NULL
  p1 = p1
  p2 = p2
  p3 = p3
  eth = eth
  wifi = wifi
  NameOf <- SharedName
  Unregistering = {}
SPECIFICATION Spec
INVARIANTS UnregisteredOnExit
CHECK_DEADLOCK FALSE
