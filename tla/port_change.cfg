SPECIFICATION Spec
CONSTANTS
  one = one
  two = two
  a = a
  b = b
  e = e
  Skb = {s1, s2}
  Policy = {one, two}
  NameOf <- NamesOf
  PickOf <- LastQueue
  AdmnKey = {0}
  ProcKey = {0, 1}
  Limit = 1
  MaxTotal = 2
  MaxChange = 2
  NULL = NULL
SYMMETRY Symmetry
INVARIANTS
  NoStaleSkb
  Repaired
  DumpOrdered
  QueueReady
  OnePolicy
CHECK_DEADLOCK FALSE
