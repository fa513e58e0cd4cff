CONSTANTS
  QName <- QNames
  PName <- PNames
  RName <- RNames
  Header <- Headers
  PortLists <- Lists
  Rhs <- RhsSet
  TCQ_OQ_NAME_LEN = 2
  MaxQueues = 2
  NULL = NULL
SPECIFICATION Spec
INVARIANTS DispatchesOwn CallsMatchHeaders
CHECK_DEADLOCK FALSE
