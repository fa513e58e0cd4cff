CONSTANTS
  Port = {long, short}
  long = long
  short = short
  Skb = {s1, s2, s3}
  ULONG_MAX = 1
  Addr = {1, 2, 3, 4, 5, 6}
  Limit <- Limits
  KeyPair <- Keys
  CongAct = {2, 3}
  MaxCount = 3
  MaxCache = 2
  NULL = NULL
SYMMETRY Symmetry
SPECIFICATION Spec
INVARIANTS RingsOK Represents PoolMatch ContainersFreed
PROPERTIES ImplementsOpenQueue
CHECK_DEADLOCK FALSE
