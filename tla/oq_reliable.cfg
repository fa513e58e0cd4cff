CONSTANTS
  Skb = {s1, s2, s3}
  ULONG_MAX = 1
  NumQ = 1
  MaxLen <- Size
  SelectQ <- First
  SchedQ <- First
  CongAct = {1, 2, 3}
  cong_fn <- LenIsLimit
  Limit = 2
  MaxCount = 4
SYMMETRY Symmetry
SPECIFICATION ReliableSpec
INVARIANTS TypeOK AdmnCovered ProcCovered LenDrift
PROPERTIES LeakSources ImplementsDualQueue
