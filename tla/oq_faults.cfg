CONSTANTS
  Skb = {s1, s2, s3}
  ULONG_MAX = 1
  NumQ = 2
  MaxLen <- Size
  SelectQ <- Both
  SchedQ <- Both
  CongAct = {2, 3}
  cong_fn <- LenIsLimit
  Limit = 1
  MaxCount = 2
SYMMETRY Symmetry
SPECIFICATION Spec
INVARIANTS AdmnCovered NoStaleSkb LenCovers
