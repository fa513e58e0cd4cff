CONSTANTS
  Skb = {s1, s2, s3}
  ULONG_MAX = 1
  NumQ = 1
  MaxLen <- Size
  SelectQ <- First
  SchedQ <- First
  CongAct = {2, 3}
  cong_fn <- LenIsLimit
  Limit = 2
  MaxCount = 3

SPECIFICATION FairSpec
INVARIANTS EarlyStopsPaid
 
