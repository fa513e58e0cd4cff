CONSTANTS
  Skb = {s1, s2, s3}
  ULONG_MAX = 1
  NumQ <- TCQ_OQ_NO_QUEUES
  MaxLen <- oqp_my_port_init_port
  SelectQ <- oqp_my_port_qselc_func
  SchedQ <- oqp_my_port_schd_func
  CongAct <- oqp_my_port_cong_act_func
  cong_fn <- oqp_my_port_cong_func
  Q1_SIZE = 1
  Q2_SIZE = 3
  Q1_CONG = 2
  Q2_CONG = 1
  MaxCount = 7
SPECIFICATION DataSpec
INVARIANTS LenExact DropsBounded
CHECK_DEADLOCK FALSE
