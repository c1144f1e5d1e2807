\* Attachments for two agents, a pool of one, a restart, replays beyond the expiry.
CONSTANTS
  Worker = {"w1", "w2"}
  Process = {"p1", "p2"}
  ProcOf <- MCProcOf
  Msg = {"f"}
  KindOf <- MCKindOf
  To <- MCTo
  Agent = {"a", "b"}
  None = None
  DayChoices = {1}
  ReceiptDays = 1
  ClockSkew = 1
  Ahead = 0
  Behind = 0
  Lag = 1
  PoolSize = 1
  MaxNow = 3
  MaxErrors = 0
  MaxRestarts = 1
SPECIFICATION FairSpec
INVARIANTS WrittenOnce ReceiptHonest Accounted
PROPERTIES WorkerFlows WaitsEnd
CHECK_DEADLOCK FALSE
