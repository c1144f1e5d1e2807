\* A receipt and the echo of an own envelope, replayed at any time, while dedup_days changes.
CONSTANTS
  Worker = {w1, w2}
  Process = {w1, w2}
  ProcOf <- MCOwnProc
  Msg = {"r", "o"}
  KindOf <- MCKindOf
  To <- MCTo
  Agent = {"a"}
  None = None
  DayChoices = {1, 2}
  ReceiptDays = 1
  ClockSkew = 3
  Ahead = 1
  Behind = 0
  Lag = 1
  PoolSize = 1
  MaxNow = 5
  MaxErrors = 1
  MaxRestarts = 1
SPECIFICATION Spec
SYMMETRY MCSymmetry
INVARIANTS TakenOnce EchoDropped
CHECK_DEADLOCK FALSE
