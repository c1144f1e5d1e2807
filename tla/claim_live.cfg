\* `a8s start` that may be interrupted, a requester that may time out, `a8s stop --force`, one death, a pid given to a foreign process.
CONSTANTS
  Proc = {"p1", "p2", "p3", "c"}
  Pid <- Ids
  PidOf <- ReusedPid
  RoleOf <- StartRunForce
  None = None
  Partial = Partial
  TokenFails = TRUE
  Impatient = {"p2"}
  Interrupted = {"p1"}
  MaxDeaths = 1
SPECIFICATION WakeFairSpec
INVARIANTS
  HookOnce
PROPERTIES
  HookNotSkipped
  HandOff
  StopEnds
CHECK_DEADLOCK FALSE
