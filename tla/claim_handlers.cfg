\* Three handlers, one on a recycled pid, signals and `a8s kill`; tokens may be missing.
CONSTANTS
  Proc = {"p1", "p2", "p3", "c"}
  Pid <- Ids
  PidOf <- ReusedPid
  RoleOf <- StartRunRunKill
  None = None
  Partial = Partial
  TokenFails = TRUE
  Impatient = {}
  Interrupted = {"p2"}
  MaxDeaths = 0
SPECIFICATION Spec
INVARIANTS
  OneHandler
  ClaimOnDisk
CHECK_DEADLOCK FALSE
