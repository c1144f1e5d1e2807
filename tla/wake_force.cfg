\* A force stop, a death, a request or a stop signal at any point of a shared handler,
\* with a second handler for b and sessions that outlive their wake.
CONSTANTS
  Handler = {"h1", "h2"}
  Agent = {"a", "b"}
  Serves <- MCServes
  Order <- TwoAgents
  Proxy = {}
  Batch = {}
  BatchLimit = 2
  Budgeted = {"a"}
  Resident = {"b"}
  Msg = {"a1", "b1"}
  To <- MCTo
  Asked <- AnyRequest
  Renewed = {}
  None = None
  MaxEvents = 1
SPECIFICATION Spec
INVARIANTS
  Settled
  OneVerdict
  KillIsClean
  LastWakeHonest
PROPERTIES
  SparesOthers
CHECK_DEADLOCK FALSE
