\* Endless mail for b, a batch for a, a folder, one handler.
CONSTANTS
  Handler = {"h"}
  Agent = {"a", "b", "p"}
  Serves <- MCServes
  Order <- WithProxy
  Proxy = {"p"}
  Batch = {"a"}
  BatchLimit = 2
  Budgeted = {}
  Resident = {}
  Msg = {"a1", "a2", "b1", "p1"}
  To <- MCTo
  Asked = {}
  Renewed = {"b1"}
  None = None
  MaxEvents = 0
SPECIFICATION FairSpec
PROPERTIES
  MailTurns
  ProxyFlows
CHECK_DEADLOCK FALSE
