\* One process at a time, endless mail for b, whose turns tell a.
CONSTANTS
  Proc = {"p"}
  Bringer = {"p"}
  Idler = {"p"}
  Member = {"a", "b"}
  Msg = {"a1", "b2", "bn"}
  To <- MCTo
  Ingress = {"b2"}
  From <- MCFrom
  Notice <- MCNotice
  Refused = {}
  Renewed = {"b2"}
  Outcome = {"ok", "failed", "absent"}
  Earning <- AllEarn
  Budget = 1
  Admission = Admission
  Cell = Cell
  None = None
  Gone = Gone
  MaxEvents = 1
SPECIFICATION FairSpec
PROPERTIES
  Served
CHECK_DEADLOCK FALSE
