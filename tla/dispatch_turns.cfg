\* A process that brings a message or sweeps, one that sweeps, one kill or late prompt.
CONSTANTS
  Proc = {"p", "q"}
  Bringer = {"p"}
  Idler = {"p", "q"}
  Member = {"a", "b"}
  Msg = {"a2", "b1", "an"}
  To <- MCTo
  Ingress = {"a2"}
  From <- MCFrom
  Notice <- MCNotice
  Refused = {}
  Renewed = {}
  Outcome = {"ok", "failed"}
  Earning = {}
  Budget = 2
  Admission = Admission
  Cell = Cell
  None = None
  Gone = Gone
  MaxEvents = 1
SPECIFICATION Spec
INVARIANTS
  OneTurn
  NothingDropped
  RunsOnce
  ToldOnce
CHECK_DEADLOCK FALSE
