\* Two messages in the queues of two handlers, one death, an outbox on another filesystem.
CONSTANTS
  Daemon = {"d1", "d2"}
  Agent = {"a", "b", "c"}
  Box = {"boxa", "boxb"}
  NumMsgs = 2
  Remote = {"r"}
  None = None
  Handled <- MCHandled
  OutboxOf <- OwnOutbox
  CrossDevice = {"boxa"}
  Lagging = {}
  Services = FALSE
  Headers <- FanoutHeaders
  Faults = {}
  MaxCrashes = 1
SPECIFICATION FairSpec
INVARIANTS StrandedByCrash AttachmentArrives
PROPERTY EventuallySettled
CHECK_DEADLOCK FALSE
