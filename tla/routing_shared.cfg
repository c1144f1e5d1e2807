\* Two handlers, each holding one owner of a shared outbox; every step may fail.
CONSTANTS
  Daemon = {"d1", "d2"}
  Agent = {"a", "b", "c"}
  Box = {"boxa"}
  NumMsgs = 1
  Remote = {"r"}
  None = None
  Handled <- MCHandled
  OutboxOf <- SharedOutbox
  CrossDevice = {}
  Lagging = {}
  Services = TRUE
  Headers <- MixedHeaders
  Faults = {"claim", "stage", "commit", "settle", "upload"}
  MaxCrashes = 2
SPECIFICATION Spec
INVARIANTS NothingSentTwice EveryPathAccounted ClaimIsExclusive
PROPERTY KeepsPromise
CHECK_DEADLOCK FALSE
