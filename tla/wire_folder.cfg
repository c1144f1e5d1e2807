\* Two processes; one publishes an envelope, another arrives; one event.
CONSTANTS
  Proc = {"p", "q"}
  Sender = {"p"}
  Envelope = {1, 2}
  Own = {2}
  Cap = 2
  None = None
  MaxEvents = 1
SPECIFICATION Spec
INVARIANTS
  NothingSwallowed
  Remembered
  NoEcho
CHECK_DEADLOCK FALSE
