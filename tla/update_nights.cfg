\* A clone or an unpack, two seats, three releases of which the second is broken, three events.
CONSTANTS
  Newest = 3
  Broken = {2}
  Seat = {"s", "t"}
  Kinds = {"git", "unpack"}
  Own = Own
  Torn = Torn
  Aside = Aside
  Down = Down
  MaxEvents = 3
SPECIFICATION FairSpec
INVARIANTS
  SeatsFollow
  HandIsFinal
  BadOnce
  NeverLost
PROPERTIES
  Finishes
CHECK_DEADLOCK FALSE
