\* The readers stop when they have made their calls, or for good when the
\* spinlock driver starves its owner; Termination says that nothing else stops.
CONSTANTS
  Nobody = Nobody
  Outside = Outside
  Readers = {r1, r2, r3}
  Counts = {0, 2}
  Calls = 2
  msg_len = 3
  INT_MAX = 6
  Processors = 2
SPECIFICATION FairSpec
PROPERTIES ImplementsMessage Termination
CHECK_DEADLOCK FALSE
