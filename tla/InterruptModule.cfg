\* Nothing goes on when the module has been removed for the last time.
CONSTANTS
  Interrupts = 4
  Loads = 2
SPECIFICATION FairSpec
INVARIANTS NothingOutlives
PROPERTIES EveryInterruptServed Termination
CHECK_DEADLOCK FALSE
