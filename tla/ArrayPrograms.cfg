\* The program stops when main returns; that it does not stop before is what
\* Termination says.
CONSTANTS
  Nobody = Nobody
  Readers = {r1, r2}
  Writers = {w1}
  ReaderRuns = 1
  WriterRuns = 2
  NumObjects = 2
  Values = {v1, v2}
  Initial = Initial
  ReadersLimitMax = 1
SPECIFICATION FairSpec
INVARIANTS LimitKept NoLockLeft
PROPERTIES DeadForGood ImplementsObjects Termination
CHECK_DEADLOCK FALSE
