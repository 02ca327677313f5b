\* The program stops when main returns; that it does not stop before is what
\* Termination says.
CONSTANTS
  Nobody = Nobody
  Readers = {r1, r2, r3}
  Writers = {w1, w2}
  ReaderRuns = 2
  WriterRuns = 3
  Size = 2
  Values = {v1, v2}
  Garbage = Garbage
  MaxSpurious = 1
SPECIFICATION FairSpec
INVARIANTS TypeOK NoLostWakeup
PROPERTIES ImplementsQueue Termination
CHECK_DEADLOCK FALSE
