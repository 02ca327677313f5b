\* The program stops when main returns; that it does not stop before is what
\* Termination says.
CONSTANTS
  Nobody = Nobody
  Readers = {r1, r2, r3}
  Writers = {w1, w2}
  ReaderRuns = 2
  WriterRuns = 2
  Values = {v1, v2}
  Initial = Initial
SPECIFICATION FairSpec
INVARIANTS HeldForReaders
PROPERTIES ImplementsObject Termination
CHECK_DEADLOCK FALSE
