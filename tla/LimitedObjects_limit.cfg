CONSTANTS
  Nobody = Nobody
  Readers = {r1, r2}
  Writers = {w1}
  ReaderRuns = 1
  WriterRuns = 1
  NumObjects = 3
  Values = {v1, v2}
  Initial = Initial
  ReadersLimitMax = 1
SPECIFICATION Spec
INVARIANTS AtMostLimitMax
