\* Nobody clears the list: two writers are enough.
CONSTANTS
  Readers = {r1}
  Writers = {w1, w2}
  Clearers = {}
  INTERNAL_SIZE = 2
  ReadCounts = {3}
  WriteCounts = {3}
  ReadCalls = 1
  WriteCalls = 1
  ListHead = ListHead
  Poison = Poison
SPECIFICATION Spec
INVARIANTS TotalLengthShown
CHECK_DEADLOCK FALSE
