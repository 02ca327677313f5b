\* The driver stops when it is removed; that it does not stop before is what
\* Termination says.
CONSTANTS
  Readers = {r1}
  Writers = {w1, w2}
  Clearers = {w2}
  INTERNAL_SIZE = 2
  ReadCounts = {3}
  WriteCounts = {3}
  ReadCalls = 2
  WriteCalls = 1
  ListHead = ListHead
  Poison = Poison
SPECIFICATION FairSpec
INVARIANTS NoStrayPointer NothingLeaked EachNodeOnce NeverOverstated
PROPERTIES ImplementsLog Termination
CHECK_DEADLOCK FALSE
