\* The program stops when main returns; that it does not stop before is what
\* Termination says.
CONSTANTS
  Nobody = Nobody
  Critic = Critic
  Readers = {r1, r2}
  Writers = {w1, w2, w3}
  ReaderRuns = 1
  WriterRuns = 2
  Values = {v1, v2}
  Initial = Initial
  MaxSpurious = 1
SPECIFICATION FairSpec
INVARIANTS NoLostWakeup EveryRoundSaved
PROPERTIES RoundFrozen ImplementsObject Termination
CHECK_DEADLOCK FALSE
