\* The calls are bounded, the module is loaded once, and the model stops where
\* the driver may do anything.
CONSTANTS
  Readers = {r1}
  Writers = {w1, w2}
  Sizers = {s1}
  ReadCalls = 2
  WriteCalls = 1
  ResizeCalls = 1
  Counts = {0, 2}
  Letters = {a}
  Nul = Nul
  Garbage = Garbage
  Size = 3
  Values = {0, 1, 2, 5}
SPECIFICATION Spec
INVARIANTS InBounds
PROPERTIES  LengthOfOneMoment
CHECK_DEADLOCK FALSE
