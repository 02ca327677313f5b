\* Each process makes one call, and the table changes a few times.
CONSTANTS
  Tasks = {1, 2, 3}
  Pids = {1, 2, 3}
  Uids = {0, 1, 2}
  Names = {3, 5}
  Changes = 3
  Callers = {c1}
  Sizes = {1, 2}
  MAX_UID = 2
  Count = Count
  Undefined = Undefined
  Writers = {w1, w2}
  Readers = {r1}
  WriteCalls = 1
  ReadCalls = 2
  Ids = {2, 7}
SPECIFICATION Spec
PROPERTIES OneMoment BusiestUser NameOfPid AnswerOfLast
CHECK_DEADLOCK FALSE
