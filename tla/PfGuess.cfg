SPECIFICATION Spec
CONSTANTS
  Actions <- OneAction
  Kind <- OneKind
  Chrono <- OneChrono
  Degree <- OneDegree
  Leaves <- OneLeaf
  ActionOf <- OneActionOf
  Ranges <- NoRanges
  Schedules <- OneSchedule
  Testss = {1}
  Reverses = {FALSE, TRUE}
  MaxTraj = 2
INVARIANTS
  GuessUsesHistory
\* the program ends after the last trajectory, or with an error
CHECK_DEADLOCK FALSE
