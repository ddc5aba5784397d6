SPECIFICATION Spec
CONSTANTS
  Actions <- AllActions
  Kind <- AllKind
  Chrono <- AllChrono
  Degree <- AllDegree
  Leaves <- AllLeaves
  ActionOf <- AllActionOf
  Ranges <- AllRanges
  Schedules <- AllSchedules
  Testss = {1, 2}
  Reverses = {TRUE, FALSE}
  MaxTraj = 2
INVARIANTS
  GuessesOfThisTest
  SameGuesses
  PolesPartitioned
PROPERTIES
  EnergyCountedOnce
  HeatbathDrawsEachOnce
\* the program ends after the last trajectory, or with an error
CHECK_DEADLOCK FALSE
