SPECIFICATION Spec
CONSTANTS
  Size <- Lattice4
  Machines <- Boxes
  ArgFiles <- Written
  Fates <- Outcomes
  Period = 2
  LastTraj = 6
  MaxKills = 2
INVARIANT
  MeasuredOnce
PROPERTIES
  ImplementsEvolution
  Finishes
\* the evolution ends with trajectory LastTraj
CHECK_DEADLOCK FALSE
