SPECIFICATION Spec
CONSTANTS
  NP <- TwoNodes
  Program <- transfer
INVARIANTS SecondNeighbour
\* the nodes stop after the last transfer
CHECK_DEADLOCK FALSE
