SPECIFICATION Spec
CONSTANTS
  P = 7
  Trees <- AllTrees
  ForceOf <- MCForce
  dts = {3}
  stepss = {1, 2}
INVARIANTS
  Reversible
  FullTime
\* the program ends after the reversibility test
CHECK_DEADLOCK FALSE
