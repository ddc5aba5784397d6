SPECIFICATION Spec
CONSTANTS
  X = 2
  S = 2
  DeltaH <- Rounded
  Rng <- MCRng
  Uniform <- MCUniform
  AfterUniform <- MCAfterUniform
  Exp <- MCExp
  MaxCalls = 1
INVARIANTS
  AllAgree
  GeneratorsInStep
  StopsForCause
  DecisionIsOrigins
PROPERTIES EndsTogether
\* the program ends after MaxCalls calls or on an error
CHECK_DEADLOCK FALSE
