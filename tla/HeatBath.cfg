SPECIFICATION Spec
CONSTANTS
  L <- EightByFour
  P = 101
  Jobs <- SomeJobs
INVARIANTS
  SameOnAnyMachine
PROPERTIES
  ImplementsSweep
