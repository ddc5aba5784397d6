SPECIFICATION Spec
CONSTANT Machines <- LineAndGrid
INVARIANTS
  TypeOK
  BacklogBounded
PROPERTIES ImplementsGlobalSum
\* the nodes stop after their last sum
CHECK_DEADLOCK FALSE
