SPECIFICATION Spec
CONSTANTS
  NX <- Hypercube
  PtGaugeUses <- OnePlace
  MaxUpdates = 2
INVARIANTS
  BoundaryWhileInUse
  FieldRestored
  OrderInUse
  SmearedCurrent
