SPECIFICATION FairSpec
CONSTANTS
  Field <- MCField
  Noise <- MCNoise
  Rng <- MCRng
  NoField = NoField
  NoRng = NoRng
  Draw <- MCDraw
  AfterHeatbath <- MCAfterHeatbath
  AfterUniform <- MCAfterUniform
  MdField <- MCMdField
  MdNoise <- MCMdNoise
  Reversed <- MCReversed
  Unitary <- MCUnitary
  Energy <- MCEnergy
  Lucky <- MCLucky
  Checksum <- MCChecksum
  HmcArgs <- AllArgs
  MaxTraj = 2
INVARIANTS
  IInv
  SameStart
  DeltaHExact
  StopsOnlyIfFaulty
PROPERTIES
  ImplementsChain
  Terminates
\* the program ends after MaxTraj trajectories or on an error
CHECK_DEADLOCK FALSE
