SPECIFICATION LigeroSpec
CONSTANTS
  P = 97
  Generator = 5
  InverseRatio = 2
  RS_extra_dimensions = 2
  NumInteractions = 2
  EncodingIndependence = 3
  NumLDTInstances = 2
  Setups <- MCSetups
  MemoryValues = {0, 71}
  Masks <- MCMasks
  Combinations <- MCCombinations
  LDTCoefficients <- MCLDTCoefficients
  Positions <- MCPositions
INVARIANTS ExecutableFollowsTheCircuit VerdictFollowsTheErrors
CHECK_DEADLOCK FALSE
