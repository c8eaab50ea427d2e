SPECIFICATION Spec
CONSTANTS
  P = 97
  Generator = 5
  CodewordDomain <- MCCodewordDomain
  PolyDegreeBound = 8
  LocalizationParameters <- MCLocalizationParameters
  InteractiveRepetitions = 2
  QueryRepetitions = 2
  Polynomials <- MCPolynomials
  Challenges <- MCChallenges
INVARIANTS NextCodewordInterpolatesEveryCoset
CHECK_DEADLOCK FALSE
