SPECIFICATION FairSpec
CONSTANTS
  nOracles = 3
  nVirtual = 2
  constituents <- MCconstituents
  Challenged = {4, 5}
  CachedWhole = {4}
  trees <- MCtrees
  domainSize = 2
  HashValues = {0, 3}
  nRandom = 2
  nDeterministic = 1
  seeds <- MCseeds
  calculator <- MCcalculator
  queries <- MCqueries
  CarefulCallers = TRUE
INVARIANTS TranscriptAnswersEveryQuery CachesAreCurrent
PROPERTIES ImplementsOracleAccess VerifierHearsEveryAnswer
CHECK_DEADLOCK FALSE
