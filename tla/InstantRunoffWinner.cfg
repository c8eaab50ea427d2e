SPECIFICATION Spec
CONSTANTS
  nCand = 4
  nRounds = 3
  bits = 3
  nRankings <- MCnRankings
  rankingAt <- MCrankingAt
  getCandRemovedPos <- MCgetCandRemovedPos
  getFirstRankedPos <- MCgetFirstRankedPos
  Lots <- MCLots
  MaxBallots = 2
INVARIANT CompleteEvaluationHasOneWinner
CHECK_DEADLOCK FALSE
