SPECIFICATION Spec
CONSTANTS
  nCand = 4
  nRounds = 4
  bits = 3
  nRankings <- MCnRankings
  rankingAt <- MCrankingAt
  getCandRemovedPos <- MCgetCandRemovedPos
  getFirstRankedPos <- MCgetFirstRankedPos
  Lots <- MCLots
  MaxBallots = 5
INVARIANTS TallyIsTheBallotsStruck MajorityCandidateStays
PROPERTIES EarlierVotesDecideTies EveryRoundEliminates ImplementsRunoffCount
CHECK_DEADLOCK FALSE
