SPECIFICATION BcsFairSpec
CONSTANTS
  DomainSizes <- MCDomainSizes
  Degrees <- MCDegrees
  MessageSizes <- MCMessageSizes
  MaxDomains = 2
  MaxOracles = 3
  MaxMessages = 1
  MaxRandoms = 2
  MaxQueries = 2
  CarefulCallers = TRUE
INVARIANTS BcsTypeOK ChallengesBindEarlierRounds TreesFollowRounds ChallengesAgree PositionsFollowTheRounds
PROPERTIES ImplementsPublicCoinProof HonestProofIsAccepted
CHECK_DEADLOCK FALSE
