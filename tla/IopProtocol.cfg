SPECIFICATION FairSpec
CONSTANTS
  DomainSizes <- MCDomainSizes
  Degrees <- MCDegrees
  MessageSizes <- MCMessageSizes
  MaxDomains = 1
  MaxOracles = 4
  MaxMessages = 1
  MaxRandoms = 3
INVARIANTS TypeOK RoundsPartitionEntries IndicesInRange SubmissionsFollowRounds LaterMessagesAfterCommitment HolographicStartsWithProver
PROPERTIES SealedRoundsAreFixed EveryRoundIsFinished
CHECK_DEADLOCK FALSE
