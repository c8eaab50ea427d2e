SPECIFICATION BcsSpec
CONSTANTS
  DomainSizes <- MCDomainSizes
  Degrees <- MCDegrees
  MessageSizes <- MCMessageSizes
  MaxDomains = 2
  MaxOracles = 3
  MaxMessages = 1
  MaxRandoms = 2
  MaxQueries = 2
  CarefulCallers = TRUE
INVARIANT QueriesFollowProofOfWork
CHECK_DEADLOCK FALSE
