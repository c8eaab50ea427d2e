SPECIFICATION Spec
CONSTANTS
  P = 67
  nVotes = 3
  nGrades = 3
  bitsVotes = 2
  maxVotesCand = 2
  maxChoices = 3
  orderedPoints <- MCorderedPoints
  a = 2
  b = 1
  Kinds <- MCMulti
  MaxVoters = 4
  threshold = 2
  mEntries = 2
INVARIANT NobodyVotesMoreThanGranted
CHECK_DEADLOCK FALSE
