SPECIFICATION Spec
CONSTANTS
  P = 67
  nVotes = 3
  nGrades = 3
  bitsVotes = 2
  maxVotesCand = 2
  maxChoices = 3
  orderedPoints <- MCorderedPoints
  a = 2
  b = 1
  Kinds <- MCAllKinds
  MaxVoters = 4
  threshold = 2
  mEntries = 2
INVARIANTS TypeOK EveryBallotWeighsTheSame ResultsFollowTheTally OnlyAFullTallyIsUnprovable RoundsStayInSmithSet FirstRoundKeepsHighestMedian
CHECK_DEADLOCK FALSE
