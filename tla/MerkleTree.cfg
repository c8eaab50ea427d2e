SPECIFICATION Spec
CONSTANTS
  Depth = 3
  MaxRepeated = 3
INVARIANTS TypeOK TreeIsComplete ProofIsMinimal ValidatesExactlyTheLeaves HashCountIsExact
PROPERTY Terminates
CHECK_DEADLOCK FALSE
