CONSTANTS
  MaxBlocks = 2
  MaxParts = 3
  MaxErrors = 2
SPECIFICATION LinkSpec
INVARIANTS LinkTypeOK AnswerIsRight FailsOnceOnly
