CONSTANTS
  Slots = {s1, v}
  VerifySlot = v
  Tokens = 3
  LookAhead = 2
  Modulus = 11
  Seeds <- MCSeeds
  MaxCounter = 9
  MaxCut = 1
  Unknown = Unknown
SPECIFICATION Spec

INVARIANT ReadyForNextValidation
CHECK_DEADLOCK FALSE
