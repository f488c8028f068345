CONSTANTS
  Clear = 1
  Normal = 2
  PowerOn = 3
  Long = 4
  AnswerTime = 5
  MaxAge = 5
  MaxCommands = 2
SPECIFICATION FairLockSpec
INVARIANTS LockTypeOK LeasesExclude CardSharedOnlyAfterOverrun
PROPERTY EveryCommandEnds
