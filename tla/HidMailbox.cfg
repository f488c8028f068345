CONSTANTS
  MaxRequests = 2
  MaxSends = 2
  MaxAccesses = 1
  Period = 2
SPECIFICATION FairSpec
INVARIANTS TypeOK AnswersAreOwn ExecutedAsSent
PROPERTY EveryRequestIsAnswered
