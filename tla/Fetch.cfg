SPECIFICATION FairSpec
CONSTANTS
  Answers <- MCAnswers
  StationLimit = 3
INVARIANTS TypeOK OneAnswer EmptyOnlyAfterAllTries WarnedUnlessThrown
PROPERTY CallReturns
CHECK_DEADLOCK FALSE
