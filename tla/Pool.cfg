SPECIFICATION FairSpec
CONSTANTS
  w1 = w1
  w2 = w2
  w3 = w3
  Worker <- MCWorker
  MaxTasks = 3
INVARIANTS TypeOK RunOnce Drained
PROPERTIES RefinesTaskPool EveryTaskRuns DestructorReturns
CHECK_DEADLOCK FALSE
