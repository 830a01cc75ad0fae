SPECIFICATION FairLifeSpec
CONSTANTS
  Workers = {w1, w2}
  NoThread = NoThread
  MaxTasks = 3
  Hanging = {2}
INVARIANTS
  LifeTypeOK
  SingleDatabase
  TasksUseLiveObjects
PROPERTIES
  GetInstanceEnds
  MainReturns
  EveryTaskStarts
  ImplementsThreadPool
  ImplementsTaskQueue
CHECK_DEADLOCK FALSE
