SPECIFICATION Spec
CONSTANTS
  Workers = {w1, w2, w3}
  NoThread = NoThread
  MaxTasks = 4
  Hanging = {}
SYMMETRY WorkerSymmetry
INVARIANTS
  TypeOK
  IndInv
  NoLostWakeup
  StopReachesAll
  ExactlyOnce
  DestructorDrains
