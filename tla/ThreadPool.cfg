SPECIFICATION FairSpec
CONSTANTS
  ThreadCount = 2
  QueueSize = 2
  Early = {1}
  Clients = {c1, c2}
  Destroyers = {c1, c2}
  Tasks = {t1, t2, t3, t4}
  NoTask = NoTask
INVARIANTS
  TypeOK
  QueueOrder
  NoIdleWorker
  DestroyedIsQuiet
PROPERTIES
  TasksRun
  DestroyReturns
