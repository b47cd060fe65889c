SPECIFICATION FairSpec
CONSTANTS
  ThreadCount = 2
  QueueSize = 2
  Early = {}
  Clients = {c1, c2}
  Destroyers = {c1, c2}
  Tasks = {t1}
  NoTask = NoTask
PROPERTY
  WorkersLeave
