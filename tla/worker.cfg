CONSTANTS
  polling = polling  notifications = notifications
  j1 = j1  j2 = j2  j3 = j3
  local = local
  NoUrl = NoUrl
  Queues <- MC_Queues
  Jobs <- MC_Jobs
  QueueOf <- MC_QueueOf
  REDIS_URL = NoUrl
  REDIS_HOST = local
  MaxSignals = 3
  MaxUnclean = 2
SPECIFICATION WorkerSpec
INVARIANTS
  WorkerTypeOK
  GracefulShutdown
  RunTwiceOnlyAfterUncleanEnd
  WorkerIInv
PROPERTIES
  ImplementsJobService
  ShutdownEnds
  JobsServed
CHECK_DEADLOCK FALSE
