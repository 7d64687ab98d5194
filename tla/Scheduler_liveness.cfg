SPECIFICATION FairSpec
CONSTANTS
  w1 = w1
  NoWorker = NoWorker
  Instance = {i1}
  Tick = {t1, t2}
  Worker = {t1, t2}
  WorkerOf <- OwnWorker
  Client = {c1}
  MaxSignals = 2
  MaxCalls = 1
  MaxFaults = 2
  Faults = {"abandon", "save", "timeout"}
PROPERTIES PendingPickedUp CancelCarriedOut SignalAnswered
CHECK_DEADLOCK FALSE
