SPECIFICATION Spec
CONSTANTS
  w1 = w1
  NoWorker = NoWorker
  Instance = {i1}
  Tick = {t1}
  Worker = {t1}
  WorkerOf <- OwnWorker
  Client = {c1}
  MaxSignals = 1
  MaxCalls = 0
  MaxFaults = 0
  Faults = {}
INVARIANTS FinishedNotRunnable
CHECK_DEADLOCK FALSE
