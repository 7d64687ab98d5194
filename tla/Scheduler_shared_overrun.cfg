SPECIFICATION Spec
CONSTANTS
  w1 = w1
  NoWorker = NoWorker
  Instance = {i1}
  Tick = {t1, t2}
  Worker = {w1}
  WorkerOf <- SharedWorker
  Client = {c1}
  MaxSignals = 1
  MaxCalls = 1
  MaxFaults = 1
  Faults = {"overrun"}
PROPERTIES ProgressKept
CHECK_DEADLOCK FALSE
