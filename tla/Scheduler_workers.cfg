SPECIFICATION Spec
CONSTANTS
  w1 = w1
  NoWorker = NoWorker
  Instance = {i1}
  Tick = {t1, t2}
  Worker = {t1, t2}
  WorkerOf <- OwnWorker
  Client = {c1}
  MaxSignals = 2
  MaxCalls = 1
  MaxFaults = 1
  Faults = {"overrun", "abandon", "timeout"}
SYMMETRY Symmetry
INVARIANTS TypeOK NoLostWakeup AppliedOnceInOrder
PROPERTIES SignalsKept ProgressKept
CHECK_DEADLOCK FALSE
