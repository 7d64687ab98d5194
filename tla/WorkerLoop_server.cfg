SPECIFICATION Spec
CONSTANTS
  loop = loop
  caller = caller
  poison = poison
  plain = plain
  busy = busy
  Instance = {poison, plain, busy}
  Poison = {poison}
  Caller = {caller}
  Loop = loop
  Lease = 6
  Beat = 2
  RunTimeout = 3
  MaxBackoff = 3
  LoopBudget = 1
  LoopItems = 2
  AskedBudget = {0, 9}
  DefaultBudget = 1
  MaxBudget = 2
  AskedItems = {0, 9}
  DefaultItems = 1
  MaxItems = 2
  MaxOutages = 1
INVARIANTS TypeOK TickBounded NothingDropped
PROPERTIES EveryoneRuns StopsWhenAsked
CHECK_DEADLOCK FALSE
