SPECIFICATION Spec
CONSTANTS
  t1 = t1
  t2 = t2
  t3 = t3
  Tab = {t1, t2}
  NoSeq = NoSeq
  SeenCap = 2
  MaxRow = 3
  MaxInbox = 2
  MaxDrops = 1
INVARIANTS TypeOK ShownOnce
PROPERTY NothingMissed
CHECK_DEADLOCK FALSE
