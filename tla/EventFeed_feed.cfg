SPECIFICATION FairSpec
CONSTANTS
  w1 = w1
  w2 = w2
  Writer = {w1, w2}
  Instances <- Watched
  MaxRow = 3
  Batch = 1
  MaxResumes = 1
  Backlog = TRUE
INVARIANTS TypeOK NothingSkipped InOrder
PROPERTIES DeliversOnce RowsArrive
