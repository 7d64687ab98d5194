SPECIFICATION Spec
CONSTANTS
  call = call
  task = task
  script = script
  NoElement = NoElement
  Element = {call, task, script}
  Service = {call}
  Waiter = {task}
  Script = {script}
  MaxValue = 1
  MaxEvents = 3
  MaxLost = 2
  MaxLate = 1
  MaxRetriers = 2
CONSTRAINT LateCounted
INVARIANTS TypeOK WaitsAreTrue RunsAreTrue ChangesAreOwn SeamMarked
CHECK_DEADLOCK FALSE
