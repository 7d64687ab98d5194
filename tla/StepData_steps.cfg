SPECIFICATION Spec
CONSTANTS
  one = one
  two = two
  x = x
  y = y
  n42 = n42
  number42 = number42
  null = null
  blank = blank
  redacted = redacted
  noFields = noFields
  routeId = routeId
  Step = {one, two}
  Key = {"a", "b", "c", "r", "id", "secret", "response"}
  Leaf = {x, y, n42, number42, null, blank, redacted, noFields, routeId}
  Null = null
  Blank = blank
  Redacted = redacted
  NoFields = noFields
  Parsed <- JsonText
  Sensitive = {"secret"}
  IdKey = "id"
  RouteId = routeId
  TextField = TextField
  NumberField = NumberField
  Fields <- Message
  Designs <- TwoSteps
  Data <- StartData
  Results <- StepResults
INVARIANTS TypeOK DeployCatches
PROPERTIES OnlyTargetsChange OutputsRead LogMatchesShown
CHECK_DEADLOCK FALSE
