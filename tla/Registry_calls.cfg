CONSTANTS
  serve = serve
  work = work
  chat = chat
  c1 = c1
  c2 = c2
  NoRows = NoRows
  Service = {chat}
  Process = {serve, work}
  Server = {serve}
  Caller = {c1, c2}
  MaxSets = 2
SPECIFICATION FairSpec
INVARIANTS
  TypeOK
  NotRegisteredIsTrue
  SetsFollowServices
PROPERTY EventuallyCurrent
