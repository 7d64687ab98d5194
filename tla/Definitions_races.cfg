CONSTANTS
  c1 = c1
  c2 = c2
  c3 = c3
  Name = {1, 2}
  Caller = {c1, c2, c3}
  DeployAttempts = 2
  MaxVersion = 2
  PageSize = 1
SPECIFICATION Spec
SYMMETRY Alike
INVARIANTS
  TypeOK
  NumberedWithoutGaps
  GivesUpOnlyWhenBeaten
  VersionsFollowTime
  ListMissesNothing
