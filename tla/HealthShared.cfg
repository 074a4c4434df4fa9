SPECIFICATION Spec
CONSTANTS
  Main = Main
  Setter = Setter
  None = None
  c1 = c1
  s1 = s1
  s2 = s2
  s3 = s3
  Checks <- MCChecks
  Segments <- MCSegments
  Env <- MCKills
INVARIANT OwnerHoldsLink
INVARIANT SharedIsSaid
INVARIANT ExclusiveAccess
PROPERTY CheckEnds
