CONSTANTS
  Names = {n1}
  Passwords = {p1, p2}
  NoPassword = noPassword
  Profiles = {i1}
  DbDefault = dbDefault
  CacheDefault = cacheDefault
  GroupBoundary = 10
  MaxUserID = 2
  MaxGroupID = 11
  Editors = {1}
SPECIFICATION Spec
INVARIANTS IndexesAgree NextIdIsFree
  AckedRowsRegistered
PROPERTY NameResolutionStable
