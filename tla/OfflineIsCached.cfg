CONSTANTS
  n1 = n1
  n2 = n2
  n3 = n3
  p1 = p1
  Names = {n1, n2, n3}
  Passwords = {p1, p2}
  Profiles = {i1}
  MaxUserID = 2
  Conns = {1, 2}
  Seqs = {1}
  Targets = {2, 4}
  MaxMsgs = 2
  MaxAgentCalls = 0
  DbOutcomes = {"ok"}
  Cmds = {"chat", "multichat"}
  NoPassword = noPassword
  DbDefault = dbDefault
  CacheDefault = cacheDefault
  GroupBoundary = 3
  MaxGroupID = 4
  Editors = {1}
  StoredUsers <- MCStoredUsers
  StoredRel <- MCStoredRel
SPECIFICATION SessionSpec
PROPERTY OfflineIsCached
