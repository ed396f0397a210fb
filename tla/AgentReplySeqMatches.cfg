CONSTANTS
  n1 = n1
  n2 = n2
  n3 = n3
  p1 = p1
  Names = {n1, n2, n3}
  Passwords = {p1, p2}
  Profiles = {i1}
  MaxUserID = 2
  Conns = {1}
  Seqs = {1, 2}
  Targets = {2, 4}
  MaxMsgs = 0
  MaxAgentCalls = 2
  DbOutcomes = {"ok"}
  Cmds = {"agent", "password"}
  NoPassword = noPassword
  DbDefault = dbDefault
  CacheDefault = cacheDefault
  GroupBoundary = 3
  MaxGroupID = 4
  Editors = {1}
  StoredUsers <- MCStoredUsers
  StoredRel <- MCStoredRel
SPECIFICATION SessionSpec
INVARIANT AgentReplySeqMatches
