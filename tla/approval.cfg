SPECIFICATION FairSpec
CONSTANTS
  a1 = a1
  a2 = a2
  t1 = t1
  t2 = t2
  u1 = u1
  u2 = u2
  c1 = c1
  c2 = c2
  Call = {c1, c2}
  Agent = {a1, a2}
  Action <- Actions
  Subject = {u1, u2}
  Token = {t1, t2}
  NoToken = NoToken
  Grants <- ForTokens
  Requests <- Asked
  ActionRegistry <- Registry
  HighRisk = {"drive.files.delete", "gmail.messages.send", "files.delete"}
  MediumRisk = {}
  Scopes <- ScopesByService
  TakesToken = {"drive.files.delete", "gmail.messages.send"}
  MaxChanges = 1
  MaxFaults = 1
INVARIANTS TypeOK Licensed LogCovers RightService
PROPERTY RowsClosed
CHECK_DEADLOCK FALSE
