SPECIFICATION WiredSpec
CONSTANTS
  t1 = t1
  t2 = t2
  t3 = t3
  c1 = c1
  c2 = c2
  h1 = h1
  Task = {t1, t2, t3}
  Client = {c1}
  Healer = {}
  PlanAuthorized = {t1}
  Reviewed = {t1}
  Trivial = {}
  Practices = {"late", "fan-in"}
INVARIANT Acyclic
PROPERTIES SettledRowsLeave EveryBlockReleased
CHECK_DEADLOCK FALSE
