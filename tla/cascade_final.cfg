SPECIFICATION Spec
CONSTANTS
  t1 = t1
  t2 = t2
  t3 = t3
  c1 = c1
  c2 = c2
  h1 = h1
  Task = {t1, t2}
  Client = {c1}
  Healer = {}
  PlanAuthorized = {}
  Reviewed = {t1}
  Trivial = {}
  Practices = {"block", "ack", "late", "named", "ping"}
SYMMETRY Sym
PROPERTY OutcomeFinal
CHECK_DEADLOCK FALSE
