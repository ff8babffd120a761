SPECIFICATION Spec
CONSTANTS
  r1 = r1
  r2 = r2
  r3 = r3
  p1 = p1
  p2 = p2
  Row = {r1, r2, r3}
  Sent = {r1}
  Poller = {p1, p2}
  Work <- Mixed
  NoRow = NoRow
  Practices = {"ack", "reopen", "recovery", "crash", "lag", "shirk"}
SYMMETRY Sym
INVARIANTS HumanPaced GateHolds
PROPERTY HookAfterVerdict
CHECK_DEADLOCK FALSE
