SPECIFICATION FairSpec
CONSTANTS
  r1 = r1
  r2 = r2
  r3 = r3
  p1 = p1
  p2 = p2
  Row = {r1, r2}
  Sent = {r1}
  Poller = {p1}
  Work <- Gated
  NoRow = NoRow
  Practices = {"ack", "attention", "recovery"}

INVARIANTS TypeOK GateHolds
PROPERTY GateMoves
CHECK_DEADLOCK FALSE
