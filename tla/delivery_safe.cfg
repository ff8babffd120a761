SPECIFICATION Spec
CONSTANTS
  m1 = m1
  Msg = {m1}
  Reply = {}
  Healers = {"janitor", "stale-check"}
  Practices = {"ack", "drop", "withdraw", "freeze", "crash", "abort", "refuse"}
INVARIANTS
  TypeOK
  WorkHasFile
PROPERTY
  EndedStaysEnded
