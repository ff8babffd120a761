SPECIFICATION Spec
CONSTANTS
  m1 = m1
  Msg = {m1}
  Reply = {}
  Healers = {"watcher", "stale-check"}
  Practices = {"recovery", "pass8", "refuse"}
PROPERTY
  KeepsPromise
