SPECIFICATION FairSpec
CONSTANTS
  m1 = m1
  Msg = {m1}
  Reply = {}
  Healers = {"janitor", "watcher"}
  Practices = {"freeze", "crash", "refuse"}
INVARIANTS
  CountBounded
PROPERTIES
  EveryMessageEnds
