SPECIFICATION FairSpec
CONSTANTS
  long = long
  note = note
  copy = copy
  short = short
  misfiled = misfiled
  Doc <- Documents
  Versions = 2
  Long = {long}
  Original <- CopyOf
  Excluded = {}
  Misfiled = {misfiled}
  Deprecated = {long}
  Indexed <- Gate1
  Alike <- Resembling
  MaxRetries = 2
  Setups <- Systems
INVARIANTS TypeOK Accounted
PROPERTIES GateRespected DryRunIsDry Settles
