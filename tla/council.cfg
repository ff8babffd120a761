SPECIFICATION FairSpec
CONSTANTS
  r1 = r1
  r2 = r2
  Reviewer = {r1, r2}
  NoFooter = {r2}
  Setups <- Small
  MaxStuckRounds = 2
INVARIANTS TypeOK LoggedWasAsked NobodyStillFails
PROPERTIES KeepsPromise CouncilEnds
CHECK_DEADLOCK FALSE
