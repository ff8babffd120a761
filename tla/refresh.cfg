SPECIFICATION FairSpec
CONSTANTS
  quarterly = quarterly
  hourly = hourly
  Timer = {quarterly, hourly}
  Every <- Period
  Threshold = 2
  Life = 6
  Token = {1, 2, 3, 4}
  MaxFaults = 3
INVARIANTS TypeOK KeepsRefresh CredstoreFollows StaysLive
PROPERTY Recovers
