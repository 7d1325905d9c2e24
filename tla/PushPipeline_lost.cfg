SPECIFICATION FairSpec
CONSTANTS
  gcm = gcm
  e1 = e1
  e2 = e2
  Endpoints = {gcm, e1, e2}
  Bare = gcm
  Canonical <- MovedTo
  Legacy = {e1}
  Matches = TRUE
  Workers = {w1, w2}
  MaxTaskRetry = 1
  ScheduleTries = 2
  TotalFailures = TRUE
  MaxChanges = 1
  MaxRequests = 0
  MaxMoves = 0
  MaxFaults = 1
PROPERTY EveryDevicePinged
