SPECIFICATION FairSpec
CONSTANTS
  gcm = gcm
  e1 = e1
  e2 = e2
  Endpoints = {gcm, e1, e2}
  Bare = gcm
  Canonical <- MovedTo
  Legacy = {e1}
  Matches = TRUE
  Workers = {w1, w2}
  MaxTaskRetry = 0
  ScheduleTries = 3
  TotalFailures = FALSE
  MaxChanges = 1
  MaxRequests = 1
  MaxMoves = 1
  MaxFaults = 2
PROPERTIES ImplementsPushRegistrations EveryDevicePinged
