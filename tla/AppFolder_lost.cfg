SPECIFICATION Spec
CONSTANTS
  Requests = {r1, r2}
  Sessions = {s1, s2}
  Default = {s1}
  Batches = {{s1}, {s2}}
  Contents <- FirstFile
  App = app
  NoId = noid
  Provisioned = FALSE
  MaxEdits = 1
INVARIANT AcknowledgedKept
