\* The file is there; the app writes it until three writes were made.  A user or two in
\* the browser.
SPECIFICATION UserSpec
CONSTANTS
  Requests = {r1, r2}
  Sessions = {s1, s2}
  Default = {s1}
  Batches = {{s1}, {s2}}
  Contents <- FirstFile
  App = app
  NoId = noid
  Provisioned = TRUE
  MaxEdits = 3
  Users = {r1, r2}
  None = none
  PerKind = 1
  MaxEvents = 4
  MaxRejects = 0
  Accounts = {r1, r2}
  Nobody = none
  Resources = {schedule}
  Cleared = {schedule}
  MaxLoads = 2
  MaxVersion = 2
  MaxSignIns = 2
  MaxFaults = 1
SYMMETRY Interchangeable
INVARIANTS TypeOK SnapshotCurrent SurveyOnce  OwnBookmarks
PROPERTIES DocSerial ImplementsUserDoc ShownNeverOlder
