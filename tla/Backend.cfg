\* Two syncs and a reader while memcache keeps the counter, one instance may end;
\* two requests of a user without a file, and the app; one device that signs in and two
\* requests whose access token may be over.
SPECIFICATION BackendSpec
CONSTANTS
  Syncs = {s1, s2}
  Readers = {r1}
  Keys = {k1}
  MaxVersion = 3
  MaxErrors = 1
  MaxCrashes = 1
  MaxLock = 3
  ReleaseBy = 4
  Evictions = FALSE
  Requests = {q1, q2}
  Sessions = {talk}
  Default = {talk}
  App = app
  NoId = noid
  MaxEdits = 3
  SignIns = {d1}
  Uses = {u1, u2}
  CommitTries = 3
  MaxRevokes = 1
  MaxFailures = 1
INVARIANTS TypeOK OneSync
PROPERTIES ImplementsScheduleData  FirstFileAnswered NobodyLockedOut
