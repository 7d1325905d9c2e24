SPECIFICATION Spec
CHECK_DEADLOCK FALSE \* time ends at MaxTime
CONSTANTS
  keynote = keynote
  talk = talk
  Sessions <- TheSessions
  Start <- TheStart
  Soon = {keynote}
  Surveyed = {keynote}
  Bookmarks = {keynote, talk}
  TimeoutStart = 5
  TimeoutSoon = 9
  TimeoutSurvey = 4
  Second = 2
  Minute = 3
  Limit = 3
  Clocks = {c1}
  Handlers = {h1}
  MaxTime = 12
  MaxEdits = 1
  MaxDrops = 0
SYMMETRY Interchangeable
INVARIANT NothingSkipped
