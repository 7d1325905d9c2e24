\* A day of push events that overlap (a short one of overlapping clock runs is defined
\* in the module), and two syncs without the counter, of which one may end midway.
SPECIFICATION FeedSpec
CONSTANTS
  keynote = keynote
  talk = talk
  Sessions <- TheSessions
  Start <- TheStart
  Soon = {keynote}
  Surveyed = {keynote}
  Bookmarks = {keynote, talk}
  TimeoutStart = 5
  TimeoutSoon = 9
  TimeoutSurvey = 4
  Second = 2
  Minute = 3
  Limit = 1
  Clocks = {p3}
  OtherClocks = {p1, p2}
  Handlers = {p1, p2}
  OtherHandlers = {p3}
  MaxTime = 16
  MaxEdits = 0
  MaxDrops = 1
  Syncs = {p1, p2}
  Keys = {k1}
  MaxVersion = 3
  MaxErrors = 1
  MaxCrashes = 1
  MaxLock = 2
  ReleaseBy = 4
SYMMETRY Interchangeable
INVARIANTS RemindersOnce NothingHidden OverlapsLogged
\* Time ends at MaxTime.
CHECK_DEADLOCK FALSE
