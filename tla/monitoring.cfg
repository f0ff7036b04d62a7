\* One gateway with one motion, three events, two requests or turns at a time; two motions
\* that are judged while two settings change; two tabs and one change; a player with
\* two polls under way.  When rows run out, everybody may have to stop.
SPECIFICATION MCSpec
CONSTANTS
  Motions = {m1}
  Handlers = {h1, h2}
  MaxAttempts = 2
  MaxEvents = 3
  Channel <- TwoChannels
  Reports = {e1, e2}
  Moments = {2, 3}
  Day = 3
  Window = 1
  Repeats = 2
  Intervals <- PastMidnight
  Openings <- Special
  MaxChanges = 2
  Tabs = {t1, t2}
  MaxConnections = 2
  MaxVersions = 1
  MaxLoads = 2
  MaxPolls = 2
  MaxEffects = 3
CHECK_DEADLOCK FALSE
SYMMETRY Symmetry
CONSTRAINT Separate
VIEW View
INVARIANTS AlertTellsPresence EventsAlerted RowTellsDelivery Grounded ShownIsFresh OnePicture
PROPERTY DisabledStays
