\* Two runtimes, two requests at a time, two observations, one notice, one change of the
\* generation.  When the bounds are reached, everybody may have to stop.
SPECIFICATION Spec
CONSTANTS
  Runtimes = {r1, r2}
  Handlers = {h1, h2}
  OnlineNotices = {}
  OfflineNotices = {off}
  None = None
  MaxObservations = 2
  MaxGeneration = 2
CHECK_DEADLOCK FALSE
SYMMETRY Symmetry
VIEW View
INVARIANT EventsTellStatus
PROPERTY NewerOnly
