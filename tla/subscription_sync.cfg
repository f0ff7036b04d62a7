\* Two subscriptions with three reports together, two requests at a time, and the end of
\* one billing period.  When there is nothing more to report, everybody may have to stop.
SPECIFICATION Spec
CONSTANTS
  Subscriptions = {s1, s2}
  Handlers = {h1, h2}
  MaxReports = 3
  MaxPeriods = 1
CHECK_DEADLOCK FALSE
SYMMETRY Symmetry
VIEW View
INVARIANT EndedGrantsNothing
