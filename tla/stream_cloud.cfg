\* Two sessions that compete for one slot; one stop request each, next to the
\* cleanup worker's.
SPECIFICATION Spec
CONSTANTS
  Sessions = {s1, s2}
  Clicks = {k1}
  MaxActive = 1
SYMMETRY Symmetry
CONSTRAINT RequestsBound
INVARIANT ActiveHasMedia
PROPERTY AdmissionSpec
