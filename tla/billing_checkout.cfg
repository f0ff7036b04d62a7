\* Three checkouts, two requests at a time.  When all keys are used, everybody
\* may have to stop.
SPECIFICATION FairCheckoutSpec
CONSTANTS
  Keys = {k1, k2, k3}
  Handlers = {h1, h2}
CHECK_DEADLOCK FALSE
INVARIANT OnePayable
PROPERTY LockIsReleased
