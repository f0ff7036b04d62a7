\* The founder and two more users, three invitations, two handlers at a time, a plan
\* for two users.  In the end nobody may be left who can do anything.
SPECIFICATION Spec
CONSTANTS
  founder = founder
  guest1 = guest1
  guest2 = guest2
  Founder = founder
  Users = {founder, guest1, guest2}
  Invitations = {i1, i2, i3}
  Handlers = {h1, h2}
  MaxUsers = 2
  MaxRaces = 0
CHECK_DEADLOCK FALSE
SYMMETRY Symmetry
VIEW View
INVARIANTS SeatsCovered SeatsExact OwnerRemains
