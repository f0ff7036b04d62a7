\* One user, three sessions, three one-time tokens, two handlers at a time, the
\* password changed twice.  When rows run out, everybody may have to stop.
SPECIFICATION Spec
CONSTANTS
  Users = {u1}
  Sessions = {s1, s2, s3}
  Tokens = {t1, t2, t3}
  Handlers = {h1, h2}
  MaxPasswords = 2
CHECK_DEADLOCK FALSE
SYMMETRY Symmetry
INVARIANTS OneLivePerFamily PasswordEndsFamilies
PROPERTY DeadFamilyStaysDead
