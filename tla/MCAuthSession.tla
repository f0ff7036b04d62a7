---------------------------- MODULE MCAuthSession ---------------------------
EXTENDS AuthSession, TLC

\* Users, sessions, tokens and handlers are interchangeable.
Symmetry == Permutations(Users) \cup Permutations(Sessions)
              \cup Permutations(Tokens) \cup Permutations(Handlers)
=============================================================================
