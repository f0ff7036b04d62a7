------------------------------ MODULE MCSignIn ------------------------------
EXTENDS SignIn, TLC

Symmetry == Permutations(Handlers)

\* What follows a change of the enrollment under a request in hand is not explored.
Orderly == ~raced

\* Of the codes that were used, those still of use, or used too often.
Known == {mfa.secret, recovery.of} \cup {work[h].secret : h \in Handlers}
View == <<account, linked, transactions, mfa, recovery, now, work, secrets, confirmed, opened, missed, raced,
          {<<c, uses[c]>> : c \in {d \in Codes : uses[d] > 1 \/ (uses[d] = 1 /\ d[1] \in Known)}}>>
=============================================================================
