------------------------- MODULE MCCameraOnboarding -------------------------
EXTENDS CameraOnboarding, TLC

Symmetry == Permutations(Requests) \cup Permutations(Verifications)

\* A verification reads nothing of the discovery but whether it is confirmed, and writes
\* nothing of it: their steps commute.  So it is enough to let the verification begin
\* when no request of the discovery is under way, to let none begin after that, and to
\* forget the discovery.
Verifying == \/ counter > 0 \/ \E h \in Requests : verificationWork[h] # V!Idle
             \/ manual > 0 \/ leaked > 0
             \/ \E v \in Verifications : verifications[v] # V!NoSession
Apart == Verifying => writers = {} /\ \A h \in Requests : discoveryWork[h] = D!Idle

\* One session at a time becomes due.
Few == Cardinality(due) <= 1

\* Nothing is said of a queue whose operations met, nor of the session of a discovery
\* whose reports were disturbed.
Told == ~overlapped
reporting == <<commands, scanning, waiting, file, writers, flush, queued, gone>>
View == IF Verifying THEN <<Confirmed, verification>>
        ELSE IF disturbed THEN <<reporting>> ELSE <<discovery, catalogue>>

\* The catalogue shares nothing with them: it is explored before they begin, up to one
\* manufacturer, two brands and an alias of each model.
Begun == session.status # "NONE" \/ Verifying
Small == /\ Cardinality(manufacturers) <= 1 /\ Cardinality(brands) <= 2
         /\ \A m \in models : Cardinality(m.aliases) <= 1
OneAtATime ==
  \/ manufacturers = {} /\ Onboard /\ UNCHANGED catalogue
  \/ ~Begun /\ C!CatalogueStep /\ UNCHANGED onboarding
MCSpec == OnboardingInit /\ [][OneAtATime]_<<onboarding, catalogue>>
=============================================================================
