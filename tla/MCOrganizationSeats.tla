------------------------ MODULE MCOrganizationSeats -------------------------
EXTENDS OrganizationSeats, TLC

CONSTANTS founder, guest1, guest2

Guests == {guest1, guest2}

\* Handlers, invitations and guests are interchangeable.
Symmetry == Permutations(Handlers) \cup Permutations(Invitations) \cup Permutations(Guests)

\* States are told apart by what can still be read: not the role of somebody who
\* is no member and about whom no change is in progress, nor the row of an
\* invitation that is over and in no handler's hands.
Changed(u) == \E h \in Handlers : work[h].kind \in Changes /\ work[h].user = u
InHand(i) == \E h \in Handlers : work[h].kind \in Answers /\ work[h].invitation = i
View ==
  <<member, [u \in Users |-> IF member[u] \in Members \/ Changed(u) THEN role[u] ELSE "NONE"],
    [i \in Invitations |->
       IF invitation[i] = NoInvitation \/ Pending(i) \/ InHand(i) THEN invitation[i]
       ELSE [status |-> "OVER"]],
    charged, work, raced, history>>
==============================================================================
