-------------------------- MODULE OrganizationSeats --------------------------
(***************************************************************************)
(* The members of one organization: their roles, the invitations, and the  *)
(* counter of seats that its plan limits.                                  *)
(*                                                                         *)
(* ResourceCounter.memberCount is one number, which every handler changes  *)
(* on behalf of one user; it is kept here as what each user has been       *)
(* charged, and the column is the sum over all users.                      *)
(*                                                                         *)
(* A handler that awaits between two effects is a handler in progress, and *)
(* any number of them interleave, also about the same user.  `raced`,      *)
(* `contested` and `lost` are history variables: they record which of them *)
(* did, and which died before giving a seat back.                          *)
(***************************************************************************)
EXTENDS Integers, FiniteSets, FiniteSetsExt

CONSTANTS Users,
          Founder,      \* who registered the organization
          Invitations,  \* the invitations that are ever written
          Handlers,     \* requests in progress at the same time
          MaxUsers,     \* Plan.maxUsers
          MaxRaces      \* bound: races after which no further handler begins

ASSUME UsersAssumption == IsFiniteSet(Users)
ASSUME FounderAssumption == Founder \in Users
ASSUME InvitationsAssumption == IsFiniteSet(Invitations)
ASSUME MaxUsersAssumption == MaxUsers \in Nat \ {0}

VARIABLES member,       \* OrganizationMembership.status ("NONE": no row)
          role,         \* OrganizationMembership.role
          invitation,   \* the OrganizationInvitation rows
          charged,      \* what memberCount holds on behalf of each user
          work,         \* what each handler is doing
          raced,        \* users about whom two handlers were in progress at once,
                        \* or an invite while an invitation expired
          contested,    \* whether two handlers relied on another owner at once
          lost          \* users for whom a handler died owing a seat

rows == <<member, role, invitation>>
history == <<contested, lost>>
vars == <<rows, charged, work, raced, history>>

\* VIEWER stands for OPERATOR and VIEWER, which are treated alike.
Roles == {"OWNER", "ADMIN", "VIEWER"}
Members == {"ACTIVE", "SUSPENDED"}
MemberStatuses == Members \cup {"NONE", "REMOVED"}

NoInvitation == [status |-> "NONE"]
\* LAPSED is PENDING past its expiresAt.
Invitation == [status : {"PENDING", "LAPSED", "ACCEPTED", "CANCELED", "EXPIRED"},
               user : Users, role : Roles]
Pending(i) == invitation[i].status \in {"PENDING", "LAPSED"}
Waiting(u) == {i \in Invitations : Pending(i) /\ invitation[i].user = u}
Expired(u) == {i \in Waiting(u) : invitation[i].status = "LAPSED"}

\* A handler knows the user it is about and how far it has come.  An invite
\* also counts the seats of expired invitations it has still to give back, a
\* change its actor's role as the middleware read it.
Idle == [kind |-> "idle"]
Changes == {"role", "suspend", "reactivate", "remove"}
Answers == {"cancel", "resend", "accept"}
Inviting == [kind : {"invite"}, user : Users, role : Roles, owed : Nat,
             pc : {"begun", "unique", "stranger", "reserved"}]
Changing == [kind : Changes, user : Users, role : Roles, by : {"OWNER", "ADMIN"},
             pc : {"begun", "found", "checked", "clear", "freed"}]
Answering == [kind : Answers, user : Users, invitation : Invitations, pc : {"found", "freed"}]
Work == Inviting \cup Changing \cup Answering

Init ==
  /\ member = [u \in Users |-> IF u = Founder THEN "ACTIVE" ELSE "NONE"]
  /\ role = [u \in Users |-> IF u = Founder THEN "OWNER" ELSE "VIEWER"]
  /\ invitation = [i \in Invitations |-> NoInvitation]
  /\ charged = [u \in Users |-> IF u = Founder THEN 1 ELSE 0]
  /\ work = [h \in Handlers |-> Idle]
  /\ raced = {} /\ contested = FALSE /\ lost = {}
------------------------------------------------------------------------------
(* Handlers in progress *)

Busy(h, kinds, pc) == work[h].kind \in kinds /\ work[h].pc = pc

\* Bound: when handlers about more than MaxRaces users have overlapped, or two
\* changes have relied on each other's owner, those in progress go on and no
\* further one begins; the charges would drift for ever.
WithinBound == Cardinality(raced) + (IF contested THEN 1 ELSE 0) <= MaxRaces

Begin(h, job) ==
  /\ work[h] = Idle /\ WithinBound
  /\ work' = [work EXCEPT ![h] = job]
  /\ raced' = IF \E g \in Handlers \ {h} : work[g] # Idle /\ work[g].user = job.user
              THEN raced \cup {job.user} ELSE raced
  /\ UNCHANGED history

Goto(h, pc) == work' = [work EXCEPT ![h].pc = pc] /\ UNCHANGED <<raced, history>>
Finish(h) == work' = [work EXCEPT ![h] = Idle] /\ UNCHANGED <<raced, history>>

\* Does a handler hold a seat of which nothing but itself knows?
Owes(h) ==
  \/ Busy(h, {"invite"}, "reserved")
  \/ Busy(h, {"invite"}, "begun") /\ work[h].owed > 0
  \/ Busy(h, {"cancel", "remove"}, "freed")

\* A refusal, an exception or the death of the process ends a handler where it
\* is.
Die(h) ==
  /\ work[h] # Idle
  /\ work' = [work EXCEPT ![h] = Idle]
  /\ lost' = IF Owes(h) THEN lost \cup {work[h].user} ELSE lost
  /\ UNCHANGED <<rows, charged, raced, contested>>

\* The counter, and releaseMember, which never takes it below zero.
MemberCount == MapThenSumSet(LAMBDA u : charged[u], Users)
Release(u) == charged' = IF MemberCount > 0 THEN [charged EXCEPT ![u] = @ - 1] ELSE charged

HasRoom == MemberCount < MaxUsers
------------------------------------------------------------------------------
(* Who may do what *)

CanAssign(by, new) == by = "OWNER" \/ (by = "ADMIN" /\ new = "VIEWER")
CanManage(by, current) == by = "OWNER" \/ (by = "ADMIN" /\ current = "VIEWER")

IsOwner(u) == member[u] = "ACTIVE" /\ role[u] = "OWNER"
\* Variant: the owner in question counts as another one.
AnotherOwnerAny(u) == \E o \in Users : IsOwner(o)
AnotherOwner(u) == \E o \in Users \ {u} : IsOwner(o)

\* The actor of a request, as the middleware finds it.
Actor(a, by) == member[a] = "ACTIVE" /\ role[a] = by
------------------------------------------------------------------------------
(* invite *)

\* The seats of invitations that have expired are given back first.
InviteBegin(h, u, new) ==
  /\ \E a \in Users, by \in Roles :
       /\ Actor(a, by) /\ CanAssign(by, new)
       /\ Begin(h, [kind |-> "invite", user |-> u, role |-> new,
                    owed |-> Cardinality(Expired(u)), pc |-> "begun"])
  /\ invitation' = [i \in Invitations |->
       IF i \in Expired(u) THEN [invitation[i] EXCEPT !.status = "EXPIRED"] ELSE invitation[i]]
  /\ UNCHANGED <<member, role, charged>>

\* Variant: the seats of expired invitations are forgotten.
InviteForget(h) ==
  /\ Busy(h, {"invite"}, "begun") /\ work[h].owed > 0
  /\ work' = [work EXCEPT ![h].owed = @ - 1]
  /\ UNCHANGED <<rows, charged, raced, history>>
InviteGiveBack(h) ==
  /\ Busy(h, {"invite"}, "begun") /\ work[h].owed > 0
  /\ Release(work[h].user)
  /\ work' = [work EXCEPT ![h].owed = @ - 1]
  /\ UNCHANGED <<rows, raced, history>>

InviteLook(h) ==
  /\ Busy(h, {"invite"}, "begun") /\ work[h].owed = 0
  /\ Waiting(work[h].user) \subseteq Expired(work[h].user)
  /\ Goto(h, "unique")
  /\ UNCHANGED <<rows, charged>>

InviteStranger(h) ==
  /\ Busy(h, {"invite"}, "unique")
  /\ member[work[h].user] \notin Members
  /\ Goto(h, "stranger")
  /\ UNCHANGED <<rows, charged>>

InviteReserve(h) ==
  /\ Busy(h, {"invite"}, "stranger")
  /\ HasRoom
  /\ charged' = [charged EXCEPT ![work[h].user] = @ + 1]
  /\ Goto(h, "reserved")
  /\ UNCHANGED rows

InviteCreate(h, i) ==
  /\ Busy(h, {"invite"}, "reserved")
  /\ invitation[i] = NoInvitation
  /\ invitation' = [invitation EXCEPT ![i] =
       [status |-> "PENDING", user |-> work[h].user, role |-> work[h].role]]
  /\ Finish(h)
  /\ UNCHANGED <<member, role, charged>>

\* What is left of a handler that owes one seat: an invite whose row could not
\* be written, a cancel, a remove.
GiveBack(h) ==
  /\ Busy(h, {"invite"}, "reserved") \/ Busy(h, {"cancel", "remove"}, "freed")
  /\ Release(work[h].user)
  /\ Finish(h)
  /\ UNCHANGED rows
------------------------------------------------------------------------------
(* The life of an invitation *)

\* An invite that has given back what had expired finds no duplicate in what
\* expires right after: a race with the clock.
Lapse(i) ==
  /\ Pending(i)
  /\ invitation' = [invitation EXCEPT ![i].status = "LAPSED"]
  /\ raced' = IF \E h \in Handlers :
                  Busy(h, {"invite"}, "begun") /\ work[h].user = invitation[i].user
              THEN raced \cup {invitation[i].user} ELSE raced
  /\ UNCHANGED <<member, role, charged, work, history>>

\* Variant: the update does not look at the status.
CancelableAny(i) == invitation[i] # NoInvitation
Cancelable(i) == Pending(i)

\* One conditional update; the seat comes after it.
Cancel(h, i) ==
  /\ Cancelable(i)
  /\ Begin(h, [kind |-> "cancel", user |-> invitation[i].user, invitation |-> i,
               pc |-> "freed"])
  /\ invitation' = [invitation EXCEPT ![i].status = "CANCELED"]
  /\ UNCHANGED <<member, role, charged>>

\* resend and accept look at the invitation first and write by id afterwards.
ResendBegin(h, i) ==
  /\ Pending(i)
  /\ Begin(h, [kind |-> "resend", user |-> invitation[i].user, invitation |-> i,
               pc |-> "found"])
  /\ UNCHANGED <<rows, charged>>

ResendCommit(h) ==
  /\ Busy(h, {"resend"}, "found")
  /\ invitation' = [invitation EXCEPT ![work[h].invitation].status =
       IF @ = "LAPSED" THEN "PENDING" ELSE @]
  /\ Finish(h)
  /\ UNCHANGED <<member, role, charged>>

AcceptBegin(h, i) ==
  /\ invitation[i].status = "PENDING"
  /\ Begin(h, [kind |-> "accept", user |-> invitation[i].user, invitation |-> i,
               pc |-> "found"])
  /\ UNCHANGED <<rows, charged>>

Accepted == "ACTIVE"

AcceptCommit(h) ==
  LET i == work[h].invitation
      u == work[h].user IN
  /\ Busy(h, {"accept"}, "found")
  /\ member' = [member EXCEPT ![u] = Accepted]
  /\ role' = [role EXCEPT ![u] = invitation[i].role]
  /\ invitation' = [invitation EXCEPT ![i].status = "ACCEPTED"]
  /\ Finish(h)
  /\ UNCHANGED charged
------------------------------------------------------------------------------
(* changeRole, changeStatus, remove *)

\* Only a change of role comes with a role.
ChangeBegin(h, u, change, new) ==
  /\ change # "role" => new = "VIEWER"
  /\ \E a \in Users \ {u}, by \in {"OWNER", "ADMIN"} :
       /\ Actor(a, by)
       /\ change = "role" => CanAssign(by, new)
       /\ Begin(h, [kind |-> change, user |-> u, role |-> new, by |-> by, pc |-> "begun"])
  /\ UNCHANGED <<rows, charged>>

\* Does the change take an owner away?
Endangers(change, new) == change \in {"suspend", "remove"} \/ (change = "role" /\ new # "OWNER")

\* getTarget, by which time the actor's own role may have changed.
ChangeFind(h) ==
  LET u == work[h].user IN
  /\ Busy(h, Changes, "begun")
  /\ member[u] \in Members
  /\ CanManage(work[h].by, role[u])
  /\ Goto(h, IF role[u] = "OWNER" /\ Endangers(work[h].kind, work[h].role)
             THEN "found" ELSE "clear")
  /\ UNCHANGED <<rows, charged>>

\* assertAnotherOwner, a query of its own.
ChangeCheck(h) ==
  /\ Busy(h, Changes, "found")
  /\ AnotherOwner(work[h].user)
  /\ work' = [work EXCEPT ![h].pc = "checked"]
  /\ contested' = (contested \/ \E g \in Handlers \ {h} : Busy(g, Changes, "checked"))
  /\ UNCHANGED <<rows, charged, raced, lost>>

\* The write, by id; a removal then has a seat to give back.
ChangeCommit(h) ==
  LET u == work[h].user
      change == work[h].kind IN
  /\ Busy(h, Changes, "clear") \/ Busy(h, Changes, "checked")
  /\ IF change = "role"
     THEN role' = [role EXCEPT ![u] = work[h].role] /\ UNCHANGED member
     ELSE /\ member' = [member EXCEPT ![u] =
               CASE change = "suspend" -> "SUSPENDED"
                 [] change = "reactivate" -> "ACTIVE"
                 [] change = "remove" -> "REMOVED"]
          /\ UNCHANGED role
  /\ IF change = "remove" THEN Goto(h, "freed") ELSE Finish(h)
  /\ UNCHANGED <<invitation, charged>>
------------------------------------------------------------------------------
Step(h) ==
  \/ InviteGiveBack(h) \/ InviteLook(h) \/ InviteStranger(h) \/ InviteReserve(h)
  \/ \E i \in Invitations : InviteCreate(h, i)
  \/ GiveBack(h) \/ ResendCommit(h) \/ AcceptCommit(h)
  \/ ChangeFind(h) \/ ChangeCheck(h) \/ ChangeCommit(h)
  \/ Die(h)

Start(h) ==
  \/ \E u \in Users, new \in Roles :
       InviteBegin(h, u, new) \/ \E change \in Changes : ChangeBegin(h, u, change, new)
  \/ \E i \in Invitations : Cancel(h, i) \/ ResendBegin(h, i) \/ AcceptBegin(h, i)

Next == \/ \E h \in Handlers : Step(h) \/ Start(h)
        \/ \E i \in Invitations : Lapse(i)

Spec == Init /\ [][Next]_vars
------------------------------------------------------------------------------
TypeOK ==
  /\ member \in [Users -> MemberStatuses] /\ role \in [Users -> Roles]
  /\ invitation \in [Invitations -> {NoInvitation} \cup Invitation]
  /\ charged \in [Users -> Int]
  /\ work \in [Handlers -> {Idle} \cup Work]
  /\ raced \subseteq Users /\ contested \in BOOLEAN /\ lost \subseteq Users

\* The seats a user takes: a membership, and every invitation not yet answered.
Seats(u) == Cardinality(Waiting(u)) + (IF member[u] \in Members THEN 1 ELSE 0)

\* A seat that somebody takes is charged to the plan: neither expiry, nor
\* cancellation, nor removal, nor a crash at any point gives back more than was
\* taken, as long as no two handlers about that user overlap.
SeatsCovered == \A u \in Users \ raced : charged[u] >= Seats(u)

\* And once nobody is at work on a user, no seat stays charged that nobody
\* takes, unless a handler died between taking or freeing it and the counter.
SeatsExact ==
  raced = {} =>
    \A u \in Users \ lost :
      (\A h \in Handlers : work[h] = Idle \/ work[h].user # u) => charged[u] = Seats(u)

\* An active owner remains, even when owners whose own role has just been taken
\* away go on with what they had begun, unless two changes rely on each other's
\* owner between check and write.
OwnerRemains == ~contested /\ raced = {} => \E o \in Users : IsOwner(o)

==============================================================================
