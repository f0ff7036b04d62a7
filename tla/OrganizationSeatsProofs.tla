----------------------- MODULE OrganizationSeatsProofs ------------------------
(***************************************************************************)
(* Proofs about OrganizationSeats for any users, invitations and handlers: *)
(* its type invariant, that the seats somebody takes are charged to the    *)
(* plan, that no others stay charged, and that an active owner remains.    *)
(* A seat is given back only while the counter, a sum over all users, is   *)
(* above zero; what that sum is, is proved by induction over sets of users.*)
(***************************************************************************)
EXTENDS OrganizationSeats, FiniteSetTheorems, WellFoundedInduction, TLAPS

On(h, u) == work[h] # Idle /\ work[h].user = u

\* Two handlers about one user have been noticed.
Apart == \A g, h \in Handlers : g # h /\ work[g] # Idle /\ On(h, work[g].user) =>
           work[g].user \in raced

\* The invitation a handler has read exists and is its user's.
Known ==
  \A h \in Handlers : work[h].kind \in Answers =>
    /\ invitation[work[h].invitation] \in Invitation
    /\ invitation[work[h].invitation].user = work[h].user

\* A user's seats are charged, and there is never more than one.
UserFits(u) ==
  /\ charged[u] >= Seats(u)
  /\ \A i \in Waiting(u) : member[u] \notin Members /\ \A j \in Waiting(u) : i = j
UsersFit == \A u \in Users \ raced : UserFits(u)

\* The seats a handler has still to give back, or has taken for its invitation.
Debt(h) ==
  IF Busy(h, {"invite"}, "begun") THEN work[h].owed
  ELSE IF Busy(h, {"invite"}, "reserved") \/ Busy(h, {"cancel", "remove"}, "freed") THEN 1
  ELSE 0

\* What a handler knows of its user, who is nobody else's business meanwhile.
InviteFits(h, u) ==
  /\ work[h].pc = "begun" => Expired(u) = {}
  /\ work[h].pc \in {"unique", "stranger", "reserved"} => Waiting(u) = {}
  /\ work[h].pc \in {"stranger", "reserved"} => member[u] \notin Members
ChangeFits(h, u) ==
  /\ work[h].pc \in {"found", "checked", "clear"} => member[u] \in Members
  /\ work[h].pc = "clear" => ~(role[u] = "OWNER" /\ Endangers(work[h].kind, work[h].role))
HandlerFits(h) ==
  /\ charged[work[h].user] >= Seats(work[h].user) + Debt(h)
  /\ work[h].kind = "invite" => InviteFits(h, work[h].user)
  /\ work[h].kind \in Changes => ChangeFits(h, work[h].user)
  /\ work[h].kind = "accept" => work[h].invitation \in Waiting(work[h].user)
HandlersFit ==
  \A h \in Handlers : work[h] # Idle /\ work[h].user \notin raced => HandlerFits(h)

\* A change that has passed its check has another owner to rely on, and is alone
\* in doing so.
Checked(h) == Busy(h, Changes, "checked")
CheckedAlone == ~contested => \A g, h \in Handlers : Checked(g) /\ Checked(h) => g = h
CheckedRelies ==
  ~contested /\ raced = {} => \A h \in Handlers : Checked(h) => AnotherOwner(work[h].user)

\* The inductive invariant.
IInv ==
  /\ TypeOK /\ Apart /\ Known /\ UsersFit /\ HandlersFit
  /\ OwnerRemains /\ CheckedAlone /\ CheckedRelies
------------------------------------------------------------------------------
(* How handlers move *)

\* What a handler in progress is made of.
LEMMA WorkType ==
  ASSUME TypeOK, NEW h \in Handlers, work[h] # Idle
  PROVE  /\ work[h] \in Work /\ work[h].user \in Users
         /\ work[h].kind = "invite" => work[h] \in Inviting
         /\ work[h].kind \in Changes => work[h] \in Changing
         /\ work[h].kind \in Answers => work[h] \in Answering
  BY DEF TypeOK, Work, Inviting, Changing, Answering, Changes, Answers

\* Only a handler in progress has a kind other than "idle".
LEMMA BusyIsWork ==
  ASSUME NEW h \in Handlers, work[h].kind \in {"invite"} \cup Changes \cup Answers
  PROVE  work[h] # Idle
  BY DEF Idle, Changes, Answers

\* A handler that goes on or ends leaves the others as far apart as they were.
LEMMA StepWork ==
  ASSUME TypeOK, Apart, NEW h \in Handlers, work[h] # Idle,
         NEW job \in Work \cup {Idle}, job = Idle \/ job.user = work[h].user,
         work' = [work EXCEPT ![h] = job], raced' = raced
  PROVE  /\ work' \in [Handlers -> {Idle} \cup Work]
         /\ \A g \in Handlers \ {h} : work'[g] = work[g]
         /\ work'[h] = job /\ Apart'
         /\ \A g \in Handlers \ {h} : On(g, work[h].user) => work[h].user \in raced
<1>1. /\ work' \in [Handlers -> {Idle} \cup Work]
      /\ \A g \in Handlers \ {h} : work'[g] = work[g]
      /\ work'[h] = job
  BY DEF TypeOK
<1>2. Apart' /\ \A g \in Handlers \ {h} : On(g, work[h].user) => work[h].user \in raced
  BY <1>1 DEF Apart, On
<1> QED
  BY <1>1, <1>2

\* A handler that begins joins those about its user, if there are any, and is
\* noticed.
LEMMA BeginWork ==
  ASSUME TypeOK, Apart, NEW h \in Handlers, NEW job \in Work, Begin(h, job)
  PROVE  /\ work[h] = Idle /\ job # Idle
         /\ work' \in [Handlers -> {Idle} \cup Work]
         /\ \A g \in Handlers \ {h} : work'[g] = work[g]
         /\ work'[h] = job /\ Apart'
         /\ raced \subseteq raced' /\ raced' \subseteq Users
         /\ \A g \in Handlers \ {h} : On(g, job.user) => job.user \in raced'
         /\ contested' = contested /\ lost' = lost
<1>1. job # Idle /\ job.user \in Users
  BY DEF Work, Inviting, Changing, Answering, Changes, Answers, Idle
<1>2. work[h] = Idle /\ work' = [work EXCEPT ![h] = job]
  BY DEF Begin
<1>3. /\ work' \in [Handlers -> {Idle} \cup Work] /\ work'[h] = job
      /\ \A g \in Handlers \ {h} : work'[g] = work[g]
  BY <1>2 DEF TypeOK
<1>4. /\ raced \subseteq raced' /\ raced' \subseteq Users
      /\ \A g \in Handlers \ {h} : On(g, job.user) => job.user \in raced'
  BY <1>1 DEF Begin, TypeOK, On
<1>5. Apart'
  BY <1>1, <1>2, <1>3, <1>4 DEF Apart, On
<1> QED
  BY <1>1, <1>2, <1>3, <1>4, <1>5 DEF Begin, history

\* A handler that moves to another place in its code knows what it knew.
LEMMA GotoWork ==
  ASSUME TypeOK, Apart, NEW h \in Handlers, work[h] # Idle, NEW pc, Goto(h, pc),
         \/ work[h].kind = "invite" /\ pc \in {"begun", "unique", "stranger", "reserved"}
         \/ work[h].kind \in Changes /\ pc \in {"begun", "found", "checked", "clear", "freed"}
  PROVE  /\ work' \in [Handlers -> {Idle} \cup Work]
         /\ \A g \in Handlers \ {h} : work'[g] = work[g]
         /\ work'[h] # Idle /\ work'[h].pc = pc /\ work'[h].user = work[h].user
         /\ work'[h].kind = work[h].kind /\ work'[h].role = work[h].role
         /\ Apart' /\ raced' = raced /\ contested' = contested /\ lost' = lost
         /\ \A g \in Handlers \ {h} : On(g, work[h].user) => work[h].user \in raced
<1> DEFINE job == [work[h] EXCEPT !.pc = pc]
<1>1. work[h] \in Inviting \/ work[h] \in Changing
  BY WorkType
<1>2. /\ job \in Work /\ job.pc = pc /\ job.user = work[h].user
      /\ job.kind = work[h].kind /\ job.role = work[h].role
  <2>1. CASE work[h] \in Inviting
    BY <2>1 DEF Work, Inviting, Changes
  <2>2. CASE work[h] \in Changing
    BY <2>2 DEF Work, Changing, Changes
  <2> QED
    BY <1>1, <2>1, <2>2
<1>3. job # Idle
  BY <1>2 DEF Work, Inviting, Changing, Answering, Changes, Answers, Idle
<1>4. work' = [work EXCEPT ![h] = job] /\ raced' = raced
  BY DEF Goto, TypeOK
<1> HIDE DEF job
<1>5. /\ work' \in [Handlers -> {Idle} \cup Work]
      /\ \A g \in Handlers \ {h} : work'[g] = work[g]
      /\ work'[h] = job /\ Apart'
      /\ \A g \in Handlers \ {h} : On(g, work[h].user) => work[h].user \in raced
  BY <1>2, <1>4, StepWork
<1> QED
  BY <1>2, <1>3, <1>5 DEF Goto, history

\* A handler that ends is idle.
LEMMA FinishWork ==
  ASSUME TypeOK, Apart, NEW h \in Handlers, work[h] # Idle, Finish(h)
  PROVE  /\ work' \in [Handlers -> {Idle} \cup Work]
         /\ \A g \in Handlers \ {h} : work'[g] = work[g]
         /\ work'[h] = Idle /\ Apart'
         /\ raced' = raced /\ contested' = contested /\ lost' = lost
         /\ \A g \in Handlers \ {h} : On(g, work[h].user) => work[h].user \in raced
  BY StepWork DEF Finish, history
------------------------------------------------------------------------------
(* What a step about one user leaves as it was *)

\* Owners remain when a step takes none away and no change has just passed its
\* check.
LEMMA OwnersKept ==
  ASSUME IInv, NEW h \in Handlers, raced \subseteq raced', contested' = contested,
         \A g \in Handlers \ {h} : work'[g] = work[g],
         work'[h] = Idle \/ work'[h].pc # "checked",
         raced' = {} => \A o \in Users : IsOwner(o) => IsOwner(o)'
  PROVE  OwnerRemains' /\ CheckedAlone' /\ CheckedRelies'
<1>1. \A g \in Handlers : Checked(g)' => g # h /\ Checked(g) /\ work'[g] = work[g]
  BY DEF Checked, Busy, Changes, Idle
<1>2. OwnerRemains'
  BY DEF IInv, OwnerRemains
<1>3. CheckedAlone'
  BY <1>1 DEF IInv, CheckedAlone
<1>4. CheckedRelies'
  <2> SUFFICES ASSUME ~contested, raced' = {}, NEW g \in Handlers, Checked(g)'
               PROVE  AnotherOwner(work[g].user)'
    BY <1>1 DEF CheckedRelies
  <2>1. AnotherOwner(work[g].user)
    BY <1>1 DEF IInv, CheckedRelies
  <2>2. work'[g].user = work[g].user
    BY <1>1
  <2> QED
    BY <2>1, <2>2 DEF AnotherOwner
<1> QED
  BY <1>2, <1>3, <1>4

\* A step of handler h about user u: what is left to show is about u and h.
LEMMA Close ==
  ASSUME IInv, NEW h \in Handlers, NEW u \in Users, TypeOK', Apart', raced \subseteq raced',
         \A g \in Handlers \ {h} : work'[g] = work[g],
         \A g \in Handlers \ {h} : On(g, u) => u \in raced',
         work'[h] = Idle \/ work'[h].user = u,
         \A v \in Users \ {u} :
           /\ member'[v] = member[v] /\ role'[v] = role[v] /\ charged'[v] = charged[v]
           /\ Waiting(v)' = Waiting(v) /\ Expired(v)' = Expired(v),
         \A i \in Invitations : invitation[i] \in Invitation =>
           invitation'[i] \in Invitation /\ invitation'[i].user = invitation[i].user,
         work'[h].kind \in Answers =>
           /\ invitation'[work'[h].invitation] \in Invitation
           /\ invitation'[work'[h].invitation].user = u,
         u \notin raced' => UserFits(u)',
         u \notin raced' /\ work'[h] # Idle => HandlerFits(h)',
         OwnerRemains' /\ CheckedAlone' /\ CheckedRelies'
  PROVE  IInv'
<1>1. Known'
  <2> SUFFICES ASSUME NEW g \in Handlers, work'[g].kind \in Answers
               PROVE  /\ invitation'[work'[g].invitation] \in Invitation
                      /\ invitation'[work'[g].invitation].user = work'[g].user
    BY DEF Known
  <2>1. CASE g = h
    BY <2>1 DEF Answers, Idle
  <2>2. CASE g # h
    <3>1. work'[g] = work[g] /\ work[g].invitation \in Invitations
      BY <2>2, BusyIsWork, WorkType DEF IInv, Answering
    <3> QED
      BY <3>1 DEF IInv, Known
  <2> QED
    BY <2>1, <2>2
<1>2. UsersFit'
  <2> SUFFICES ASSUME NEW v \in Users, v \notin raced' PROVE UserFits(v)'
    BY DEF UsersFit
  <2>1. CASE v = u
    BY <2>1
  <2>2. CASE v # u
    <3>1. UserFits(v)
      BY DEF IInv, UsersFit
    <3>2. Seats(v)' = Seats(v)
      BY <2>2 DEF Seats
    <3> QED
      BY <2>2, <3>1, <3>2 DEF UserFits
  <2> QED
    BY <2>1, <2>2
<1>3. HandlersFit'
  <2> SUFFICES ASSUME NEW g \in Handlers, work'[g] # Idle, work'[g].user \notin raced'
               PROVE  HandlerFits(g)'
    BY DEF HandlersFit
  <2>1. CASE g = h
    BY <2>1
  <2>2. CASE g # h
    <3>1. work'[g] = work[g] /\ work[g].user \in Users \ {u}
      BY <2>2, WorkType DEF IInv, On
    <3> DEFINE v == work[g].user
    <3>2. HandlerFits(g)
      BY <3>1 DEF IInv, HandlersFit
    <3>3. Seats(v)' = Seats(v) /\ Debt(g)' = Debt(g)
      BY <3>1 DEF Seats, Debt, Busy
    <3>4. charged'[v] >= Seats(v)' + Debt(g)'
      BY <3>1, <3>2, <3>3 DEF HandlerFits
    <3>5. work[g].kind = "invite" => InviteFits(g, v)'
      BY <3>1, <3>2 DEF HandlerFits, InviteFits
    <3>6. work[g].kind \in Changes => ChangeFits(g, v)'
      BY <3>1, <3>2 DEF HandlerFits, ChangeFits
    <3>7. work[g].kind = "accept" => work[g].invitation \in Waiting(v)'
      BY <3>1, <3>2 DEF HandlerFits
    <3> QED
      BY <3>1, <3>4, <3>5, <3>6, <3>7 DEF HandlerFits
  <2> QED
    BY <2>1, <2>2
<1> QED
  BY <1>1, <1>2, <1>3 DEF IInv
------------------------------------------------------------------------------
(* The initial states *)

\* At the beginning there is the founder, an owner with one seat.
LEMMA InitIInv == Init => IInv
<1> SUFFICES ASSUME Init PROVE IInv
  OBVIOUS
<1>1. TypeOK
  <2>1. /\ member \in [Users -> MemberStatuses] /\ role \in [Users -> Roles]
        /\ invitation \in [Invitations -> {NoInvitation} \cup Invitation]
        /\ charged \in [Users -> Int] /\ work \in [Handlers -> {Idle} \cup Work]
    BY DEF Init, MemberStatuses, Members, Roles
  <2>2. raced \subseteq Users /\ contested \in BOOLEAN /\ lost \subseteq Users
    BY DEF Init
  <2> QED
    BY <2>1, <2>2 DEF TypeOK
<1>2. \A u \in Users : Waiting(u) = {} /\ Seats(u) = IF u = Founder THEN 1 ELSE 0
  <2> SUFFICES ASSUME NEW u \in Users
               PROVE  Waiting(u) = {} /\ Seats(u) = IF u = Founder THEN 1 ELSE 0
    OBVIOUS
  <2>1. Waiting(u) = {}
    BY DEF Init, Waiting, Pending, NoInvitation
  <2>2. Cardinality(Waiting(u)) = 0
    BY <2>1, FS_EmptySet
  <2> QED
    BY <2>1, <2>2 DEF Init, Seats, Members
<1>3. UsersFit
  BY <1>2 DEF Init, UsersFit, UserFits
<1>4. \A h \in Handlers : work[h] = Idle
  BY DEF Init
<1>5. Apart /\ Known /\ HandlersFit
  BY <1>4 DEF Apart, Known, HandlersFit, Idle, Answers
<1>6. OwnerRemains
  BY FounderAssumption DEF Init, OwnerRemains, IsOwner
<1>7. CheckedAlone /\ CheckedRelies
  BY <1>4 DEF CheckedAlone, CheckedRelies, Checked, Busy, Idle, Changes
<1> QED
  BY <1>1, <1>3, <1>5, <1>6, <1>7 DEF IInv
------------------------------------------------------------------------------
(* What a user's seats come to *)

\* The seats of a user are a number, whatever the rows.
LEMMA SeatsNat ==
  ASSUME NEW u \in Users
  PROVE  /\ IsFiniteSet(Waiting(u)) /\ Cardinality(Waiting(u)) \in Nat
         /\ Seats(u) = Cardinality(Waiting(u)) \/ Seats(u) = Cardinality(Waiting(u)) + 1
<1>1. Waiting(u) \subseteq Invitations
  BY DEF Waiting
<1>2. IsFiniteSet(Waiting(u)) /\ Cardinality(Waiting(u)) \in Nat
  BY <1>1, InvitationsAssumption, FS_Subset, FS_CardinalityType
<1>3. Seats(u) = Cardinality(Waiting(u)) \/ Seats(u) = Cardinality(Waiting(u)) + 1
  BY <1>2 DEF Seats
<1> QED
  BY <1>2, <1>3

\* What a step that writes no row leaves as it was.
LEMMA RowsKept ==
  ASSUME UNCHANGED rows
  PROVE  /\ \A u \in Users : /\ Waiting(u)' = Waiting(u) /\ Expired(u)' = Expired(u)
                             /\ Seats(u)' = Seats(u) /\ (IsOwner(u)' <=> IsOwner(u))
                             /\ member'[u] = member[u] /\ role'[u] = role[u]
         /\ invitation' = invitation
BY DEF rows, Waiting, Expired, Pending, Seats, IsOwner

\* A step that writes no row and moves no seat: what is left is what the handler
\* knows now.
LEMMA Quiet ==
  ASSUME IInv, NEW h \in Handlers, NEW u \in Users, UNCHANGED <<rows, charged>>,
         work' \in [Handlers -> {Idle} \cup Work], Apart', raced \subseteq raced',
         raced' \subseteq Users, contested' = contested, lost' \subseteq Users,
         \A g \in Handlers \ {h} : work'[g] = work[g],
         \A g \in Handlers \ {h} : On(g, u) => u \in raced',
         work'[h] = Idle \/ (work'[h].user = u /\ work'[h].pc # "checked"),
         work'[h].kind \in Answers =>
           /\ invitation[work'[h].invitation] \in Invitation
           /\ invitation[work'[h].invitation].user = u,
         u \notin raced' /\ work'[h] # Idle => HandlerFits(h)'
  PROVE  IInv'
<1>1. UNCHANGED rows /\ charged' = charged
  OBVIOUS
<1>2. TypeOK'
  <2>1. contested' \in BOOLEAN
    BY DEF IInv, TypeOK
  <2> QED
    BY <1>1, <2>1 DEF IInv, TypeOK, rows
<1>3. u \notin raced' => UserFits(u)'
  BY <1>1, RowsKept DEF IInv, UsersFit, UserFits
<1>4. OwnerRemains' /\ CheckedAlone' /\ CheckedRelies'
  BY <1>1, RowsKept, OwnersKept
<1> QED
  BY <1>1, <1>2, <1>3, <1>4, RowsKept, Close
------------------------------------------------------------------------------
(* The steps of an invite *)

\* Its look at the invitations: none waits, as the expired ones are no more.
LEMMA LookKept ==
  ASSUME IInv, NEW h \in Handlers, NEW u \in Users, u = work[h].user, InviteLook(h)
  PROVE  IInv'
<1>1. work[h].kind = "invite" /\ work[h].pc = "begun" /\ work[h].owed = 0 /\ work[h] # Idle
  BY DEF InviteLook, Busy, Idle
<1>2. TypeOK /\ Apart /\ Goto(h, "unique") /\ UNCHANGED rows /\ charged' = charged
  BY DEF IInv, InviteLook
<1>3. work'[h].kind = "invite" /\ work'[h].pc = "unique" /\ work'[h].user = u
  BY <1>1, <1>2, GotoWork
<1>4. u \notin raced' => HandlerFits(h)'
  <2> SUFFICES ASSUME u \notin raced' PROVE HandlerFits(h)'
    OBVIOUS
  <2>1. HandlerFits(h)
    BY <1>1, <1>2, GotoWork DEF IInv, HandlersFit
  <2>2. Waiting(u) = {}
    BY <1>1, <2>1 DEF InviteLook, HandlerFits, InviteFits
  <2>3. Debt(h) = 0 /\ Debt(h)' = 0
    BY <1>1, <1>3 DEF Debt, Busy
  <2>4. charged'[u] >= Seats(u)' + Debt(h)'
    BY <1>2, <2>1, <2>3, RowsKept DEF HandlerFits
  <2>5. InviteFits(h, u)'
    BY <1>2, <1>3, <2>2, RowsKept DEF InviteFits
  <2> QED
    BY <1>3, <2>4, <2>5 DEF HandlerFits, Changes
<1> QED
  BY <1>1, <1>2, <1>3, <1>4, GotoWork, Quiet DEF IInv, TypeOK, Answers

\* Its look at the membership.
LEMMA StrangerKept ==
  ASSUME IInv, NEW h \in Handlers, NEW u \in Users, u = work[h].user, InviteStranger(h)
  PROVE  IInv'
<1>1. work[h].kind = "invite" /\ work[h].pc = "unique" /\ work[h] # Idle
  BY DEF InviteStranger, Busy, Idle
<1>2. TypeOK /\ Apart /\ Goto(h, "stranger") /\ UNCHANGED rows /\ charged' = charged
  BY DEF IInv, InviteStranger
<1>3. work'[h].kind = "invite" /\ work'[h].pc = "stranger" /\ work'[h].user = u
  BY <1>1, <1>2, GotoWork
<1>4. u \notin raced' => HandlerFits(h)'
  <2> SUFFICES ASSUME u \notin raced' PROVE HandlerFits(h)'
    OBVIOUS
  <2>1. HandlerFits(h)
    BY <1>1, <1>2, GotoWork DEF IInv, HandlersFit
  <2>2. Waiting(u) = {} /\ member[u] \notin Members
    BY <1>1, <2>1 DEF InviteStranger, HandlerFits, InviteFits
  <2>3. Debt(h) = 0 /\ Debt(h)' = 0
    BY <1>1, <1>3 DEF Debt, Busy
  <2>4. charged'[u] >= Seats(u)' + Debt(h)'
    BY <1>2, <2>1, <2>3, RowsKept DEF HandlerFits
  <2>5. InviteFits(h, u)'
    BY <1>2, <1>3, <2>2, RowsKept DEF InviteFits
  <2> QED
    BY <1>3, <2>4, <2>5 DEF HandlerFits, Changes
<1> QED
  BY <1>1, <1>2, <1>3, <1>4, GotoWork, Quiet DEF IInv, TypeOK, Answers

\* Giving a seat back takes at most one, from one user.
LEMMA Released ==
  ASSUME TypeOK, NEW u \in Users, Release(u)
  PROVE  /\ charged' \in [Users -> Int] /\ charged'[u] >= charged[u] - 1
         /\ \A v \in Users \ {u} : charged'[v] = charged[v]
<1>1. CASE charged' = charged
  BY <1>1 DEF TypeOK
<1>2. CASE charged' = [charged EXCEPT ![u] = @ - 1]
  BY <1>2 DEF TypeOK
<1> QED
  BY <1>1, <1>2 DEF Release

\* The seat of an invitation that has expired.
LEMMA GiveBackExpiredKept ==
  ASSUME IInv, NEW h \in Handlers, NEW u \in Users, u = work[h].user, InviteGiveBack(h)
  PROVE  IInv'
<1> DEFINE job == [work[h] EXCEPT !.owed = @ - 1]
<1>1. work[h].kind = "invite" /\ work[h].pc = "begun" /\ work[h].owed > 0 /\ work[h] # Idle
  BY DEF InviteGiveBack, Busy, Idle
<1>2. TypeOK /\ Apart /\ UNCHANGED rows /\ raced' = raced /\ UNCHANGED history /\ Release(u)
  BY DEF IInv, InviteGiveBack
<1>3. /\ job \in Inviting /\ job.user = u /\ job.kind = "invite" /\ job.pc = "begun"
      /\ job.owed = work[h].owed - 1 /\ work[h].owed \in Nat
  <2>1. work[h] \in Inviting
    BY <1>1, <1>2, WorkType
  <2> QED
    BY <1>1, <2>1 DEF Inviting
<1>4. job \in Work
  BY <1>3 DEF Work
<1>5. work' = [work EXCEPT ![h] = job]
  BY <1>2 DEF InviteGiveBack, TypeOK
<1> HIDE DEF job
<1>6. /\ work' \in [Handlers -> {Idle} \cup Work] /\ work'[h] = job /\ Apart'
      /\ \A g \in Handlers \ {h} : work'[g] = work[g]
      /\ \A g \in Handlers \ {h} : On(g, u) => u \in raced
  BY <1>1, <1>2, <1>3, <1>4, <1>5, StepWork
<1>7. TypeOK'
  <2>1. contested' \in BOOLEAN /\ lost' \subseteq Users
    BY <1>2 DEF TypeOK, history
  <2> QED
    BY <1>2, <1>6, <2>1, Released DEF TypeOK, rows
<1>8. u \notin raced' => HandlerFits(h)' /\ UserFits(u)'
  <2> SUFFICES ASSUME u \notin raced PROVE HandlerFits(h)' /\ UserFits(u)'
    BY <1>2
  <2>1. HandlerFits(h) /\ UserFits(u)
    BY <1>1, <1>2 DEF IInv, HandlersFit, UsersFit
  <2>2. Debt(h) = work[h].owed /\ Debt(h)' = work[h].owed - 1
    BY <1>1, <1>3, <1>6 DEF Debt, Busy
  <2>3. charged'[u] >= charged[u] - 1 /\ charged[u] \in Int /\ charged'[u] \in Int
    BY <1>2, Released DEF TypeOK
  <2>4. Seats(u) \in Nat /\ Seats(u)' = Seats(u)
    BY <1>2, SeatsNat, RowsKept
  <2>5. charged'[u] >= Seats(u)' + Debt(h)'
    BY <1>3, <2>1, <2>2, <2>3, <2>4 DEF HandlerFits
  <2>6. InviteFits(h, u)'
    BY <1>1, <1>2, <1>3, <1>6, <2>1, RowsKept DEF HandlerFits, InviteFits
  <2>7. HandlerFits(h)'
    BY <1>3, <1>6, <2>5, <2>6 DEF HandlerFits, Changes
  <2>8. charged'[u] >= Seats(u)'
    BY <1>1, <1>3, <2>2, <2>3, <2>4, <2>5
  <2> QED
    BY <1>2, <2>1, <2>7, <2>8, RowsKept DEF UserFits
<1>9. contested' = contested
  BY <1>2 DEF history
<1>10. OwnerRemains' /\ CheckedAlone' /\ CheckedRelies'
  BY <1>2, <1>3, <1>6, <1>9, RowsKept, OwnersKept
<1> QED
  BY <1>2, <1>3, <1>6, <1>7, <1>8, <1>10, RowsKept, Released, Close DEF Answers

\* The seat it takes is one it will have to give back.
LEMMA ReserveKept ==
  ASSUME IInv, NEW h \in Handlers, NEW u \in Users, u = work[h].user, InviteReserve(h)
  PROVE  IInv'
<1>1. work[h].kind = "invite" /\ work[h].pc = "stranger" /\ work[h] # Idle
  BY DEF InviteReserve, Busy, Idle
<1>2. /\ TypeOK /\ Apart /\ Goto(h, "reserved") /\ UNCHANGED rows
      /\ charged' = [charged EXCEPT ![u] = @ + 1]
  BY DEF IInv, InviteReserve
<1>3. /\ work' \in [Handlers -> {Idle} \cup Work] /\ Apart' /\ raced' = raced
      /\ \A g \in Handlers \ {h} : work'[g] = work[g]
      /\ \A g \in Handlers \ {h} : On(g, u) => u \in raced
      /\ contested' = contested /\ lost' = lost
      /\ work'[h].kind = "invite" /\ work'[h].pc = "reserved" /\ work'[h].user = u
  BY <1>1, <1>2, GotoWork
<1>4. /\ charged' \in [Users -> Int] /\ charged'[u] = charged[u] + 1 /\ charged[u] \in Int
      /\ \A v \in Users \ {u} : charged'[v] = charged[v]
  BY <1>2 DEF TypeOK
<1>5. TypeOK'
  <2>1. contested' \in BOOLEAN /\ lost' \subseteq Users
    BY <1>3 DEF IInv, TypeOK
  <2> QED
    BY <1>2, <1>3, <1>4, <2>1 DEF TypeOK, rows
<1>6. u \notin raced' => HandlerFits(h)' /\ UserFits(u)'
  <2> SUFFICES ASSUME u \notin raced PROVE HandlerFits(h)' /\ UserFits(u)'
    BY <1>3
  <2>1. HandlerFits(h) /\ UserFits(u)
    BY <1>1 DEF IInv, HandlersFit, UsersFit
  <2>2. Debt(h) = 0 /\ Debt(h)' = 1
    BY <1>1, <1>3 DEF Debt, Busy
  <2>3. Seats(u) \in Nat /\ Seats(u)' = Seats(u)
    BY <1>2, SeatsNat, RowsKept
  <2>4. charged'[u] >= Seats(u)' + Debt(h)' /\ charged'[u] >= Seats(u)'
    BY <1>4, <2>1, <2>2, <2>3 DEF HandlerFits
  <2>5. InviteFits(h, u)'
    BY <1>1, <1>2, <1>3, <2>1, RowsKept DEF HandlerFits, InviteFits
  <2> QED
    BY <1>2, <1>3, <2>1, <2>4, <2>5, RowsKept DEF HandlerFits, UserFits, Changes
<1>7. OwnerRemains' /\ CheckedAlone' /\ CheckedRelies'
  BY <1>2, <1>3, RowsKept, OwnersKept
<1> QED
  BY <1>2, <1>3, <1>4, <1>5, <1>6, <1>7, RowsKept, Close DEF Answers

\* The invitation it writes is its user's only one, and takes the seat.
LEMMA CreateKept ==
  ASSUME IInv, NEW h \in Handlers, NEW u \in Users, u = work[h].user,
         NEW i \in Invitations, InviteCreate(h, i)
  PROVE  IInv'
<1> DEFINE new == [status |-> "PENDING", user |-> u, role |-> work[h].role]
<1>1. work[h].kind = "invite" /\ work[h].pc = "reserved" /\ work[h] # Idle
  BY DEF InviteCreate, Busy, Idle
<1>2. /\ TypeOK /\ Apart /\ Finish(h) /\ UNCHANGED <<member, role, charged>>
      /\ invitation[i] = NoInvitation /\ invitation' = [invitation EXCEPT ![i] = new]
  BY DEF IInv, InviteCreate
<1>3. new \in Invitation
  BY <1>1, <1>2, WorkType DEF Inviting, Invitation
<1>4. /\ work' \in [Handlers -> {Idle} \cup Work] /\ Apart' /\ raced' = raced
      /\ \A g \in Handlers \ {h} : work'[g] = work[g]
      /\ \A g \in Handlers \ {h} : On(g, u) => u \in raced
      /\ contested' = contested /\ lost' = lost /\ work'[h] = Idle
  BY <1>1, <1>2, FinishWork
<1>5. TypeOK'
  <2>1. contested' \in BOOLEAN /\ lost' \subseteq Users
    BY <1>4 DEF IInv, TypeOK
  <2>2. invitation' \in [Invitations -> {NoInvitation} \cup Invitation]
    BY <1>2, <1>3 DEF TypeOK
  <2> QED
    BY <1>2, <1>4, <2>1, <2>2 DEF TypeOK
<1>6. /\ invitation'[i] = new /\ invitation[i] \notin Invitation
      /\ \A j \in Invitations \ {i} : invitation'[j] = invitation[j]
  <2>1. NoInvitation \notin Invitation
    BY DEF NoInvitation, Invitation
  <2> QED
    BY <1>2, <2>1 DEF TypeOK
<1>7. ~Pending(i)
  BY <1>2 DEF Pending, NoInvitation
<1>8. \A v \in Users \ {u} : Waiting(v)' = Waiting(v) /\ Expired(v)' = Expired(v)
  BY <1>6, <1>7 DEF Waiting, Expired, Pending
<1>9. u \notin raced' => UserFits(u)'
  <2> SUFFICES ASSUME u \notin raced PROVE UserFits(u)'
    BY <1>4
  <2>1. HandlerFits(h)
    BY <1>1 DEF IInv, HandlersFit
  <2>2. Debt(h) = 1
    BY <1>1 DEF Debt, Busy
  <2>3. Waiting(u) = {} /\ member[u] \notin Members
    BY <1>1, <2>1 DEF HandlerFits, InviteFits
  <2>4. Waiting(u)' = {i}
    BY <1>6, <2>3 DEF Waiting, Pending
  <2>5. Seats(u) = 0 /\ Seats(u)' = 1
    <3>1. Cardinality(Waiting(u)) = 0 /\ Cardinality(Waiting(u)') = 1
      BY <2>3, <2>4, FS_EmptySet, FS_Singleton
    <3> QED
      BY <1>2, <2>3, <3>1 DEF Seats
  <2>6. charged'[u] >= Seats(u)'
    BY <1>2, <2>1, <2>2, <2>5 DEF HandlerFits, TypeOK
  <2> QED
    BY <1>2, <2>3, <2>4, <2>6 DEF UserFits
<1>10. \A o \in Users : IsOwner(o) => IsOwner(o)'
  BY <1>2 DEF IsOwner
<1>11. OwnerRemains' /\ CheckedAlone' /\ CheckedRelies'
  BY <1>4, <1>10, OwnersKept
<1>12. \A j \in Invitations : invitation[j] \in Invitation =>
         invitation'[j] \in Invitation /\ invitation'[j].user = invitation[j].user
  BY <1>6
<1> QED
  BY <1>2, <1>4, <1>5, <1>8, <1>9, <1>11, <1>12, Close DEF Answers, Idle

\* What is left of a handler that owes a seat ends with giving it back.
LEMMA GiveBackKept ==
  ASSUME IInv, NEW h \in Handlers, NEW u \in Users, u = work[h].user, GiveBack(h)
  PROVE  IInv'
<1>1. work[h] # Idle /\ Debt(h) = 1
  BY DEF GiveBack, Busy, Idle, Debt
<1>2. TypeOK /\ Apart /\ Finish(h) /\ UNCHANGED rows /\ Release(u)
  BY DEF IInv, GiveBack
<1>3. /\ work' \in [Handlers -> {Idle} \cup Work] /\ Apart' /\ raced' = raced
      /\ \A g \in Handlers \ {h} : work'[g] = work[g]
      /\ \A g \in Handlers \ {h} : On(g, u) => u \in raced
      /\ contested' = contested /\ lost' = lost /\ work'[h] = Idle
  BY <1>1, <1>2, FinishWork
<1>4. TypeOK'
  <2>1. contested' \in BOOLEAN /\ lost' \subseteq Users
    BY <1>3 DEF IInv, TypeOK
  <2> QED
    BY <1>2, <1>3, <2>1, Released DEF TypeOK, rows
<1>5. u \notin raced' => UserFits(u)'
  <2> SUFFICES ASSUME u \notin raced PROVE UserFits(u)'
    BY <1>3
  <2>1. HandlerFits(h) /\ UserFits(u)
    BY <1>1 DEF IInv, HandlersFit, UsersFit
  <2>2. charged'[u] >= charged[u] - 1 /\ charged[u] \in Int /\ charged'[u] \in Int
    BY <1>2, Released DEF TypeOK
  <2>3. Seats(u) \in Nat /\ Seats(u)' = Seats(u)
    BY <1>2, SeatsNat, RowsKept
  <2>4. charged'[u] >= Seats(u)'
    BY <1>1, <2>1, <2>2, <2>3 DEF HandlerFits
  <2> QED
    BY <1>2, <2>1, <2>4, RowsKept DEF UserFits
<1>6. OwnerRemains' /\ CheckedAlone' /\ CheckedRelies'
  BY <1>2, <1>3, RowsKept, OwnersKept
<1> QED
  BY <1>2, <1>3, <1>4, <1>5, <1>6, RowsKept, Released, Close DEF Answers, Idle
------------------------------------------------------------------------------
(* The life of an invitation *)

\* A step that changes only the status of one invitation.
LEMMA StatusKept ==
  ASSUME TypeOK, NEW i \in Invitations, invitation[i] \in Invitation,
         NEW new \in {"PENDING", "LAPSED", "ACCEPTED", "CANCELED", "EXPIRED"},
         invitation' = [invitation EXCEPT ![i].status = new]
  PROVE  /\ invitation' \in [Invitations -> {NoInvitation} \cup Invitation]
         /\ \A j \in Invitations \ {i} : invitation'[j] = invitation[j]
         /\ invitation'[i] \in Invitation /\ invitation'[i].status = new
         /\ invitation'[i].user = invitation[i].user
         /\ \A j \in Invitations : invitation[j] \in Invitation =>
              invitation'[j] \in Invitation /\ invitation'[j].user = invitation[j].user
         /\ \A v \in Users \ {invitation[i].user} :
              Waiting(v)' = Waiting(v) /\ Expired(v)' = Expired(v)
<1> DEFINE row == [invitation[i] EXCEPT !.status = new]
<1>1. row \in Invitation /\ row.status = new /\ row.user = invitation[i].user
  BY DEF Invitation
<1>2. invitation' = [invitation EXCEPT ![i] = row]
  BY DEF TypeOK
<1> HIDE DEF row
<1>3. /\ invitation' \in [Invitations -> {NoInvitation} \cup Invitation]
      /\ \A j \in Invitations \ {i} : invitation'[j] = invitation[j]
      /\ invitation'[i] = row
  BY <1>1, <1>2 DEF TypeOK
<1>4. ASSUME NEW v \in Users, v # invitation[i].user
      PROVE  Waiting(v)' = Waiting(v) /\ Expired(v)' = Expired(v)
  BY <1>1, <1>3, <1>4 DEF Waiting, Expired, Pending
<1> QED
  BY <1>1, <1>3, <1>4

\* An invitation that is written is somebody's.
LEMMA WrittenType ==
  ASSUME TypeOK, NEW i \in Invitations, Pending(i)
  PROVE  /\ invitation[i] \in Invitation /\ invitation[i].user \in Users
         /\ i \in Waiting(invitation[i].user)
  BY DEF TypeOK, Pending, Waiting, NoInvitation, Invitation

\* An invitation that expires still takes its seat.
LEMMA LapseKept ==
  ASSUME IInv, NEW i \in Invitations, Lapse(i)
  PROVE  IInv'
<1>1. /\ Pending(i) /\ invitation' = [invitation EXCEPT ![i].status = "LAPSED"]
      /\ UNCHANGED <<member, role, charged, work, history>> /\ TypeOK
  BY DEF Lapse, IInv
<1>2. PICK u \in Users : u = invitation[i].user /\ invitation[i] \in Invitation
  BY <1>1, WrittenType
<1>3. /\ raced \subseteq raced' /\ raced' \subseteq Users
      /\ \A h \in Handlers : Busy(h, {"invite"}, "begun") /\ work[h].user = u => u \in raced'
  BY <1>2 DEF Lapse, IInv, TypeOK
<1>4. /\ invitation' \in [Invitations -> {NoInvitation} \cup Invitation]
      /\ invitation'[i] \in Invitation /\ invitation'[i].status = "LAPSED"
      /\ invitation'[i].user = u
      /\ \A j \in Invitations \ {i} : invitation'[j] = invitation[j]
      /\ \A v \in Users \ {u} : Waiting(v)' = Waiting(v) /\ Expired(v)' = Expired(v)
  BY <1>1, <1>2, StatusKept
<1>5. \A v \in Users : Waiting(v)' = Waiting(v) /\ Seats(v)' = Seats(v)
  <2>1. Waiting(u)' = Waiting(u)
    BY <1>1, <1>2, <1>4 DEF Waiting, Pending
  <2> QED
    BY <1>1, <1>4, <2>1 DEF Seats
<1>6. TypeOK'
  <2>1. contested' \in BOOLEAN /\ lost' \subseteq Users
    BY <1>1 DEF TypeOK, history
  <2> QED
    BY <1>1, <1>3, <1>4, <2>1 DEF TypeOK
<1>7. Apart' /\ Known'
  <2>1. Apart'
    BY <1>1, <1>3 DEF IInv, Apart, On
  <2>2. Known'
    BY <1>1, <1>2, <1>4, BusyIsWork, WorkType DEF IInv, Known, Answering
  <2> QED
    BY <2>1, <2>2
<1>8. UsersFit'
  BY <1>1, <1>3, <1>5 DEF IInv, UsersFit, UserFits
<1>9. HandlersFit'
  <2> SUFFICES ASSUME NEW h \in Handlers, work[h] # Idle, work[h].user \notin raced'
               PROVE  HandlerFits(h)'
    BY <1>1 DEF HandlersFit
  <2>1. PICK v \in Users : v = work[h].user
    BY <1>1, WorkType
  <2>2. HandlerFits(h)
    BY <1>3 DEF IInv, HandlersFit
  <2>3. charged'[v] >= Seats(v)' + Debt(h)'
    BY <1>1, <1>5, <2>1, <2>2 DEF HandlerFits, Debt, Busy
  <2>4. work[h].kind = "invite" => InviteFits(h, v)'
    <3> SUFFICES ASSUME work[h].kind = "invite" PROVE InviteFits(h, v)'
      OBVIOUS
    <3>1. InviteFits(h, v)
      BY <2>1, <2>2 DEF HandlerFits
    <3>2. work[h].pc = "begun" => Expired(v)' = Expired(v)
      BY <1>3, <1>4, <2>1 DEF Busy
    <3> QED
      BY <1>1, <1>5, <3>1, <3>2 DEF InviteFits
  <2>5. work[h].kind \in Changes => ChangeFits(h, v)'
    BY <1>1, <2>1, <2>2 DEF HandlerFits, ChangeFits
  <2>6. work[h].kind = "accept" => work[h].invitation \in Waiting(v)'
    BY <1>5, <2>1, <2>2 DEF HandlerFits
  <2> QED
    BY <1>1, <2>1, <2>3, <2>4, <2>5, <2>6 DEF HandlerFits
<1>10. OwnerRemains' /\ CheckedAlone' /\ CheckedRelies'
  <2>1. OwnerRemains'
    BY <1>1, <1>3 DEF IInv, OwnerRemains, IsOwner, history
  <2>2. CheckedAlone'
    BY <1>1 DEF IInv, CheckedAlone, Checked, Busy, history
  <2>3. CheckedRelies'
    BY <1>1, <1>3 DEF IInv, CheckedRelies, Checked, Busy, AnotherOwner, IsOwner, history
  <2> QED
    BY <2>1, <2>2, <2>3
<1> QED
  BY <1>6, <1>7, <1>8, <1>9, <1>10 DEF IInv

\* A cancelled invitation was its user's only seat, which is still to be given
\* back.
LEMMA CancelKept ==
  ASSUME IInv, NEW h \in Handlers, NEW i \in Invitations, Cancel(h, i)
  PROVE  IInv'
<1>1. /\ Pending(i) /\ invitation' = [invitation EXCEPT ![i].status = "CANCELED"]
      /\ UNCHANGED <<member, role, charged>> /\ TypeOK /\ Apart
  BY DEF Cancel, Cancelable, IInv
<1>2. PICK u \in Users : /\ u = invitation[i].user /\ invitation[i] \in Invitation
                         /\ i \in Waiting(u)
  BY <1>1, WrittenType
<1> DEFINE job == [kind |-> "cancel", user |-> u, invitation |-> i, pc |-> "freed"]
<1>3. job \in Work /\ Begin(h, job)
  BY <1>1, <1>2 DEF Cancel, Work, Answering, Answers
<1>4. /\ work[h] = Idle /\ work' \in [Handlers -> {Idle} \cup Work] /\ work'[h] = job
      /\ \A g \in Handlers \ {h} : work'[g] = work[g]
      /\ \A g \in Handlers \ {h} : On(g, u) => u \in raced'
      /\ raced \subseteq raced' /\ raced' \subseteq Users /\ Apart'
      /\ contested' = contested /\ lost' = lost
  BY <1>1, <1>3, BeginWork
<1>5. /\ invitation' \in [Invitations -> {NoInvitation} \cup Invitation]
      /\ invitation'[i] \in Invitation /\ invitation'[i].status = "CANCELED"
      /\ invitation'[i].user = u
      /\ \A j \in Invitations \ {i} : invitation'[j] = invitation[j]
      /\ \A j \in Invitations : invitation[j] \in Invitation =>
           invitation'[j] \in Invitation /\ invitation'[j].user = invitation[j].user
      /\ \A v \in Users \ {u} : Waiting(v)' = Waiting(v) /\ Expired(v)' = Expired(v)
  BY <1>1, <1>2, StatusKept
<1>6. TypeOK'
  <2>1. contested' \in BOOLEAN /\ lost' \subseteq Users
    BY <1>4 DEF IInv, TypeOK
  <2> QED
    BY <1>1, <1>4, <1>5, <2>1 DEF TypeOK
<1>7. u \notin raced' => HandlerFits(h)' /\ UserFits(u)'
  <2> SUFFICES ASSUME u \notin raced' PROVE HandlerFits(h)' /\ UserFits(u)'
    OBVIOUS
  <2>1. UserFits(u)
    BY <1>4 DEF IInv, UsersFit
  <2>2. Waiting(u) = {i} /\ member[u] \notin Members
    BY <1>2, <2>1 DEF UserFits, Waiting
  <2>3. Waiting(u)' = {}
    BY <1>5, <2>2 DEF Waiting, Pending
  <2>4. Seats(u) = 1 /\ Seats(u)' = 0
    <3>1. Cardinality(Waiting(u)) = 1 /\ Cardinality(Waiting(u)') = 0
      BY <2>2, <2>3, FS_EmptySet, FS_Singleton
    <3> QED
      BY <1>1, <2>2, <3>1 DEF Seats
  <2>5. Debt(h)' = 1
    BY <1>4 DEF Debt, Busy
  <2>6. charged'[u] >= Seats(u)' + Debt(h)' /\ charged'[u] >= Seats(u)'
    BY <1>1, <2>1, <2>4, <2>5 DEF UserFits, TypeOK
  <2> QED
    BY <1>1, <1>4, <2>2, <2>3, <2>6 DEF HandlerFits, UserFits, Changes
<1>8. OwnerRemains' /\ CheckedAlone' /\ CheckedRelies'
  <2>1. \A o \in Users : IsOwner(o) => IsOwner(o)'
    BY <1>1 DEF IsOwner
  <2> QED
    BY <1>4, <2>1, OwnersKept
<1> QED
  BY <1>1, <1>4, <1>5, <1>6, <1>7, <1>8, Close

\* A look at an invitation, to resend or to accept it.
LEMMA ResendBeginKept ==
  ASSUME IInv, NEW h \in Handlers, NEW i \in Invitations, ResendBegin(h, i)
  PROVE  IInv'
<1>1. Pending(i) /\ UNCHANGED rows /\ charged' = charged /\ TypeOK /\ Apart
  BY DEF ResendBegin, IInv
<1>2. PICK u \in Users : u = invitation[i].user /\ invitation[i] \in Invitation
  BY <1>1, WrittenType
<1> DEFINE job == [kind |-> "resend", user |-> u, invitation |-> i, pc |-> "found"]
<1>3. job \in Work /\ Begin(h, job)
  BY <1>1, <1>2 DEF ResendBegin, Work, Answering, Answers
<1>4. /\ work[h] = Idle /\ work' \in [Handlers -> {Idle} \cup Work] /\ work'[h] = job
      /\ \A g \in Handlers \ {h} : work'[g] = work[g]
      /\ \A g \in Handlers \ {h} : On(g, u) => u \in raced'
      /\ raced \subseteq raced' /\ raced' \subseteq Users /\ Apart'
      /\ contested' = contested /\ lost' = lost
  BY <1>1, <1>3, BeginWork
<1>5. u \notin raced' => HandlerFits(h)'
  <2> SUFFICES ASSUME u \notin raced' PROVE HandlerFits(h)'
    OBVIOUS
  <2>1. Debt(h)' = 0
    BY <1>4 DEF Debt, Busy
  <2>2. charged[u] >= Seats(u) /\ Seats(u) \in Nat
    BY <1>4, SeatsNat DEF IInv, UsersFit, UserFits
  <2> QED
    BY <1>1, <1>4, <2>1, <2>2, RowsKept DEF HandlerFits, Changes
<1>6. lost' \subseteq Users
  BY <1>1, <1>4 DEF TypeOK
<1> QED
  BY <1>1, <1>2, <1>4, <1>5, <1>6, Quiet

\* A user who accepts found the invitation pending, which changes nothing yet.
LEMMA AcceptBeginKept ==
  ASSUME IInv, NEW h \in Handlers, NEW i \in Invitations, AcceptBegin(h, i)
  PROVE  IInv'
<1>1. Pending(i) /\ UNCHANGED rows /\ charged' = charged /\ TypeOK /\ Apart
  BY DEF AcceptBegin, Pending, IInv
<1>2. PICK u \in Users : /\ u = invitation[i].user /\ invitation[i] \in Invitation
                         /\ i \in Waiting(u)
  BY <1>1, WrittenType
<1> DEFINE job == [kind |-> "accept", user |-> u, invitation |-> i, pc |-> "found"]
<1>3. job \in Work /\ Begin(h, job)
  BY <1>1, <1>2 DEF AcceptBegin, Work, Answering, Answers
<1>4. /\ work[h] = Idle /\ work' \in [Handlers -> {Idle} \cup Work] /\ work'[h] = job
      /\ \A g \in Handlers \ {h} : work'[g] = work[g]
      /\ \A g \in Handlers \ {h} : On(g, u) => u \in raced'
      /\ raced \subseteq raced' /\ raced' \subseteq Users /\ Apart'
      /\ contested' = contested /\ lost' = lost
  BY <1>1, <1>3, BeginWork
<1>5. u \notin raced' => HandlerFits(h)'
  <2> SUFFICES ASSUME u \notin raced' PROVE HandlerFits(h)'
    OBVIOUS
  <2>1. Debt(h)' = 0
    BY <1>4 DEF Debt, Busy
  <2>2. charged[u] >= Seats(u) /\ Seats(u) \in Nat
    BY <1>4, SeatsNat DEF IInv, UsersFit, UserFits
  <2> QED
    BY <1>1, <1>2, <1>4, <2>1, <2>2, RowsKept DEF HandlerFits, Changes
<1>6. lost' \subseteq Users
  BY <1>1, <1>4 DEF TypeOK
<1> QED
  BY <1>1, <1>2, <1>4, <1>5, <1>6, Quiet

\* What a handler that has looked at an invitation has in hand.
LEMMA Answered ==
  ASSUME TypeOK, Known, NEW h \in Handlers, work[h].kind \in Answers
  PROVE  /\ work[h].invitation \in Invitations
         /\ invitation[work[h].invitation] \in Invitation
         /\ invitation[work[h].invitation].user = work[h].user
  BY BusyIsWork, WorkType DEF Known, Answering

\* A resent invitation has its time again.
LEMMA ResendCommitKept ==
  ASSUME IInv, NEW h \in Handlers, NEW u \in Users, u = work[h].user, ResendCommit(h)
  PROVE  IInv'
<1>1. work[h].kind = "resend" /\ work[h].kind \in Answers /\ work[h] # Idle
  BY DEF ResendCommit, Busy, Idle, Answers
<1>2. TypeOK /\ Apart /\ Known /\ Finish(h) /\ UNCHANGED <<member, role, charged>>
  BY DEF IInv, ResendCommit
<1>3. PICK i \in Invitations : /\ i = work[h].invitation /\ invitation[i] \in Invitation
                               /\ invitation[i].user = u
  BY <1>1, <1>2, Answered
<1> DEFINE old == invitation[i].status
           new == IF old = "LAPSED" THEN "PENDING" ELSE old
<1>4. /\ new \in {"PENDING", "LAPSED", "ACCEPTED", "CANCELED", "EXPIRED"}
      /\ invitation' = [invitation EXCEPT ![i].status = new]
  BY <1>2, <1>3 DEF ResendCommit, Invitation, TypeOK
<1>5. old \in {"PENDING", "LAPSED"} <=> new \in {"PENDING", "LAPSED"}
  OBVIOUS
<1> HIDE DEF new
<1>6. /\ invitation' \in [Invitations -> {NoInvitation} \cup Invitation]
      /\ invitation'[i] \in Invitation /\ invitation'[i].status = new
      /\ invitation'[i].user = u
      /\ \A j \in Invitations \ {i} : invitation'[j] = invitation[j]
      /\ \A j \in Invitations : invitation[j] \in Invitation =>
           invitation'[j] \in Invitation /\ invitation'[j].user = invitation[j].user
      /\ \A v \in Users \ {u} : Waiting(v)' = Waiting(v) /\ Expired(v)' = Expired(v)
  BY <1>2, <1>3, <1>4, StatusKept
<1>7. /\ work' \in [Handlers -> {Idle} \cup Work] /\ Apart' /\ raced' = raced
      /\ \A g \in Handlers \ {h} : work'[g] = work[g]
      /\ \A g \in Handlers \ {h} : On(g, u) => u \in raced
      /\ contested' = contested /\ lost' = lost /\ work'[h] = Idle
  BY <1>1, <1>2, FinishWork
<1>8. TypeOK'
  <2>1. contested' \in BOOLEAN /\ lost' \subseteq Users
    BY <1>2, <1>7 DEF TypeOK
  <2> QED
    BY <1>2, <1>6, <1>7, <2>1 DEF TypeOK
<1>9. u \notin raced' => UserFits(u)'
  <2>1. Waiting(u)' = Waiting(u)
    BY <1>3, <1>5, <1>6 DEF Waiting, Pending
  <2>2. Seats(u)' = Seats(u)
    BY <1>2, <2>1 DEF Seats
  <2> QED
    BY <1>2, <1>7, <2>1, <2>2 DEF IInv, UsersFit, UserFits
<1>10. OwnerRemains' /\ CheckedAlone' /\ CheckedRelies'
  <2>1. \A o \in Users : IsOwner(o) => IsOwner(o)'
    BY <1>2 DEF IsOwner
  <2> QED
    BY <1>7, <2>1, OwnersKept
<1> QED
  BY <1>2, <1>6, <1>7, <1>8, <1>9, <1>10, Close DEF Answers, Idle

\* An accepted invitation leaves its seat to the membership.
LEMMA AcceptCommitKept ==
  ASSUME IInv, NEW h \in Handlers, NEW u \in Users, u = work[h].user, AcceptCommit(h)
  PROVE  IInv'
<1>1. work[h].kind = "accept" /\ work[h].kind \in Answers /\ work[h] # Idle
      /\ work[h].pc = "found"
  BY DEF AcceptCommit, Busy, Idle, Answers
<1>2. TypeOK /\ Apart /\ Known /\ Finish(h) /\ charged' = charged
  BY DEF IInv, AcceptCommit
<1>3. PICK i \in Invitations : /\ i = work[h].invitation /\ invitation[i] \in Invitation
                               /\ invitation[i].user = u
  BY <1>1, <1>2, Answered
<1>4. /\ member' = [member EXCEPT ![u] = "ACTIVE"]
      /\ role' = [role EXCEPT ![u] = invitation[i].role]
      /\ invitation' = [invitation EXCEPT ![i].status = "ACCEPTED"]
  <2>1. /\ member' = [member EXCEPT ![work[h].user] = Accepted]
        /\ role' = [role EXCEPT ![work[h].user] = invitation[work[h].invitation].role]
        /\ invitation' = [invitation EXCEPT ![work[h].invitation].status = "ACCEPTED"]
    BY DEF AcceptCommit
  <2> QED
    BY <1>3, <2>1 DEF Accepted
<1>5. /\ invitation' \in [Invitations -> {NoInvitation} \cup Invitation]
      /\ invitation'[i] \in Invitation /\ invitation'[i].status = "ACCEPTED"
      /\ invitation'[i].user = u
      /\ \A j \in Invitations \ {i} : invitation'[j] = invitation[j]
      /\ \A j \in Invitations : invitation[j] \in Invitation =>
           invitation'[j] \in Invitation /\ invitation'[j].user = invitation[j].user
      /\ \A v \in Users \ {u} : Waiting(v)' = Waiting(v) /\ Expired(v)' = Expired(v)
  <2>1. invitation' = [invitation EXCEPT ![i].status = "ACCEPTED"]
    BY <1>4
  <2>2. "ACCEPTED" \in {"PENDING", "LAPSED", "ACCEPTED", "CANCELED", "EXPIRED"}
    OBVIOUS
  <2>3. TypeOK /\ invitation[i] \in Invitation
    BY <1>2, <1>3
  <2>4. /\ invitation' \in [Invitations -> {NoInvitation} \cup Invitation]
        /\ invitation'[i] \in Invitation /\ invitation'[i].status = "ACCEPTED"
        /\ invitation'[i].user = invitation[i].user
        /\ \A j \in Invitations \ {i} : invitation'[j] = invitation[j]
        /\ \A j \in Invitations : invitation[j] \in Invitation =>
             invitation'[j] \in Invitation /\ invitation'[j].user = invitation[j].user
        /\ \A v \in Users \ {invitation[i].user} :
             Waiting(v)' = Waiting(v) /\ Expired(v)' = Expired(v)
    BY <2>1, <2>2, <2>3, StatusKept
  <2> QED
    BY <1>3, <2>4
<1>6. /\ work' \in [Handlers -> {Idle} \cup Work] /\ Apart' /\ raced' = raced
      /\ \A g \in Handlers \ {h} : work'[g] = work[g]
      /\ \A g \in Handlers \ {h} : On(g, u) => u \in raced
      /\ contested' = contested /\ lost' = lost /\ work'[h] = Idle
  BY <1>1, <1>2, FinishWork
<1>7. /\ member' \in [Users -> MemberStatuses] /\ role' \in [Users -> Roles]
      /\ member'[u] = "ACTIVE"
      /\ \A v \in Users \ {u} : member'[v] = member[v] /\ role'[v] = role[v]
  BY <1>2, <1>3, <1>4 DEF TypeOK, MemberStatuses, Members, Invitation
<1>8. TypeOK'
  <2>1. contested' \in BOOLEAN /\ lost' \subseteq Users
    BY <1>2, <1>6 DEF TypeOK
  <2> QED
    BY <1>2, <1>5, <1>6, <1>7, <2>1 DEF TypeOK
<1>9. ASSUME u \notin raced
      PROVE  Waiting(u) = {i} /\ member[u] \notin Members /\ UserFits(u)
  <2>1. HandlerFits(h) /\ UserFits(u)
    BY <1>1, <1>9 DEF IInv, HandlersFit, UsersFit
  <2>2. i \in Waiting(u)
    BY <1>1, <1>3, <2>1 DEF HandlerFits
  <2> QED
    BY <2>1, <2>2 DEF UserFits, Waiting
<1>10. u \notin raced' => UserFits(u)'
  <2> SUFFICES ASSUME u \notin raced PROVE UserFits(u)'
    BY <1>6
  <2>1. Waiting(u)' = {}
    BY <1>5, <1>9 DEF Waiting, Pending
  <2>2. Seats(u) = 1 /\ Seats(u)' = 1
    <3>1. Cardinality(Waiting(u)) = 1 /\ Cardinality(Waiting(u)') = 0
      BY <1>9, <2>1, FS_EmptySet, FS_Singleton
    <3> QED
      BY <1>7, <1>9, <3>1 DEF Seats, Members
  <2> QED
    BY <1>2, <1>9, <2>1, <2>2 DEF UserFits
<1>11. OwnerRemains' /\ CheckedAlone' /\ CheckedRelies'
  <2>1. raced' = {} => \A o \in Users : IsOwner(o) => IsOwner(o)'
    BY <1>6, <1>7, <1>9 DEF IsOwner, Members
  <2> QED
    BY <1>6, <2>1, OwnersKept
<1> QED
  BY <1>2, <1>5, <1>6, <1>7, <1>8, <1>10, <1>11, Close DEF Answers, Idle
------------------------------------------------------------------------------
(* Changes of a member *)

\* A change begins with the role of who asks for it, and has looked at nobody yet.
LEMMA ChangeBeginKept ==
  ASSUME IInv, NEW h \in Handlers, NEW u \in Users, NEW change \in Changes,
         NEW new \in Roles, ChangeBegin(h, u, change, new)
  PROVE  IInv'
<1>1. UNCHANGED rows /\ charged' = charged /\ TypeOK /\ Apart
  BY DEF ChangeBegin, IInv
<1>2. PICK by \in {"OWNER", "ADMIN"} :
        Begin(h, [kind |-> change, user |-> u, role |-> new, by |-> by, pc |-> "begun"])
  BY DEF ChangeBegin
<1> DEFINE job == [kind |-> change, user |-> u, role |-> new, by |-> by, pc |-> "begun"]
<1>3. job \in Work /\ Begin(h, job)
  BY <1>2 DEF Work, Changing
<1>4. /\ work[h] = Idle /\ work' \in [Handlers -> {Idle} \cup Work] /\ work'[h] = job
      /\ \A g \in Handlers \ {h} : work'[g] = work[g]
      /\ \A g \in Handlers \ {h} : On(g, u) => u \in raced'
      /\ raced \subseteq raced' /\ raced' \subseteq Users /\ Apart'
      /\ contested' = contested /\ lost' = lost
  BY <1>1, <1>3, BeginWork
<1>5. change \notin Answers \cup {"invite"}
  BY DEF Changes, Answers
<1>6. u \notin raced' => HandlerFits(h)'
  <2> SUFFICES ASSUME u \notin raced' PROVE HandlerFits(h)'
    OBVIOUS
  <2>1. Debt(h)' = 0
    BY <1>4, <1>5 DEF Debt, Busy
  <2>2. charged[u] >= Seats(u) /\ Seats(u) \in Nat
    BY <1>4, SeatsNat DEF IInv, UsersFit, UserFits
  <2>3. charged'[u] >= Seats(u)' + Debt(h)'
    BY <1>1, <2>1, <2>2, RowsKept
  <2> QED
    BY <1>4, <1>5, <2>3 DEF HandlerFits, ChangeFits, Answers
<1>7. lost' \subseteq Users
  BY <1>1, <1>4 DEF TypeOK
<1> QED
  BY <1>1, <1>4, <1>5, <1>6, <1>7, Quiet

\* The look at the target: from here on its role and status are known.
LEMMA ChangeFindKept ==
  ASSUME IInv, NEW h \in Handlers, NEW u \in Users, u = work[h].user, ChangeFind(h)
  PROVE  IInv'
<1>1. work[h].kind \in Changes /\ work[h].pc = "begun" /\ work[h] # Idle
      /\ work[h].kind \notin Answers \cup {"invite", "cancel"}
  BY DEF ChangeFind, Busy, Idle, Changes, Answers
<1>2. TypeOK /\ Apart /\ UNCHANGED rows /\ charged' = charged /\ member[u] \in Members
  BY DEF IInv, ChangeFind
<1>3. PICK pc \in {"found", "clear"} :
        /\ Goto(h, pc)
        /\ pc = "clear" => ~(role[u] = "OWNER" /\ Endangers(work[h].kind, work[h].role))
  BY DEF ChangeFind
<1>4. /\ work' \in [Handlers -> {Idle} \cup Work] /\ Apart' /\ raced' = raced
      /\ \A g \in Handlers \ {h} : work'[g] = work[g]
      /\ \A g \in Handlers \ {h} : On(g, u) => u \in raced
      /\ contested' = contested /\ lost' = lost
      /\ work'[h].kind = work[h].kind /\ work'[h].pc = pc /\ work'[h].user = u
      /\ work'[h].role = work[h].role
  BY <1>1, <1>2, <1>3, GotoWork
<1>5. u \notin raced' => HandlerFits(h)'
  <2> SUFFICES ASSUME u \notin raced' PROVE HandlerFits(h)'
    OBVIOUS
  <2>1. HandlerFits(h)
    BY <1>1, <1>4 DEF IInv, HandlersFit
  <2>2. Debt(h) = 0 /\ Debt(h)' = 0
    BY <1>1, <1>3, <1>4 DEF Debt, Busy
  <2>3. charged'[u] >= Seats(u)' + Debt(h)'
    BY <1>2, <2>1, <2>2, RowsKept DEF HandlerFits
  <2>4. ChangeFits(h, u)'
    BY <1>2, <1>3, <1>4, RowsKept DEF ChangeFits, Endangers
  <2> QED
    BY <1>1, <1>4, <2>3, <2>4 DEF HandlerFits, Answers
<1>6. raced' \subseteq Users /\ lost' \subseteq Users
  BY <1>2, <1>4 DEF TypeOK
<1> QED
  BY <1>1, <1>2, <1>3, <1>4, <1>5, <1>6, Quiet

\* The check that another owner remains.
LEMMA ChangeCheckKept ==
  ASSUME IInv, NEW h \in Handlers, NEW u \in Users, u = work[h].user, ChangeCheck(h)
  PROVE  IInv'
<1> DEFINE job == [work[h] EXCEPT !.pc = "checked"]
<1>1. work[h].kind \in Changes /\ work[h].pc = "found" /\ work[h] # Idle
      /\ work[h].kind \notin Answers \cup {"invite", "cancel"}
  BY DEF ChangeCheck, Busy, Idle, Changes, Answers
<1>2. /\ TypeOK /\ Apart /\ UNCHANGED rows /\ charged' = charged /\ AnotherOwner(u)
      /\ raced' = raced /\ lost' = lost
  BY DEF IInv, ChangeCheck
<1>3. contested' = (contested \/ \E g \in Handlers \ {h} : Busy(g, Changes, "checked"))
  BY DEF ChangeCheck
<1>4. /\ job \in Work /\ job.pc = "checked" /\ job.user = u /\ job.kind = work[h].kind
      /\ job.role = work[h].role
  <2>1. work[h] \in Changing
    BY <1>1, <1>2, WorkType
  <2>2. job \in Changing /\ job.pc = "checked" /\ job.user = work[h].user
        /\ job.kind = work[h].kind /\ job.role = work[h].role
    BY <2>1 DEF Changing
  <2> QED
    BY <2>2 DEF Work
<1>5. work' = [work EXCEPT ![h] = job]
  BY <1>2 DEF ChangeCheck, TypeOK
<1> HIDE DEF job
<1>6. /\ work' \in [Handlers -> {Idle} \cup Work] /\ work'[h] = job /\ Apart'
      /\ \A g \in Handlers \ {h} : work'[g] = work[g]
      /\ \A g \in Handlers \ {h} : On(g, u) => u \in raced
  <2>1. TypeOK /\ Apart /\ work[h] # Idle /\ raced' = raced
    BY <1>1, <1>2
  <2>2. job \in Work /\ job.user = work[h].user
    BY <1>4
  <2> QED
    BY <1>5, <2>1, <2>2, StepWork
<1>7. TypeOK'
  <2>1. contested' \in BOOLEAN
    BY DEF ChangeCheck
  <2> QED
    BY <1>2, <1>6, <2>1 DEF TypeOK, rows
<1>8. u \notin raced' => HandlerFits(h)' /\ UserFits(u)'
  <2> SUFFICES ASSUME u \notin raced PROVE HandlerFits(h)' /\ UserFits(u)'
    BY <1>2
  <2>1. HandlerFits(h) /\ UserFits(u)
    BY <1>1, <1>2 DEF IInv, HandlersFit, UsersFit
  <2>2. Debt(h) = 0 /\ Debt(h)' = 0
    BY <1>1, <1>4, <1>6 DEF Debt, Busy
  <2>3. charged'[u] >= Seats(u)' + Debt(h)'
    BY <1>2, <2>1, <2>2, RowsKept DEF HandlerFits
  <2>4. ChangeFits(h, u)'
    BY <1>1, <1>2, <1>4, <1>6, <2>1, RowsKept DEF HandlerFits, ChangeFits
  <2>5. HandlerFits(h)'
    BY <1>1, <1>4, <1>6, <2>3, <2>4 DEF HandlerFits, Answers
  <2> QED
    BY <1>2, <2>1, <2>5, RowsKept DEF UserFits
<1>9. ~contested' => ~contested /\ \A g \in Handlers : Checked(g)' => g = h
  <2>1. ASSUME ~contested'
        PROVE  ~contested /\ \A g \in Handlers \ {h} : ~Busy(g, Changes, "checked")
    <3>1. ~(contested \/ \E g \in Handlers \ {h} : Busy(g, Changes, "checked"))
      BY <1>3, <2>1, Zenon
    <3> QED
      BY <3>1
  <2> QED
    BY <1>6, <2>1 DEF Checked, Busy
<1>10. OwnerRemains'
  BY <1>2, <1>9, RowsKept DEF IInv, OwnerRemains
<1>11. CheckedAlone'
  BY <1>9 DEF CheckedAlone
<1>12. CheckedRelies'
  <2> SUFFICES ASSUME ~contested', raced' = {}, NEW g \in Handlers, Checked(g)'
               PROVE  AnotherOwner(work[g].user)'
    BY DEF CheckedRelies
  <2>1. g = h /\ work'[g].user = u
    BY <1>4, <1>6, <1>9
  <2>2. AnotherOwner(u)'
    BY <1>2, RowsKept DEF AnotherOwner
  <2> QED
    BY <2>1, <2>2 DEF AnotherOwner
<1> QED
  <2>1. raced \subseteq raced' /\ \A g \in Handlers \ {h} : On(g, u) => u \in raced'
    BY <1>2, <1>6
  <2>2. work'[h].user = u /\ work'[h].kind \notin Answers
    BY <1>1, <1>4, <1>6
  <2> QED
    BY <1>2, <1>6, <1>7, <1>8, <1>10, <1>11, <1>12, <2>1, <2>2, RowsKept, Close

\* The write of a change: it takes an owner away only after the check, and a
\* removal leaves a seat to be given back.
LEMMA ChangeCommitKept ==
  ASSUME IInv, NEW h \in Handlers, NEW u \in Users, u = work[h].user, ChangeCommit(h)
  PROVE  IInv'
<1>1. /\ work[h].kind \in Changes /\ work[h].pc \in {"clear", "checked"} /\ work[h] # Idle
      /\ work[h].kind \notin Answers \cup {"invite", "cancel"}
  BY DEF ChangeCommit, Busy, Idle, Changes, Answers
<1>2. TypeOK /\ Apart /\ invitation' = invitation /\ charged' = charged
  BY DEF IInv, ChangeCommit
<1>3. work[h] \in Changing /\ work[h].role \in Roles
  BY <1>1, <1>2, WorkType DEF Changing
<1>4. /\ work' \in [Handlers -> {Idle} \cup Work] /\ Apart' /\ raced' = raced
      /\ \A g \in Handlers \ {h} : work'[g] = work[g]
      /\ \A g \in Handlers \ {h} : On(g, u) => u \in raced
      /\ contested' = contested /\ lost' = lost
      /\ work[h].kind # "remove" => work'[h] = Idle
      /\ work[h].kind = "remove" =>
           work'[h].kind = "remove" /\ work'[h].pc = "freed" /\ work'[h].user = u
  <2>1. CASE work[h].kind = "remove"
    <3>1. Goto(h, "freed")
      BY <2>1 DEF ChangeCommit
    <3> QED
      BY <1>1, <1>2, <2>1, <3>1, GotoWork
  <2>2. CASE work[h].kind # "remove"
    <3>1. Finish(h)
      BY <2>2 DEF ChangeCommit
    <3> QED
      BY <1>1, <1>2, <2>2, <3>1, FinishWork
  <2> QED
    BY <2>1, <2>2
<1>5. /\ member' \in [Users -> MemberStatuses] /\ role' \in [Users -> Roles]
      /\ \A v \in Users \ {u} : member'[v] = member[v] /\ role'[v] = role[v]
      /\ member'[u] = CASE work[h].kind = "role" -> member[u]
                        [] work[h].kind = "suspend" -> "SUSPENDED"
                        [] work[h].kind = "reactivate" -> "ACTIVE"
                        [] work[h].kind = "remove" -> "REMOVED"
      /\ role'[u] = IF work[h].kind = "role" THEN work[h].role ELSE role[u]
  <2>1. CASE work[h].kind = "role"
    <3>1. role' = [role EXCEPT ![u] = work[h].role] /\ member' = member
      BY <2>1 DEF ChangeCommit
    <3> QED
      BY <1>2, <1>3, <2>1, <3>1 DEF TypeOK
  <2>2. CASE work[h].kind \in {"suspend", "reactivate", "remove"}
    <3> DEFINE new == CASE work[h].kind = "suspend" -> "SUSPENDED"
                        [] work[h].kind = "reactivate" -> "ACTIVE"
                        [] work[h].kind = "remove" -> "REMOVED"
    <3>1. member' = [member EXCEPT ![u] = new] /\ role' = role
      BY <2>2 DEF ChangeCommit
    <3>2. new \in MemberStatuses
      BY <2>2 DEF MemberStatuses, Members
    <3> QED
      BY <1>2, <2>2, <3>1, <3>2 DEF TypeOK
  <2> QED
    BY <1>1, <2>1, <2>2 DEF Changes
<1>6. \A v \in Users : Waiting(v)' = Waiting(v) /\ Expired(v)' = Expired(v)
  BY <1>2 DEF Waiting, Expired, Pending
<1>7. TypeOK'
  <2>1. contested' \in BOOLEAN /\ lost' \subseteq Users
    BY <1>2, <1>4 DEF TypeOK
  <2> QED
    BY <1>2, <1>4, <1>5, <2>1 DEF TypeOK
<1>8. ASSUME u \notin raced
      PROVE  /\ member[u] \in Members /\ Waiting(u) = {} /\ UserFits(u)
             /\ work[h].pc = "clear" =>
                  ~(role[u] = "OWNER" /\ Endangers(work[h].kind, work[h].role))
  <2>1. HandlerFits(h) /\ UserFits(u)
    BY <1>1, <1>8 DEF IInv, HandlersFit, UsersFit
  <2>2. ChangeFits(h, u)
    BY <1>1, <2>1 DEF HandlerFits
  <2> QED
    BY <1>1, <2>1, <2>2 DEF ChangeFits, UserFits
<1>9. u \notin raced' => UserFits(u)' /\ (work'[h] # Idle => HandlerFits(h)')
  <2> SUFFICES ASSUME u \notin raced PROVE UserFits(u)' /\ (work'[h] # Idle => HandlerFits(h)')
    BY <1>4
  <2>1. Waiting(u)' = {} /\ Cardinality(Waiting(u)) = 0 /\ Cardinality(Waiting(u)') = 0
    BY <1>6, <1>8, FS_EmptySet
  <2>2. Seats(u) = 1 /\ charged[u] >= 1 /\ charged'[u] = charged[u] /\ charged[u] \in Int
    BY <1>2, <1>8, <2>1 DEF Seats, UserFits, TypeOK
  <2>3. CASE work[h].kind = "remove"
    <3>1. Seats(u)' = 0
      BY <1>5, <2>1, <2>3 DEF Seats, Members
    <3>2. Debt(h)' = 1
      BY <1>4, <2>3 DEF Debt, Busy
    <3> QED
      BY <1>4, <2>1, <2>2, <2>3, <3>1, <3>2
         DEF HandlerFits, UserFits, ChangeFits, Changes, Answers
  <2>4. CASE work[h].kind # "remove"
    <3>1. Seats(u)' \in {0, 1}
      BY <2>1 DEF Seats
    <3> QED
      BY <1>4, <2>1, <2>2, <2>4, <3>1 DEF UserFits
  <2> QED
    BY <2>3, <2>4
<1>10. OwnerRemains' /\ CheckedAlone' /\ CheckedRelies'
  <2>1. work'[h] = Idle \/ work'[h].pc # "checked"
    BY <1>4
  <2>2. CASE work[h].pc = "clear"
    <3>1. raced' = {} => \A o \in Users : IsOwner(o) => IsOwner(o)'
      <4> SUFFICES ASSUME raced = {}, NEW o \in Users, IsOwner(o) PROVE IsOwner(o)'
        BY <1>4
      <4>1. CASE o # u
        BY <1>5, <4>1 DEF IsOwner
      <4>2. CASE o = u
        <5>1. ~Endangers(work[h].kind, work[h].role)
          BY <1>8, <2>2, <4>2 DEF IsOwner
        <5> QED
          BY <1>1, <1>5, <4>2, <5>1 DEF IsOwner, Endangers, Changes
      <4> QED
        BY <4>1, <4>2
    <3> QED
      BY <1>4, <2>1, <3>1, OwnersKept
  <2>3. CASE work[h].pc = "checked"
    <3>1. Checked(h)
      BY <1>1, <2>3 DEF Checked, Busy
    <3>2. ~contested => \A g \in Handlers : ~Checked(g)'
      <4>1. ~Checked(h)'
        BY <1>4 DEF Checked, Busy, Idle, Changes
      <4>2. ~contested => \A g \in Handlers \ {h} : ~Checked(g)
        BY <3>1 DEF IInv, CheckedAlone
      <4>3. \A g \in Handlers \ {h} : Checked(g)' => Checked(g)
        BY <1>4 DEF Checked, Busy
      <4> QED
        BY <4>1, <4>2, <4>3
    <3>3. ~contested' /\ raced' = {} => \E o \in Users : IsOwner(o)'
      <4> SUFFICES ASSUME ~contested, raced = {} PROVE \E o \in Users : IsOwner(o)'
        BY <1>4
      <4>1. PICK o \in Users \ {u} : IsOwner(o)
        BY <3>1 DEF IInv, CheckedRelies, AnotherOwner
      <4> QED
        BY <1>5, <4>1 DEF IsOwner
    <3>4. OwnerRemains'
      BY <3>3 DEF OwnerRemains
    <3>5. CheckedAlone' /\ CheckedRelies'
      BY <1>4, <3>2 DEF CheckedAlone, CheckedRelies
    <3> QED
      BY <3>4, <3>5
  <2> QED
    BY <1>1, <2>2, <2>3
<1> QED
  <2>1. raced \subseteq raced' /\ \A g \in Handlers \ {h} : On(g, u) => u \in raced'
    BY <1>4
  <2>2. (work'[h] = Idle \/ work'[h].user = u) /\ work'[h].kind \notin Answers
    BY <1>4 DEF Idle, Answers
  <2>3. \A v \in Users \ {u} :
          /\ member'[v] = member[v] /\ role'[v] = role[v] /\ charged'[v] = charged[v]
          /\ Waiting(v)' = Waiting(v) /\ Expired(v)' = Expired(v)
    BY <1>2, <1>5, <1>6
  <2> QED
    BY <1>2, <1>4, <1>7, <1>9, <1>10, <2>1, <2>2, <2>3, Close
------------------------------------------------------------------------------
(* The end of a handler, and the beginning of an invite *)

\* A handler that ends early, or dies, leaves its user charged for too much, and
\* never for too little.
LEMMA DieKept ==
  ASSUME IInv, NEW h \in Handlers, NEW u \in Users, u = work[h].user, Die(h)
  PROVE  IInv'
<1>1. /\ work[h] # Idle /\ TypeOK /\ Apart /\ UNCHANGED rows /\ charged' = charged
      /\ raced' = raced /\ contested' = contested /\ work' = [work EXCEPT ![h] = Idle]
  BY DEF Die, IInv
<1>2. /\ work' \in [Handlers -> {Idle} \cup Work] /\ work'[h] = Idle /\ Apart'
      /\ \A g \in Handlers \ {h} : work'[g] = work[g]
      /\ \A g \in Handlers \ {h} : On(g, u) => u \in raced
  BY <1>1, StepWork
<1>3. TypeOK'
  <2>1. contested' \in BOOLEAN /\ lost' \subseteq Users
    BY <1>1 DEF Die, TypeOK
  <2> QED
    BY <1>1, <1>2, <2>1 DEF TypeOK, rows
<1>4. u \notin raced' => UserFits(u)'
  BY <1>1, RowsKept DEF IInv, UsersFit, UserFits
<1>5. OwnerRemains' /\ CheckedAlone' /\ CheckedRelies'
  BY <1>1, <1>2, RowsKept, OwnersKept
<1> QED
  BY <1>1, <1>2, <1>3, <1>4, <1>5, RowsKept, Close DEF Idle, Answers

\* An invite takes over the seats of the invitations that have expired.
LEMMA InviteBeginKept ==
  ASSUME IInv, NEW h \in Handlers, NEW u \in Users, NEW new \in Roles,
         InviteBegin(h, u, new)
  PROVE  IInv'
<1>1. TypeOK /\ Apart /\ UNCHANGED <<member, role, charged>>
      /\ invitation' = [i \in Invitations |->
           IF i \in Expired(u) THEN [invitation[i] EXCEPT !.status = "EXPIRED"]
           ELSE invitation[i]]
  BY DEF InviteBegin, IInv
<1>2. /\ Expired(u) \subseteq Waiting(u) /\ IsFiniteSet(Waiting(u)) /\ IsFiniteSet(Expired(u))
      /\ Cardinality(Expired(u)) \in Nat /\ Cardinality(Waiting(u)) \in Nat
      /\ Cardinality(Waiting(u) \ Expired(u)) = Cardinality(Waiting(u)) - Cardinality(Expired(u))
  <2>1. Expired(u) \subseteq Waiting(u)
    BY DEF Expired
  <2>2. Waiting(u) \cap Expired(u) = Expired(u)
    BY <2>1
  <2>3. IsFiniteSet(Waiting(u)) /\ Cardinality(Waiting(u)) \in Nat
    BY SeatsNat
  <2>4. IsFiniteSet(Expired(u)) /\ Cardinality(Expired(u)) \in Nat
    BY <2>1, <2>3, FS_Subset, FS_CardinalityType
  <2>5. Cardinality(Waiting(u) \ Expired(u))
          = Cardinality(Waiting(u)) - Cardinality(Waiting(u) \cap Expired(u))
    BY <2>3, FS_Difference
  <2> QED
    BY <2>1, <2>2, <2>3, <2>4, <2>5
<1>3. PICK job : /\ Begin(h, job) /\ job \in Inviting /\ job.kind = "invite" /\ job.user = u
                 /\ job.pc = "begun" /\ job.owed = Cardinality(Expired(u))
  BY <1>2 DEF InviteBegin, Inviting
<1>4. /\ work[h] = Idle /\ work' \in [Handlers -> {Idle} \cup Work] /\ work'[h] = job
      /\ \A g \in Handlers \ {h} : work'[g] = work[g]
      /\ \A g \in Handlers \ {h} : On(g, u) => u \in raced'
      /\ raced \subseteq raced' /\ raced' \subseteq Users /\ Apart'
      /\ contested' = contested /\ lost' = lost
  BY <1>1, <1>3, BeginWork DEF Work
<1>5. ASSUME NEW i \in Invitations
      PROVE  /\ i \notin Expired(u) => invitation'[i] = invitation[i]
             /\ i \in Expired(u) => /\ invitation[i] \in Invitation
                                    /\ invitation'[i] \in Invitation
                                    /\ invitation'[i].status = "EXPIRED"
                                    /\ invitation'[i].user = u
                                    /\ invitation[i].user = u
  <2>1. i \notin Expired(u) => invitation'[i] = invitation[i]
    BY <1>1
  <2>2. ASSUME i \in Expired(u)
        PROVE  /\ invitation[i] \in Invitation /\ invitation[i].user = u
               /\ invitation'[i] = [invitation[i] EXCEPT !.status = "EXPIRED"]
    BY <1>1, <2>2, WrittenType DEF Expired, Waiting
  <2>3. ASSUME i \in Expired(u)
        PROVE  /\ invitation'[i] \in Invitation /\ invitation'[i].status = "EXPIRED"
               /\ invitation'[i].user = u
    BY <2>2, <2>3 DEF Invitation
  <2> QED
    BY <2>1, <2>2, <2>3
<1>6. TypeOK'
  <2>1. contested' \in BOOLEAN /\ lost' \subseteq Users
    BY <1>1, <1>4 DEF TypeOK
  <2>2. invitation' \in [Invitations -> {NoInvitation} \cup Invitation]
    <3>1. \A i \in Invitations : invitation'[i] \in {NoInvitation} \cup Invitation
      BY <1>1, <1>5 DEF TypeOK
    <3>2. invitation' = [i \in Invitations |-> invitation'[i]]
      BY <1>1
    <3> QED
      BY <3>1, <3>2
  <2> QED
    BY <1>1, <1>4, <2>1, <2>2 DEF TypeOK
<1>7. \A v \in Users \ {u} : Waiting(v)' = Waiting(v) /\ Expired(v)' = Expired(v)
  BY <1>5 DEF Waiting, Expired, Pending
<1>8. Waiting(u)' = Waiting(u) \ Expired(u) /\ Expired(u)' = {}
  <2>1. Waiting(u)' = Waiting(u) \ Expired(u)
    BY <1>5 DEF Waiting, Pending
  <2>2. \A i \in Waiting(u) \ Expired(u) : invitation'[i].status # "LAPSED"
    BY <1>5 DEF Expired, Waiting
  <2> QED
    BY <2>1, <2>2 DEF Expired
<1>9. u \notin raced' => UserFits(u)' /\ HandlerFits(h)'
  <2> SUFFICES ASSUME u \notin raced' PROVE UserFits(u)' /\ HandlerFits(h)'
    OBVIOUS
  <2>1. UserFits(u)
    BY <1>4 DEF IInv, UsersFit
  <2>2. Seats(u)' = Seats(u) - Cardinality(Expired(u)) /\ Seats(u) \in Nat
    BY <1>1, <1>2, <1>8, SeatsNat DEF Seats
  <2>3. Debt(h)' = Cardinality(Expired(u))
    BY <1>3, <1>4 DEF Debt, Busy
  <2>4. charged'[u] >= Seats(u)' + Debt(h)' /\ charged'[u] >= Seats(u)'
    BY <1>1, <1>2, <2>1, <2>2, <2>3 DEF UserFits, TypeOK
  <2>5. UserFits(u)'
    BY <1>1, <1>8, <2>1, <2>4 DEF UserFits
  <2>6. HandlerFits(h)'
    BY <1>3, <1>4, <1>8, <2>4 DEF HandlerFits, InviteFits, Changes
  <2> QED
    BY <2>5, <2>6
<1>10. OwnerRemains' /\ CheckedAlone' /\ CheckedRelies'
  <2>1. \A o \in Users : IsOwner(o) => IsOwner(o)'
    BY <1>1 DEF IsOwner
  <2> QED
    BY <1>3, <1>4, <2>1, OwnersKept
<1>11. \A i \in Invitations : invitation[i] \in Invitation =>
         invitation'[i] \in Invitation /\ invitation'[i].user = invitation[i].user
  BY <1>5
<1> QED
  <2>1. work'[h].user = u /\ work'[h].kind \notin Answers
    BY <1>3, <1>4 DEF Answers
  <2> QED
    BY <1>1, <1>4, <1>6, <1>7, <1>9, <1>10, <1>11, <2>1, Close
------------------------------------------------------------------------------
(* The invariant, and what follows from it *)

\* No step of the organization leaves the inductive invariant.
LEMMA IInvStep == IInv /\ [Next]_vars => IInv'
<1> SUFFICES ASSUME IInv, [Next]_vars PROVE IInv'
  OBVIOUS
<1>1. CASE UNCHANGED vars
  <2>1. UNCHANGED rows /\ charged' = charged /\ work' = work /\ raced' = raced
        /\ contested' = contested /\ lost' = lost
    BY <1>1 DEF vars, history
  <2>2. TypeOK'
    BY <2>1 DEF IInv, TypeOK, rows
  <2>3. Apart' /\ Known'
    BY <2>1, RowsKept DEF IInv, Apart, On, Known
  <2>4. UsersFit'
    BY <2>1, RowsKept DEF IInv, UsersFit, UserFits
  <2>5. HandlersFit'
    <3> SUFFICES ASSUME NEW h \in Handlers, work[h] # Idle, work[h].user \notin raced
                 PROVE  HandlerFits(h)'
      BY <2>1 DEF HandlersFit
    <3>1. HandlerFits(h)
      BY DEF IInv, HandlersFit
    <3> QED
      BY <2>1, <3>1 DEF rows, HandlerFits, Debt, Busy, Seats, Waiting, Expired, Pending,
           InviteFits, ChangeFits
  <2>6. OwnerRemains' /\ CheckedAlone' /\ CheckedRelies'
    BY <2>1 DEF rows, IInv, OwnerRemains, CheckedAlone, CheckedRelies, Checked, Busy,
         AnotherOwner, IsOwner
  <2> QED
    BY <2>2, <2>3, <2>4, <2>5, <2>6 DEF IInv
<1>2. CASE \E i \in Invitations : Lapse(i)
  BY <1>2, LapseKept
<1>3. ASSUME NEW h \in Handlers, Step(h) PROVE IInv'
  <2>1. work[h] # Idle
    BY <1>3, BusyIsWork DEF Step, InviteGiveBack, InviteLook, InviteStranger, InviteReserve,
         InviteCreate, GiveBack, ResendCommit, AcceptCommit, ChangeFind, ChangeCheck,
         ChangeCommit, Die, Busy, Changes, Answers
  <2>2. PICK u \in Users : u = work[h].user
    BY <2>1, WorkType DEF IInv
  <2> QED
    BY <1>3, <2>2, GiveBackExpiredKept, LookKept, StrangerKept, ReserveKept, CreateKept,
       GiveBackKept, ResendCommitKept, AcceptCommitKept, ChangeFindKept, ChangeCheckKept,
       ChangeCommitKept, DieKept
       DEF Step
<1>4. ASSUME NEW h \in Handlers, Start(h) PROVE IInv'
  BY <1>4, InviteBeginKept, ChangeBeginKept, CancelKept, ResendBeginKept, AcceptBeginKept
     DEF Start
<1> QED
  BY <1>1, <1>2, <1>3, <1>4 DEF Next

\* The inductive invariant holds in every reachable state.
THEOREM Invariance == Spec => []IInv
  BY InitIInv, IInvStep, PTL DEF Spec

\* Every row, counter and handler of the organization keeps its type, for any
\* users, invitations and number of requests in progress.
THEOREM TypeCorrect == Spec => []TypeOK
<1>1. IInv => TypeOK
  BY DEF IInv
<1> QED
  BY <1>1, Invariance, PTL

\* A seat that somebody takes stays charged to the plan through expiry,
\* cancellation, acceptance, removal and the death of any handler, about any user
\* whose handlers do not overlap.
THEOREM SeatsAreCovered == Spec => []SeatsCovered
<1>1. IInv => SeatsCovered
  BY DEF IInv, UsersFit, UserFits, SeatsCovered
<1> QED
  BY <1>1, Invariance, PTL

\* An active owner remains unless two changes rely on each other's owner between
\* check and write, or two handlers overlap about one user.
THEOREM OwnersRemain == Spec => []OwnerRemains
<1>1. IInv => OwnerRemains
  BY DEF IInv
<1> QED
  BY <1>1, Invariance, PTL
------------------------------------------------------------------------------
(* The counter: the sum over all users *)

\* A set that has 0 and, with a natural number, the next has all of them: there
\* would be a least one that it lacks.
LEMMA Induction ==
  ASSUME NEW Good, 0 \in Good, \A n \in Nat : n \in Good => n + 1 \in Good
  PROVE  Nat \subseteq Good
<1> DEFINE R == {pair \in Nat \X Nat : pair[1] < pair[2]}
           Bad == Nat \ Good
<1> SUFFICES ASSUME Bad # {} PROVE FALSE
  OBVIOUS
<1>1. \E n \in Bad : \A m \in Bad : ~ (<<m, n>> \in R)
  <2>1. IsWellFoundedOn(R, Nat)
    BY NatLessThanWellFounded DEF OpToRel
  <2>2. Bad \subseteq Nat
    OBVIOUS
  <2> HIDE DEF R, Bad
  <2> QED
    BY <2>1, <2>2, WFMin
<1>2. PICK n \in Bad : \A m \in Bad : ~ (m < n)
  BY <1>1
<1>3. n - 1 \in Nat \cap Good
  BY <1>2
<1> QED
  BY <1>2, <1>3

\* The sum over a set by the sum over the set without one of its elements.
First(s) == CHOOSE x \in s : TRUE
Part(g, f, s) == IF s = {} THEN 0 ELSE f[First(s)] + g[s \ {First(s)}]
Sums(g, f) ==
  g \in [SUBSET Users -> Int] /\ \A s \in SUBSET Users : g[s] = Part(g, f, s)

\* A set of users has a size, which is 0 for none.
LEMMA Size ==
  ASSUME NEW s \in SUBSET Users
  PROVE  /\ Cardinality(s) \in Nat /\ Cardinality(s) <= Cardinality(Users)
         /\ Cardinality(s) = 0 <=> s = {}
<1>1. IsFiniteSet(s)
  BY UsersAssumption, FS_Subset
<1> QED
  BY <1>1, UsersAssumption, FS_CardinalityType, FS_EmptySet, FS_Subset

\* Removing an element makes it smaller by one.
LEMMA Smaller ==
  ASSUME NEW s \in SUBSET Users, s # {}
  PROVE  /\ First(s) \in s /\ s \ {First(s)} \in SUBSET Users
         /\ Cardinality(s \ {First(s)}) = Cardinality(s) - 1
<1>1. IsFiniteSet(s)
  BY UsersAssumption, FS_Subset
<1>2. First(s) \in s
  BY DEF First
<1> QED
  BY <1>1, <1>2, FS_RemoveElement

\* What holds of a set when it holds of it without its first element holds of
\* every set of users.
LEMMA SetInduction ==
  ASSUME NEW Good, {} \in Good,
         \A s \in SUBSET Users : s # {} /\ s \ {First(s)} \in Good => s \in Good
  PROVE  SUBSET Users \subseteq Good
<1> DEFINE Upto == {n \in Nat : \A s \in SUBSET Users : Cardinality(s) <= n => s \in Good}
<1>1. 0 \in Upto
  <2>1. \A s \in SUBSET Users : Cardinality(s) \in Nat /\ (Cardinality(s) = 0 => s = {})
    BY Size
  <2>2. \A s \in SUBSET Users : Cardinality(s) <= 0 => s = {}
    BY <2>1
  <2> QED
    BY <2>2
<1>2. ASSUME NEW n \in Nat, n \in Upto
      PROVE  n + 1 \in Upto
  <2> SUFFICES ASSUME NEW s \in SUBSET Users, Cardinality(s) <= n + 1
               PROVE  s \in Good
    OBVIOUS
  <2>1. CASE s = {}
    BY <2>1
  <2>2. CASE s # {}
    <3>1. s \ {First(s)} \in SUBSET Users /\ Cardinality(s \ {First(s)}) <= n
      BY <2>2, Smaller, Size
    <3>2. s \ {First(s)} \in Good
      BY <1>2, <3>1
    <3> QED
      BY <2>2, <3>2
  <2> QED
    BY <2>1, <2>2
<1>3. Nat \subseteq Upto
  <2> HIDE DEF Upto
  <2> QED
    BY <1>1, <1>2, Induction
<1> QED
  BY <1>3, Size

\* There is such a function: each round of the definition makes it right for sets
\* that are larger by one.
LEMMA SumsExist ==
  ASSUME NEW f \in [Users -> Int]
  PROVE  \E g : Sums(g, f)
<1> DEFINE Right(g, n) == \A s \in SUBSET Users : Cardinality(s) <= n => g[s] = Part(g, f, s)
           Upto == {n \in Nat : \E g \in [SUBSET Users -> Int] : Right(g, n)}
<1>1. 0 \in Upto
  <2> DEFINE g == [s \in SUBSET Users |-> 0]
  <2>1. Right(g, 0)
    <3> SUFFICES ASSUME NEW s \in SUBSET Users, Cardinality(s) <= 0
                 PROVE  g[s] = Part(g, f, s)
      OBVIOUS
    <3>1. s = {}
      BY Size
    <3> QED
      BY <3>1 DEF Part
  <2>2. g \in [SUBSET Users -> Int]
    OBVIOUS
  <2> HIDE DEF g, Right
  <2> QED
    BY <2>1, <2>2
<1>2. ASSUME NEW n \in Nat, n \in Upto
      PROVE  n + 1 \in Upto
  <2>1. PICK g \in [SUBSET Users -> Int] : Right(g, n)
    BY <1>2
  <2> DEFINE k == [s \in SUBSET Users |-> Part(g, f, s)]
  <2>2. k \in [SUBSET Users -> Int]
    <3> SUFFICES ASSUME NEW s \in SUBSET Users PROVE Part(g, f, s) \in Int
      OBVIOUS
    <3> QED
      BY Smaller, Size DEF Part
  <2>3. ASSUME NEW s \in SUBSET Users, Cardinality(s) <= n + 1
        PROVE  k[s] = Part(k, f, s)
    <3>1. CASE s = {}
      BY <3>1 DEF Part
    <3>2. CASE s # {}
      <4> DEFINE t == s \ {First(s)}
      <4>1. t \in SUBSET Users /\ Cardinality(t) <= n
        BY <2>3, <3>2, Smaller, Size
      <4>2. k[t] = g[t]
        BY <2>1, <4>1
      <4>3. k[s] = f[First(s)] + g[t]
        BY <3>2 DEF Part
      <4>4. Part(k, f, s) = f[First(s)] + k[t]
        BY <3>2 DEF Part
      <4> QED
        BY <4>2, <4>3, <4>4
    <3> QED
      BY <3>1, <3>2
  <2>4. Right(k, n + 1)
    BY <2>3
  <2> HIDE DEF k, Right
  <2> QED
    BY <2>2, <2>4
<1>3. Nat \subseteq Upto
  <2> HIDE DEF Upto
  <2> QED
    BY <1>1, <1>2, Induction
<1>4. PICK g \in [SUBSET Users -> Int] : Right(g, Cardinality(Users))
  BY <1>3, UsersAssumption, FS_CardinalityType
<1>5. \A s \in SUBSET Users : Cardinality(s) <= Cardinality(Users)
  BY Size
<1> QED
  BY <1>4, <1>5 DEF Sums

\* A count is what such a function gives for all users.
LEMMA CountIs ==
  ASSUME NEW f \in [Users -> Int]
  PROVE  \E g : Sums(g, f) /\ MapThenSumSet(LAMBDA u : f[u], Users) = g[Users]
<1> DEFINE Eq(g) == g = [s \in SUBSET Users |-> Part(g, f, s)]
           sum == CHOOSE g : Eq(g)
<1>1. MapThenSumSet(LAMBDA u : f[u], Users) = sum[Users]
  BY DEF MapThenSumSet, MapThenFoldSet, Part, First
<1>2. PICK g : Sums(g, f)
  BY SumsExist
<1>3. Eq(g)
  BY <1>2 DEF Sums
<1>4. Eq(sum)
  <2> HIDE DEF Eq
  <2> QED
    BY <1>3
<1> DEFINE Same == {s \in SUBSET Users : sum[s] = g[s]}
<1>5. SUBSET Users \subseteq Same
  <2>1. {} \in Same
    BY <1>3, <1>4 DEF Part
  <2>2. ASSUME NEW s \in SUBSET Users, s # {} /\ s \ {First(s)} \in Same
        PROVE  s \in Same
    <3>1. sum[s] = Part(sum, f, s) /\ g[s] = Part(g, f, s)
      BY <1>3, <1>4
    <3> QED
      BY <2>2, <3>1 DEF Part
  <2> HIDE DEF Same
  <2> QED
    BY <2>1, <2>2, SetInduction
<1> QED
  BY <1>1, <1>2, <1>5

\* The counter is positive when nobody is charged for less than nothing and
\* somebody for a seat: it does not stop a seat from being given back.
LEMMA SomeoneCounts ==
  ASSUME charged \in [Users -> Int], \A v \in Users : charged[v] >= 0,
         NEW u \in Users, charged[u] >= 1
  PROVE  MemberCount > 0
<1>1. PICK g : Sums(g, charged) /\ MemberCount = g[Users]
  BY CountIs DEF MemberCount
<1> DEFINE Good == {s \in SUBSET Users : g[s] >= 0 /\ (u \in s => g[s] >= 1)}
<1>2. SUBSET Users \subseteq Good
  <2>1. {} \in Good
    <3>1. g[{}] = 0
      BY <1>1 DEF Sums, Part
    <3> QED
      BY <3>1
  <2>2. ASSUME NEW s \in SUBSET Users, s # {} /\ s \ {First(s)} \in Good
        PROVE  s \in Good
    <3> DEFINE rest == s \ {First(s)}
    <3>1. /\ First(s) \in s /\ rest \in SUBSET Users
          /\ g[s] = charged[First(s)] + g[rest] /\ g[rest] \in Int
          /\ g[rest] >= 0 /\ (u \in rest => g[rest] >= 1)
      BY <1>1, <2>2, Smaller DEF Sums, Part
    <3>2. charged[First(s)] \in Int /\ charged[First(s)] >= 0
      BY <3>1
    <3>3. u \in s => u = First(s) \/ u \in rest
      OBVIOUS
    <3>4. g[s] >= 0 /\ (u \in s => g[s] >= 1)
      BY <3>1, <3>2, <3>3
    <3> QED
      BY <3>4
  <2> HIDE DEF Good
  <2> QED
    BY <2>1, <2>2, SetInduction
<1> QED
  BY <1>1, <1>2 DEF Sums
------------------------------------------------------------------------------
(* The seats charged, exactly *)

\* While no two handlers overlap, a user is charged for its seats and for what its
\* handler owes, and for nothing else, unless a handler died owing.
ExactFits ==
  raced = {} => \A u \in Users \ lost :
    /\ (\A h \in Handlers : ~On(h, u)) => charged[u] = Seats(u)
    /\ \A h \in Handlers : On(h, u) => charged[u] = Seats(u) + Debt(h)

\* What a step of one handler about one user does to the charges: it moves seats
\* between the rows, what the handler owes and the counter.
Balanced(h, u) ==
  /\ work[h] # Idle \/ work'[h] # Idle
  /\ work[h] = Idle \/ work[h].user = u
  /\ work'[h] = Idle \/ work'[h].user = u
  /\ \A g \in Handlers \ {h} : work'[g] = work[g]
  /\ \A v \in Users \ {u} : charged'[v] = charged[v] /\ Seats(v)' = Seats(v)
  /\ raced \subseteq raced' /\ lost \subseteq lost'
  /\ raced' = {} /\ u \notin lost' =>
       charged'[u] + Seats(u) + Debt(h) = charged[u] + Seats(u)' + Debt(h)'

\* What a handler owes is a number of seats.
LEMMA DebtNat ==
  ASSUME TypeOK, NEW h \in Handlers
  PROVE  Debt(h) \in Nat /\ (work[h] = Idle => Debt(h) = 0)
<1>1. CASE work[h] = Idle
  BY <1>1 DEF Debt, Busy, Idle
<1>2. CASE work[h] # Idle
  BY <1>2, WorkType DEF Debt, Busy, Inviting
<1> QED
  BY <1>1, <1>2

\* Such a step leaves the charges exact.
LEMMA BalancedKeeps ==
  ASSUME IInv, IInv', ExactFits, NEW h \in Handlers, NEW u \in Users, Balanced(h, u)
  PROVE  ExactFits'
<1> SUFFICES ASSUME raced' = {}, NEW v \in Users, v \notin lost'
             PROVE  /\ (\A g \in Handlers : ~On(g, v)') => charged'[v] = Seats(v)'
                    /\ \A g \in Handlers : On(g, v)' => charged'[v] = Seats(v)' + Debt(g)'
  BY DEF ExactFits
<1>1. raced = {} /\ v \notin lost
  BY DEF Balanced
<1>2. /\ (\A g \in Handlers : ~On(g, v)) => charged[v] = Seats(v)
      /\ \A g \in Handlers : On(g, v) => charged[v] = Seats(v) + Debt(g)
  BY <1>1 DEF ExactFits
<1>3. \A g \in Handlers \ {h} : (On(g, v)' <=> On(g, v)) /\ Debt(g)' = Debt(g)
  BY DEF Balanced, On, Debt, Busy
<1>4. CASE v # u
  <2>1. ~On(h, v) /\ ~On(h, v)'
    BY <1>4 DEF Balanced, On
  <2>2. charged'[v] = charged[v] /\ Seats(v)' = Seats(v)
    BY <1>4 DEF Balanced
  <2> QED
    BY <1>2, <1>3, <2>1, <2>2
<1>5. CASE v = u
  <2>1. \A g \in Handlers \ {h} : ~On(g, u) /\ ~On(g, u)'
    <3>1. CASE work[h] # Idle
      BY <1>1, <1>3, <1>5, <3>1 DEF IInv, Apart, On, Balanced
    <3>2. CASE work'[h] # Idle
      BY <1>3, <1>5, <3>2 DEF IInv, Apart, On, Balanced
    <3> QED
      BY <3>1, <3>2 DEF Balanced
  <2>2. /\ charged[u] \in Int /\ charged'[u] \in Int /\ Seats(u) \in Nat /\ Seats(u)' \in Nat
        /\ Debt(h) \in Nat /\ Debt(h)' \in Nat
        /\ work[h] = Idle => Debt(h) = 0
        /\ work'[h] = Idle => Debt(h)' = 0
    <3>1. Seats(u) \in Nat
      BY SeatsNat
    <3>2. Seats(u)' \in Nat
      <4>1. IsFiniteSet(Waiting(u)')
        BY InvitationsAssumption, FS_Subset DEF Waiting
      <4>2. Cardinality(Waiting(u)') \in Nat
        BY <4>1, FS_CardinalityType
      <4> QED
        BY <4>2 DEF Seats
    <3>3. Debt(h) \in Nat /\ (work[h] = Idle => Debt(h) = 0)
      BY DebtNat DEF IInv
    <3>4. Debt(h)' \in Nat /\ (work'[h] = Idle => Debt(h)' = 0)
      <4>1. work'[h] = Idle \/ work'[h] \in Work
        BY DEF IInv, TypeOK
      <4>2. work'[h].kind = "invite" => work'[h] = Idle \/ work'[h].owed \in Nat
        BY <4>1 DEF Work, Inviting, Changing, Answering, Changes, Answers
      <4> QED
        BY <4>2 DEF Debt, Busy, Idle
    <3>5. charged[u] \in Int /\ charged'[u] \in Int
      BY DEF IInv, TypeOK
    <3> QED
      BY <3>1, <3>2, <3>3, <3>4, <3>5
  <2>3. charged[u] = Seats(u) + Debt(h)
    <3>1. CASE work[h] = Idle
      BY <1>2, <1>5, <2>1, <2>2, <3>1 DEF On
    <3>2. CASE work[h] # Idle
      BY <1>2, <1>5, <3>2 DEF On, Balanced
    <3> QED
      BY <3>1, <3>2
  <2>4. charged'[u] + Seats(u) + Debt(h) = charged[u] + Seats(u)' + Debt(h)'
    BY <1>5 DEF Balanced
  <2>5. charged'[u] = Seats(u)' + Debt(h)'
    BY <2>2, <2>3, <2>4
  <2>6. work'[h] = Idle => charged'[u] = Seats(u)'
    BY <2>2, <2>5
  <2>7. (\A g \in Handlers : ~On(g, u)') => work'[h] = Idle
    BY DEF On, Balanced
  <2> QED
    BY <1>5, <2>1, <2>5, <2>6, <2>7
<1> QED
  BY <1>4, <1>5


\* A step that writes no row and moves no seat.
LEMMA QuietBalanced ==
  ASSUME NEW h \in Handlers, NEW u \in Users, UNCHANGED <<rows, charged>>,
         work[h] # Idle \/ work'[h] # Idle,
         work[h] = Idle \/ work[h].user = u,
         work'[h] = Idle \/ work'[h].user = u,
         \A g \in Handlers \ {h} : work'[g] = work[g],
         raced \subseteq raced', lost \subseteq lost',
         raced' = {} /\ u \notin lost' => Debt(h)' = Debt(h)
  PROVE  Balanced(h, u)
<1>1. UNCHANGED rows /\ charged' = charged
  OBVIOUS
<1> QED
  BY <1>1, RowsKept DEF Balanced

\* A look of an invite or of a change moves no seat.
LEMMA LooksBalanced ==
  ASSUME IInv, NEW h \in Handlers, NEW u \in Users, u = work[h].user,
         InviteLook(h) \/ InviteStranger(h) \/ ChangeFind(h) \/ ChangeCheck(h)
  PROVE  Balanced(h, u)
<1>1. TypeOK /\ Apart /\ UNCHANGED <<rows, charged>>
  BY DEF IInv, InviteLook, InviteStranger, ChangeFind, ChangeCheck
<1>2. CASE InviteLook(h) \/ InviteStranger(h)
  <2>1. PICK pc \in {"unique", "stranger"} : Goto(h, pc)
    BY <1>2 DEF InviteLook, InviteStranger
  <2>2. work[h] # Idle /\ work[h].kind = "invite" /\ Debt(h) = 0
    BY <1>2 DEF InviteLook, InviteStranger, Busy, Idle, Debt
  <2>3. /\ \A g \in Handlers \ {h} : work'[g] = work[g]
        /\ work'[h] # Idle /\ work'[h].pc = pc /\ work'[h].user = u
        /\ work'[h].kind = "invite" /\ raced' = raced /\ lost' = lost
    BY <1>1, <2>1, <2>2, GotoWork
  <2>4. Debt(h)' = 0
    BY <2>3 DEF Debt, Busy
  <2> QED
    BY <1>1, <2>2, <2>3, <2>4, QuietBalanced
<1>3. CASE ChangeFind(h)
  <2>1. PICK pc \in {"found", "clear"} : Goto(h, pc)
    BY <1>3 DEF ChangeFind
  <2>2. work[h] # Idle /\ work[h].kind \in Changes /\ Debt(h) = 0
    BY <1>3 DEF ChangeFind, Busy, Idle, Debt, Changes
  <2>3. /\ \A g \in Handlers \ {h} : work'[g] = work[g]
        /\ work'[h] # Idle /\ work'[h].pc = pc /\ work'[h].user = u
        /\ raced' = raced /\ lost' = lost
    BY <1>1, <2>1, <2>2, GotoWork
  <2>4. Debt(h)' = 0
    BY <2>3 DEF Debt, Busy
  <2> QED
    BY <1>1, <2>2, <2>3, <2>4, QuietBalanced
<1>4. CASE ChangeCheck(h)
  <2> DEFINE job == [work[h] EXCEPT !.pc = "checked"]
  <2>1. work[h] # Idle /\ work[h].kind \in Changes /\ Debt(h) = 0
    BY <1>4 DEF ChangeCheck, Busy, Idle, Debt, Changes
  <2>2. job.pc = "checked" /\ job.user = u
    BY <1>1, <2>1, WorkType DEF Changing
  <2>3. /\ work'[h] = job /\ \A g \in Handlers \ {h} : work'[g] = work[g]
        /\ raced' = raced /\ lost' = lost
    BY <1>1, <1>4 DEF ChangeCheck, TypeOK
  <2> HIDE DEF job
  <2>4. Debt(h)' = 0
    BY <2>2, <2>3 DEF Debt, Busy
  <2> QED
    BY <1>1, <2>1, <2>2, <2>3, <2>4, QuietBalanced
<1> QED
  BY <1>2, <1>3, <1>4

\* A request that only looks first owes nothing yet.
LEMMA BeginsBalanced ==
  ASSUME IInv, NEW h \in Handlers, NEW u \in Users,
         NEW job \in Work, job.user = u, Begin(h, job), UNCHANGED <<rows, charged>>,
         job.kind # "invite", job.pc # "freed"
  PROVE  Balanced(h, u)
<1>1. /\ work[h] = Idle /\ work'[h] # Idle /\ work'[h] = job
      /\ \A g \in Handlers \ {h} : work'[g] = work[g]
      /\ raced \subseteq raced' /\ lost' = lost
  BY BeginWork DEF IInv
<1>2. Debt(h) = 0 /\ Debt(h)' = 0
  BY <1>1 DEF Debt, Busy, Idle
<1> QED
  BY <1>1, <1>2, QuietBalanced

\* The handler of a user that nobody has raced knows what the user is charged.
LEMMA Charged ==
  ASSUME IInv, raced = {}, NEW h \in Handlers, NEW u \in Users, On(h, u)
  PROVE  /\ HandlerFits(h) /\ UserFits(u) /\ charged[u] >= Seats(u) + Debt(h)
         /\ \A v \in Users : charged[v] >= 0
<1>1. HandlerFits(h) /\ UserFits(u) /\ charged[u] >= Seats(u) + Debt(h)
  BY DEF IInv, HandlersFit, HandlerFits, UsersFit, On
<1>2. \A v \in Users : charged[v] >= 0
  <2> SUFFICES ASSUME NEW v \in Users PROVE charged[v] >= 0
    OBVIOUS
  <2>1. charged[v] >= Seats(v) /\ charged[v] \in Int
    BY DEF IInv, UsersFit, UserFits, TypeOK
  <2>2. Seats(v) \in Nat
    BY SeatsNat
  <2> QED
    BY <2>1, <2>2
<1> QED
  BY <1>1, <1>2

\* A seat that a handler owes is given back: the counter is not at zero.
LEMMA ReleaseExact ==
  ASSUME IInv, raced = {}, NEW h \in Handlers, NEW u \in Users, On(h, u),
         Debt(h) >= 1, Release(u)
  PROVE  charged'[u] = charged[u] - 1
<1>1. charged \in [Users -> Int] /\ Seats(u) \in Nat /\ Debt(h) \in Nat
  BY SeatsNat, DebtNat DEF IInv, TypeOK
<1>2. charged[u] >= 1 /\ \A v \in Users : charged[v] >= 0
  BY <1>1, Charged
<1>3. MemberCount > 0
  BY <1>1, <1>2, SomeoneCounts
<1> QED
  BY <1>1, <1>3 DEF Release

\* Giving back the seat of an expired invitation.
LEMMA GiveBackExpiredBalanced ==
  ASSUME IInv, NEW h \in Handlers, NEW u \in Users, u = work[h].user, InviteGiveBack(h)
  PROVE  Balanced(h, u)
<1>1. /\ work[h].kind = "invite" /\ work[h].pc = "begun" /\ work[h].owed > 0
      /\ work[h] # Idle /\ Debt(h) = work[h].owed
  BY DEF InviteGiveBack, Busy, Idle, Debt
<1>2. TypeOK /\ UNCHANGED rows /\ raced' = raced /\ lost' = lost /\ Release(u)
  BY DEF IInv, InviteGiveBack, history
<1>3. /\ work'[h].user = u /\ work'[h].kind = "invite" /\ work'[h].pc = "begun"
      /\ work'[h].owed = work[h].owed - 1 /\ work[h].owed \in Nat
      /\ \A g \in Handlers \ {h} : work'[g] = work[g]
  <2>1. work[h] \in Inviting
    BY <1>1, <1>2, WorkType
  <2> QED
    BY <1>1, <1>2, <2>1 DEF InviteGiveBack, TypeOK, Inviting
<1>4. Debt(h)' = work[h].owed - 1
  BY <1>3 DEF Debt, Busy
<1>5. raced = {} => charged'[u] = charged[u] - 1
  BY <1>1, <1>2, <1>3, ReleaseExact DEF On
<1>6. \A v \in Users \ {u} : charged'[v] = charged[v] /\ Seats(v)' = Seats(v)
  BY <1>2, Released, RowsKept
<1>7. Seats(u)' = Seats(u) /\ Seats(u) \in Nat /\ charged[u] \in Int
  BY <1>2, RowsKept, SeatsNat DEF TypeOK
<1>8. raced = {} => charged'[u] + Seats(u) + Debt(h) = charged[u] + Seats(u)' + Debt(h)'
  BY <1>1, <1>3, <1>4, <1>5, <1>7
<1> QED
  BY <1>1, <1>2, <1>3, <1>6, <1>8 DEF Balanced

\* The seat an invite takes is one that it owes.
LEMMA ReserveBalanced ==
  ASSUME IInv, NEW h \in Handlers, NEW u \in Users, u = work[h].user, InviteReserve(h)
  PROVE  Balanced(h, u)
<1>1. work[h].kind = "invite" /\ work[h].pc = "stranger" /\ work[h] # Idle /\ Debt(h) = 0
  BY DEF InviteReserve, Busy, Idle, Debt
<1>2. /\ TypeOK /\ Apart /\ Goto(h, "reserved") /\ UNCHANGED rows
      /\ charged' = [charged EXCEPT ![u] = @ + 1]
  BY DEF IInv, InviteReserve
<1>3. /\ \A g \in Handlers \ {h} : work'[g] = work[g]
      /\ raced' = raced /\ lost' = lost
      /\ work'[h].kind = "invite" /\ work'[h].pc = "reserved" /\ work'[h].user = u
  BY <1>1, <1>2, GotoWork
<1>4. Debt(h)' = 1
  BY <1>3 DEF Debt, Busy
<1>5. /\ charged'[u] = charged[u] + 1 /\ charged[u] \in Int
      /\ \A v \in Users \ {u} : charged'[v] = charged[v]
  BY <1>2 DEF TypeOK
<1>6. Seats(u) \in Nat /\ \A v \in Users : Seats(v)' = Seats(v)
  BY <1>2, RowsKept, SeatsNat
<1>7. charged'[u] + Seats(u) + Debt(h) = charged[u] + Seats(u)' + Debt(h)'
  BY <1>1, <1>4, <1>5, <1>6
<1> QED
  BY <1>1, <1>3, <1>5, <1>6, <1>7 DEF Balanced

\* What the new invitation takes is no longer owed.
LEMMA CreateBalanced ==
  ASSUME IInv, NEW h \in Handlers, NEW u \in Users, u = work[h].user,
         NEW i \in Invitations, InviteCreate(h, i)
  PROVE  Balanced(h, u)
<1> DEFINE new == [status |-> "PENDING", user |-> u, role |-> work[h].role]
<1>1. work[h].kind = "invite" /\ work[h].pc = "reserved" /\ work[h] # Idle /\ Debt(h) = 1
  BY DEF InviteCreate, Busy, Idle, Debt
<1>2. /\ TypeOK /\ Apart /\ Finish(h) /\ UNCHANGED <<member, role, charged>>
      /\ invitation[i] = NoInvitation /\ invitation' = [invitation EXCEPT ![i] = new]
  BY DEF IInv, InviteCreate
<1>3. /\ \A g \in Handlers \ {h} : work'[g] = work[g]
      /\ raced' = raced /\ lost' = lost /\ work'[h] = Idle /\ Debt(h)' = 0
  BY <1>1, <1>2, FinishWork DEF Debt, Busy, Idle
<1>4. invitation'[i] = new /\ \A j \in Invitations \ {i} : invitation'[j] = invitation[j]
  BY <1>2 DEF TypeOK
<1>5. ~Pending(i)
  BY <1>2 DEF Pending, NoInvitation
<1>6. \A v \in Users \ {u} : Waiting(v)' = Waiting(v)
  BY <1>4, <1>5 DEF Waiting, Pending
<1>7. \A v \in Users \ {u} : charged'[v] = charged[v] /\ Seats(v)' = Seats(v)
  BY <1>2, <1>6 DEF Seats
<1>8. ASSUME raced = {}
      PROVE  charged'[u] + Seats(u) + Debt(h) = charged[u] + Seats(u)' + Debt(h)'
  <2>1. Waiting(u) = {} /\ member[u] \notin Members
    BY <1>1, <1>8, Charged DEF On, HandlerFits, InviteFits
  <2>2. Waiting(u)' = {i}
    BY <1>4, <2>1 DEF Waiting, Pending
  <2>3. Cardinality(Waiting(u)) = 0 /\ Cardinality(Waiting(u)') = 1
    BY <2>1, <2>2, FS_EmptySet, FS_Singleton
  <2>4. Seats(u) = 0 /\ Seats(u)' = 1
    BY <1>2, <2>1, <2>3 DEF Seats
  <2> QED
    BY <1>1, <1>2, <1>3, <2>4 DEF TypeOK
<1> QED
  BY <1>1, <1>3, <1>7, <1>8 DEF Balanced

\* The last seat a handler owes.
LEMMA GiveBackBalanced ==
  ASSUME IInv, NEW h \in Handlers, NEW u \in Users, u = work[h].user, GiveBack(h)
  PROVE  Balanced(h, u)
<1>1. work[h] # Idle /\ Debt(h) = 1
  BY DEF GiveBack, Busy, Idle, Debt
<1>2. TypeOK /\ Apart /\ Finish(h) /\ UNCHANGED rows /\ Release(u)
  BY DEF IInv, GiveBack
<1>3. /\ \A g \in Handlers \ {h} : work'[g] = work[g]
      /\ raced' = raced /\ lost' = lost /\ work'[h] = Idle /\ Debt(h)' = 0
  BY <1>1, <1>2, FinishWork DEF Debt, Busy, Idle
<1>4. raced = {} => charged'[u] = charged[u] - 1
  BY <1>1, <1>2, ReleaseExact DEF On
<1>5. \A v \in Users \ {u} : charged'[v] = charged[v] /\ Seats(v)' = Seats(v)
  BY <1>2, Released, RowsKept
<1>6. Seats(u)' = Seats(u) /\ Seats(u) \in Nat /\ charged[u] \in Int
  BY <1>2, RowsKept, SeatsNat DEF TypeOK
<1>7. raced = {} => charged'[u] + Seats(u) + Debt(h) = charged[u] + Seats(u)' + Debt(h)'
  BY <1>1, <1>3, <1>4, <1>6
<1> QED
  BY <1>1, <1>3, <1>5, <1>7 DEF Balanced

\* A handler that dies owing a seat is remembered.
LEMMA DieBalanced ==
  ASSUME IInv, NEW h \in Handlers, NEW u \in Users, u = work[h].user, Die(h)
  PROVE  Balanced(h, u)
<1>1. /\ work[h] # Idle /\ TypeOK /\ Apart /\ UNCHANGED <<rows, charged>>
      /\ raced' = raced /\ work' = [work EXCEPT ![h] = Idle]
      /\ lost' = IF Owes(h) THEN lost \cup {u} ELSE lost
  BY DEF Die, IInv
<1>2. work'[h] = Idle /\ \A g \in Handlers \ {h} : work'[g] = work[g]
  BY <1>1, StepWork
<1>3. Debt(h)' = 0
  BY <1>2 DEF Debt, Busy, Idle
<1>4. ~Owes(h) => Debt(h) = 0
  <2>1. work[h].kind = "invite" => work[h].owed \in Nat
    BY <1>1, WorkType DEF Inviting
  <2> QED
    BY <2>1 DEF Owes, Debt, Busy
<1> QED
  BY <1>1, <1>2, <1>3, <1>4, QuietBalanced

\* An invite owes the seats of the invitations it finds expired.
LEMMA InviteBeginBalanced ==
  ASSUME IInv, NEW h \in Handlers, NEW u \in Users, NEW new \in Roles,
         InviteBegin(h, u, new)
  PROVE  Balanced(h, u)
<1>1. TypeOK /\ Apart /\ UNCHANGED <<member, role, charged>>
      /\ invitation' = [i \in Invitations |->
           IF i \in Expired(u) THEN [invitation[i] EXCEPT !.status = "EXPIRED"]
           ELSE invitation[i]]
  BY DEF InviteBegin, IInv
<1>2. /\ Waiting(u) \cap Expired(u) = Expired(u) /\ IsFiniteSet(Waiting(u))
      /\ Cardinality(Expired(u)) \in Nat /\ Cardinality(Waiting(u)) \in Nat
      /\ Cardinality(Waiting(u) \ Expired(u)) = Cardinality(Waiting(u)) - Cardinality(Expired(u))
  <2>1. Expired(u) \subseteq Waiting(u) /\ Waiting(u) \cap Expired(u) = Expired(u)
    BY DEF Expired
  <2>2. IsFiniteSet(Waiting(u)) /\ Cardinality(Waiting(u)) \in Nat
    BY SeatsNat
  <2>3. Cardinality(Expired(u)) \in Nat
    BY <2>1, <2>2, FS_Subset, FS_CardinalityType
  <2>4. Cardinality(Waiting(u) \ Expired(u))
          = Cardinality(Waiting(u)) - Cardinality(Waiting(u) \cap Expired(u))
    BY <2>2, FS_Difference
  <2> QED
    BY <2>1, <2>2, <2>3, <2>4
<1>3. PICK job : /\ Begin(h, job) /\ job \in Inviting /\ job.kind = "invite" /\ job.user = u
                 /\ job.pc = "begun" /\ job.owed = Cardinality(Expired(u))
  BY <1>2 DEF InviteBegin, Inviting
<1>4. /\ work[h] = Idle /\ work'[h] = job /\ work'[h] # Idle
      /\ \A g \in Handlers \ {h} : work'[g] = work[g]
      /\ raced \subseteq raced' /\ lost' = lost
  BY <1>1, <1>3, BeginWork DEF Work
<1>5. Debt(h) = 0 /\ Debt(h)' = Cardinality(Expired(u))
  BY <1>3, <1>4 DEF Debt, Busy, Idle
<1>6. ASSUME NEW i \in Invitations
      PROVE  /\ i \notin Expired(u) => invitation'[i] = invitation[i]
             /\ i \in Expired(u) => /\ invitation'[i].status = "EXPIRED"
                                    /\ invitation[i].user = u
  <2>1. i \notin Expired(u) => invitation'[i] = invitation[i]
    BY <1>1
  <2>2. ASSUME i \in Expired(u)
        PROVE  /\ invitation[i] \in Invitation /\ invitation[i].user = u
               /\ invitation'[i] = [invitation[i] EXCEPT !.status = "EXPIRED"]
    BY <1>1, <2>2, WrittenType DEF Expired, Waiting
  <2>3. ASSUME i \in Expired(u)
        PROVE  invitation'[i].status = "EXPIRED"
    BY <2>2, <2>3 DEF Invitation
  <2> QED
    BY <2>1, <2>2, <2>3
<1>7. Waiting(u)' = Waiting(u) \ Expired(u) /\ \A v \in Users \ {u} : Waiting(v)' = Waiting(v)
  BY <1>6 DEF Waiting, Expired, Pending
<1>8. \A v \in Users \ {u} : charged'[v] = charged[v] /\ Seats(v)' = Seats(v)
  BY <1>1, <1>7 DEF Seats
<1>9. Seats(u)' = Seats(u) - Cardinality(Expired(u)) /\ Seats(u) \in Nat
  BY <1>1, <1>2, <1>7, SeatsNat DEF Seats
<1>10. charged'[u] + Seats(u) + Debt(h) = charged[u] + Seats(u)' + Debt(h)'
  BY <1>1, <1>2, <1>5, <1>9 DEF TypeOK
<1> QED
  BY <1>3, <1>4, <1>8, <1>10 DEF Balanced

\* A cancel owes the seat of its invitation.
LEMMA CancelBalanced ==
  ASSUME IInv, NEW h \in Handlers, NEW i \in Invitations, NEW u \in Users,
         u = invitation[i].user, Cancel(h, i)
  PROVE  Balanced(h, u)
<1>1. /\ Pending(i) /\ invitation' = [invitation EXCEPT ![i].status = "CANCELED"]
      /\ UNCHANGED <<member, role, charged>> /\ TypeOK /\ Apart
  BY DEF Cancel, Cancelable, IInv
<1>2. invitation[i] \in Invitation /\ i \in Waiting(u)
  BY <1>1, WrittenType
<1> DEFINE job == [kind |-> "cancel", user |-> u, invitation |-> i, pc |-> "freed"]
<1>3. job \in Work /\ Begin(h, job)
  BY <1>1, <1>2 DEF Cancel, Work, Answering, Answers
<1>4. /\ work[h] = Idle /\ work'[h] = job /\ work'[h] # Idle
      /\ \A g \in Handlers \ {h} : work'[g] = work[g]
      /\ raced \subseteq raced' /\ lost' = lost
  BY <1>1, <1>3, BeginWork
<1>5. Debt(h) = 0 /\ Debt(h)' = 1
  BY <1>4 DEF Debt, Busy, Idle
<1>6. /\ invitation'[i].status = "CANCELED"
      /\ \A j \in Invitations \ {i} : invitation'[j] = invitation[j]
      /\ \A v \in Users \ {u} : Waiting(v)' = Waiting(v)
  <2>1. /\ invitation' \in [Invitations -> {NoInvitation} \cup Invitation]
        /\ invitation'[i] \in Invitation /\ invitation'[i].status = "CANCELED"
        /\ invitation'[i].user = u
        /\ \A j \in Invitations \ {i} : invitation'[j] = invitation[j]
        /\ \A j \in Invitations : invitation[j] \in Invitation =>
             invitation'[j] \in Invitation /\ invitation'[j].user = invitation[j].user
        /\ \A v \in Users \ {u} : Waiting(v)' = Waiting(v) /\ Expired(v)' = Expired(v)
    BY <1>1, <1>2, StatusKept
  <2> QED
    BY <2>1
<1>7. \A v \in Users \ {u} : charged'[v] = charged[v] /\ Seats(v)' = Seats(v)
  BY <1>1, <1>6 DEF Seats
<1>8. ASSUME raced' = {}
      PROVE  charged'[u] + Seats(u) + Debt(h) = charged[u] + Seats(u)' + Debt(h)'
  <2>1. UserFits(u)
    BY <1>4, <1>8 DEF IInv, UsersFit
  <2>2. Waiting(u) = {i} /\ member[u] \notin Members
    BY <1>2, <2>1 DEF UserFits, Waiting
  <2>3. Waiting(u)' = {}
    BY <1>6, <2>2 DEF Waiting, Pending
  <2>4. Cardinality(Waiting(u)) = 1 /\ Cardinality(Waiting(u)') = 0
    BY <2>2, <2>3, FS_EmptySet, FS_Singleton
  <2>5. Seats(u) = 1 /\ Seats(u)' = 0
    BY <1>1, <2>2, <2>4 DEF Seats
  <2> QED
    BY <1>1, <1>5, <2>5 DEF TypeOK
<1> QED
  BY <1>4, <1>7, <1>8 DEF Balanced

\* A resent invitation waits as before.
LEMMA ResendCommitBalanced ==
  ASSUME IInv, NEW h \in Handlers, NEW u \in Users, u = work[h].user, ResendCommit(h)
  PROVE  Balanced(h, u)
<1>1. /\ work[h].kind = "resend" /\ work[h].kind \in Answers /\ work[h] # Idle
      /\ Debt(h) = 0
  BY DEF ResendCommit, Busy, Idle, Answers, Debt
<1>2. TypeOK /\ Apart /\ Known /\ Finish(h) /\ UNCHANGED <<member, role, charged>>
  BY DEF IInv, ResendCommit
<1>3. PICK i \in Invitations : /\ i = work[h].invitation /\ invitation[i] \in Invitation
                               /\ invitation[i].user = u
  BY <1>1, <1>2, Answered
<1> DEFINE old == invitation[i].status
           new == IF old = "LAPSED" THEN "PENDING" ELSE old
<1>4. /\ new \in {"PENDING", "LAPSED", "ACCEPTED", "CANCELED", "EXPIRED"}
      /\ invitation' = [invitation EXCEPT ![i].status = new]
  BY <1>2, <1>3 DEF ResendCommit, Invitation, TypeOK
<1>5. old \in {"PENDING", "LAPSED"} <=> new \in {"PENDING", "LAPSED"}
  OBVIOUS
<1> HIDE DEF new
<1>6. /\ invitation'[i].status = new /\ invitation'[i].user = u
      /\ \A j \in Invitations \ {i} : invitation'[j] = invitation[j]
  BY <1>2, <1>3, <1>4, StatusKept
<1>7. \A v \in Users : charged'[v] = charged[v] /\ Seats(v)' = Seats(v)
  <2>1. \A v \in Users : Waiting(v)' = Waiting(v)
    BY <1>3, <1>5, <1>6 DEF Waiting, Pending
  <2> QED
    BY <1>2, <2>1 DEF Seats
<1>8. /\ \A g \in Handlers \ {h} : work'[g] = work[g]
      /\ raced' = raced /\ lost' = lost /\ work'[h] = Idle /\ Debt(h)' = 0
  BY <1>1, <1>2, FinishWork DEF Debt, Busy, Idle
<1> QED
  BY <1>1, <1>7, <1>8 DEF Balanced

\* The membership takes over the seat of the invitation.
LEMMA AcceptCommitBalanced ==
  ASSUME IInv, NEW h \in Handlers, NEW u \in Users, u = work[h].user, AcceptCommit(h)
  PROVE  Balanced(h, u)
<1>1. /\ work[h].kind = "accept" /\ work[h].kind \in Answers /\ work[h] # Idle
      /\ Debt(h) = 0
  BY DEF AcceptCommit, Busy, Idle, Answers, Debt
<1>2. TypeOK /\ Apart /\ Known /\ Finish(h) /\ charged' = charged
  BY DEF IInv, AcceptCommit
<1>3. PICK i \in Invitations : /\ i = work[h].invitation /\ invitation[i] \in Invitation
                               /\ invitation[i].user = u
  BY <1>1, <1>2, Answered
<1>4. /\ member' = [member EXCEPT ![u] = "ACTIVE"]
      /\ invitation' = [invitation EXCEPT ![i].status = "ACCEPTED"]
  <2>1. /\ member' = [member EXCEPT ![work[h].user] = Accepted]
        /\ invitation' = [invitation EXCEPT ![work[h].invitation].status = "ACCEPTED"]
    BY DEF AcceptCommit
  <2> QED
    BY <1>3, <2>1 DEF Accepted
<1>5. /\ invitation'[i].status = "ACCEPTED"
      /\ \A j \in Invitations \ {i} : invitation'[j] = invitation[j]
      /\ \A v \in Users \ {u} : Waiting(v)' = Waiting(v)
  <2>1. TypeOK /\ invitation' = [invitation EXCEPT ![i].status = "ACCEPTED"]
    BY <1>2, <1>4
  <2>2. /\ invitation'[i].status = "ACCEPTED"
        /\ \A j \in Invitations \ {i} : invitation'[j] = invitation[j]
        /\ \A v \in Users \ {invitation[i].user} : Waiting(v)' = Waiting(v)
    BY <1>3, <2>1, StatusKept
  <2> QED
    BY <1>3, <2>2
<1>6. /\ \A g \in Handlers \ {h} : work'[g] = work[g]
      /\ raced' = raced /\ lost' = lost /\ work'[h] = Idle /\ Debt(h)' = 0
  BY <1>1, <1>2, FinishWork DEF Debt, Busy, Idle
<1>7. member'[u] = "ACTIVE" /\ \A v \in Users \ {u} : member'[v] = member[v]
  BY <1>2, <1>4 DEF TypeOK
<1>8. \A v \in Users \ {u} : charged'[v] = charged[v] /\ Seats(v)' = Seats(v)
  BY <1>2, <1>5, <1>7 DEF Seats
<1>9. ASSUME raced = {}
      PROVE  Seats(u)' = Seats(u)
  <2>1. HandlerFits(h) /\ UserFits(u)
    BY <1>1, <1>9, Charged DEF On
  <2>2. i \in Waiting(u)
    BY <1>1, <1>3, <2>1 DEF HandlerFits
  <2>3. Waiting(u) = {i} /\ member[u] \notin Members
    BY <2>1, <2>2 DEF UserFits, Waiting
  <2>4. Waiting(u)' = {}
    BY <1>5, <2>3 DEF Waiting, Pending
  <2>5. Cardinality(Waiting(u)) = 1 /\ Cardinality(Waiting(u)') = 0
    BY <2>3, <2>4, FS_EmptySet, FS_Singleton
  <2> QED
    BY <1>7, <2>3, <2>5 DEF Seats, Members
<1> QED
  BY <1>1, <1>2, <1>6, <1>8, <1>9 DEF Balanced

\* A removal owes the seat of the membership; no other change moves a seat.
LEMMA ChangeCommitBalanced ==
  ASSUME IInv, NEW h \in Handlers, NEW u \in Users, u = work[h].user, ChangeCommit(h)
  PROVE  Balanced(h, u)
<1>1. /\ work[h].kind \in Changes /\ work[h].pc \in {"clear", "checked"} /\ work[h] # Idle
      /\ Debt(h) = 0
  BY DEF ChangeCommit, Busy, Idle, Changes, Debt
<1>2. TypeOK /\ Apart /\ invitation' = invitation /\ charged' = charged
  BY DEF IInv, ChangeCommit
<1>3. /\ \A g \in Handlers \ {h} : work'[g] = work[g]
      /\ raced' = raced /\ lost' = lost
      /\ work[h].kind # "remove" => work'[h] = Idle
      /\ work[h].kind = "remove" =>
           work'[h].kind = "remove" /\ work'[h].pc = "freed" /\ work'[h].user = u
  <2>1. CASE work[h].kind = "remove"
    <3>1. Goto(h, "freed")
      BY <2>1 DEF ChangeCommit
    <3> QED
      BY <1>1, <1>2, <2>1, <3>1, GotoWork
  <2>2. CASE work[h].kind # "remove"
    <3>1. Finish(h)
      BY <2>2 DEF ChangeCommit
    <3> QED
      BY <1>1, <1>2, <2>2, <3>1, FinishWork
  <2> QED
    BY <2>1, <2>2
<1>4. Debt(h)' = IF work[h].kind = "remove" THEN 1 ELSE 0
  BY <1>3 DEF Debt, Busy, Idle
<1>5. /\ \A v \in Users \ {u} : member'[v] = member[v]
      /\ work[h].kind = "role" => member'[u] = member[u]
      /\ work[h].kind = "suspend" => member'[u] = "SUSPENDED"
      /\ work[h].kind = "reactivate" => member'[u] = "ACTIVE"
      /\ work[h].kind = "remove" => member'[u] = "REMOVED"
  BY <1>2 DEF ChangeCommit, TypeOK
<1>6. \A v \in Users : Waiting(v)' = Waiting(v)
  BY <1>2 DEF Waiting, Pending
<1>7. \A v \in Users \ {u} : charged'[v] = charged[v] /\ Seats(v)' = Seats(v)
  BY <1>2, <1>5, <1>6 DEF Seats
<1>8. ASSUME raced = {}
      PROVE  charged'[u] + Seats(u) + Debt(h) = charged[u] + Seats(u)' + Debt(h)'
  <2>1. HandlerFits(h)
    BY <1>1, <1>8, Charged DEF On
  <2>2. member[u] \in Members
    BY <1>1, <2>1 DEF HandlerFits, ChangeFits
  <2>3. Cardinality(Waiting(u)) \in Nat /\ Seats(u) = Cardinality(Waiting(u)) + 1
    BY <2>2, SeatsNat DEF Seats
  <2>4. Seats(u)' = IF work[h].kind = "remove" THEN Seats(u) - 1 ELSE Seats(u)
    BY <1>1, <1>5, <1>6, <2>2, <2>3 DEF Seats, Members, Changes
  <2> QED
    BY <1>1, <1>2, <1>4, <2>3, <2>4 DEF TypeOK
<1> QED
  BY <1>1, <1>3, <1>7, <1>8 DEF Balanced

\* An invitation that expires keeps its seat.
LEMMA LapseExact ==
  ASSUME IInv, ExactFits, NEW i \in Invitations, Lapse(i)
  PROVE  ExactFits'
<1>1. /\ Pending(i) /\ invitation' = [invitation EXCEPT ![i].status = "LAPSED"]
      /\ member' = member /\ charged' = charged /\ work' = work /\ lost' = lost
      /\ raced \subseteq raced' /\ TypeOK
  BY DEF Lapse, IInv, history
<1>2. PICK u \in Users : u = invitation[i].user /\ invitation[i] \in Invitation
  BY <1>1, WrittenType
<1>3. /\ invitation'[i].status = "LAPSED" /\ invitation'[i].user = u
      /\ \A j \in Invitations \ {i} : invitation'[j] = invitation[j]
  BY <1>1, <1>2, StatusKept
<1>4. \A v \in Users : Waiting(v)' = Waiting(v)
  BY <1>1, <1>2, <1>3 DEF Waiting, Pending
<1>5. \A v \in Users : Seats(v)' = Seats(v)
  BY <1>1, <1>4 DEF Seats
<1> QED
  BY <1>1, <1>5 DEF ExactFits, On, Debt, Busy

\* The founder is charged for a seat, and nobody else is.
LEMMA InitExact == Init => ExactFits
<1> SUFFICES ASSUME Init, NEW u \in Users PROVE charged[u] = Seats(u)
  BY DEF Init, ExactFits, On
<1>1. Waiting(u) = {}
  BY DEF Init, Waiting, Pending, NoInvitation
<1>2. Cardinality(Waiting(u)) = 0
  BY <1>1, FS_EmptySet
<1> QED
  BY <1>2 DEF Init, Seats, Members

\* No step of the organization leaves the charges inexact.
LEMMA ExactStep == IInv /\ IInv' /\ ExactFits /\ [Next]_vars => ExactFits'
<1> SUFFICES ASSUME IInv, IInv', ExactFits, [Next]_vars PROVE ExactFits'
  OBVIOUS
<1>1. CASE UNCHANGED vars
  <2>1. /\ UNCHANGED rows /\ charged' = charged /\ work' = work /\ raced' = raced
        /\ lost' = lost
    BY <1>1 DEF vars, history
  <2> QED
    BY <2>1, RowsKept DEF ExactFits, On, Debt, Busy
<1>2. CASE \E i \in Invitations : Lapse(i)
  BY <1>2, LapseExact
<1>3. ASSUME NEW h \in Handlers, Step(h) PROVE ExactFits'
  <2>1. work[h] # Idle
    BY <1>3, BusyIsWork DEF Step, InviteGiveBack, InviteLook, InviteStranger, InviteReserve,
         InviteCreate, GiveBack, ResendCommit, AcceptCommit, ChangeFind, ChangeCheck,
         ChangeCommit, Die, Busy, Changes, Answers
  <2>2. PICK u \in Users : u = work[h].user
    BY <2>1, WorkType DEF IInv
  <2>3. Balanced(h, u)
    BY <1>3, <2>2, GiveBackExpiredBalanced, LooksBalanced, ReserveBalanced, CreateBalanced,
       GiveBackBalanced, ResendCommitBalanced, AcceptCommitBalanced, ChangeCommitBalanced,
       DieBalanced
       DEF Step
  <2> QED
    BY <2>3, BalancedKeeps
<1>4. ASSUME NEW h \in Handlers, Start(h) PROVE ExactFits'
  <2>1. ASSUME NEW u \in Users, NEW new \in Roles, InviteBegin(h, u, new) PROVE ExactFits'
    BY <2>1, InviteBeginBalanced, BalancedKeeps
  <2>2. ASSUME NEW u \in Users, NEW new \in Roles, NEW change \in Changes,
               ChangeBegin(h, u, change, new)
        PROVE  ExactFits'
    <3>1. PICK by \in {"OWNER", "ADMIN"} :
            Begin(h, [kind |-> change, user |-> u, role |-> new, by |-> by, pc |-> "begun"])
      BY <2>2 DEF ChangeBegin
    <3> DEFINE job == [kind |-> change, user |-> u, role |-> new, by |-> by, pc |-> "begun"]
    <3>2. job \in Work /\ job.user = u /\ job.kind # "invite" /\ job.pc # "freed"
      BY DEF Work, Changing, Changes
    <3>3. Balanced(h, u)
      BY <2>2, <3>1, <3>2, BeginsBalanced DEF ChangeBegin
    <3> QED
      BY <3>3, BalancedKeeps
  <2>3. ASSUME NEW i \in Invitations, Cancel(h, i) \/ ResendBegin(h, i) \/ AcceptBegin(h, i)
        PROVE  ExactFits'
    <3>1. Pending(i)
      BY <2>3 DEF Cancel, Cancelable, ResendBegin, AcceptBegin, Pending
    <3>2. PICK u \in Users : u = invitation[i].user
      BY <3>1, WrittenType DEF IInv
    <3>3. CASE Cancel(h, i)
      BY <3>2, <3>3, CancelBalanced, BalancedKeeps
    <3>4. ASSUME ResendBegin(h, i) \/ AcceptBegin(h, i)
          PROVE  Balanced(h, u)
      <4>1. PICK kind \in {"resend", "accept"} :
              Begin(h, [kind |-> kind, user |-> u, invitation |-> i, pc |-> "found"])
        BY <3>2, <3>4 DEF ResendBegin, AcceptBegin
      <4> DEFINE job == [kind |-> kind, user |-> u, invitation |-> i, pc |-> "found"]
      <4>2. job \in Work /\ job.user = u /\ job.kind # "invite" /\ job.pc # "freed"
        BY DEF Work, Answering, Answers
      <4> QED
        BY <3>4, <4>1, <4>2, BeginsBalanced DEF ResendBegin, AcceptBegin
    <3> QED
      BY <2>3, <3>3, <3>4, BalancedKeeps
  <2> QED
    BY <1>4, <2>1, <2>2, <2>3 DEF Start
<1> QED
  BY <1>1, <1>2, <1>3, <1>4 DEF Next

\* Once nobody is at work on a user, the plan is charged for exactly the seats the
\* user takes, as long as no two handlers have overlapped and none has died owing
\* a seat of that user's: nothing leaks.
THEOREM SeatsAreExact == Spec => []SeatsExact
<1>1. ExactFits => SeatsExact
  BY DEF ExactFits, SeatsExact, On
<1> QED
  BY <1>1, InitIInv, IInvStep, InitExact, ExactStep, PTL DEF Spec
==============================================================================
