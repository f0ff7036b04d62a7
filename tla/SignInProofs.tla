---------------------------- MODULE SignInProofs ----------------------------
(***************************************************************************)
(* Proofs about SignIn, for any transactions, requests in progress, and    *)
(* bounds.                                                                 *)
(***************************************************************************)
EXTENDS SignIn, TLAPS

\* The steps of each of the ways through the service.
StepsOf(flow) ==
  CASE flow = "login" -> {"status", "verify", "accept", "issue", "issue verified"}
    [] flow = "callback" -> {"consume", "find", "match", "link", "status", "ticket",
                             "onboard", "pending", "create", "issue"}
    [] flow = "ticket" -> {"verify", "accept", "consume ticket", "issue verified"}
    [] flow = "enroll" -> {"enroll", "confirm"}
    [] flow = "disable" -> {"verify", "accept", "remove"}
    [] OTHER -> {"idle"}
Flows == {"none", "login", "callback", "ticket", "enroll", "disable"}
OfProvider == {"callback", "ticket"}
Places == UNION {StepsOf(f) : f \in Flows}
Fields == [pc : Places, flow : Flows, t : Transactions \cup {"none"},
           had : Secrets, secret : Secrets, step : 0 .. MaxStep]
Jobs == {j \in Fields : /\ j.pc \in StepsOf(j.flow)
                        /\ j.flow \in OfProvider => j.t \in Transactions
                        /\ j.flow \notin OfProvider => j.t = "none"}

Transaction == [status : {"NONE", "OPEN", "USED", "DELETED"},
                purpose : {"NONE", "MFA", "ONBOARDING"},
                completed : BOOLEAN, expired : BOOLEAN]
Credential == [secret : Secrets, enabled : BOOLEAN, last : 0 .. MaxStep]

SignInTypes ==
  /\ account \in Accounts /\ linked \in BOOLEAN
  /\ transactions \in [Transactions -> Transaction]
  /\ mfa \in Credential /\ recovery \in [of : Secrets, used : BOOLEAN]
  /\ now \in Steps
  /\ work \in [Handlers -> Jobs]
  /\ secrets \in Secrets /\ confirmed \in Secrets
  /\ uses \in [Codes -> 0 .. 2]
  /\ opened \in [Transactions -> 0 .. 2]
  /\ missed \in BOOLEAN /\ raced \in BOOLEAN
-----------------------------------------------------------------------------
(* Handlers in progress *)

\* The bounds as numbers.
LEMMA Bounds ==
  /\ 0 \in Secrets /\ 0 \in 0 .. MaxStep /\ 1 \in Steps
  /\ \A s \in Secrets : s \in Nat
  /\ \A s \in Steps : s \in 0 .. MaxStep /\ s # 0
  /\ \A s \in Window : s \in Steps
  BY MaxStepAssumption, MaxSecretsAssumption DEF Secrets, Steps, Window

\* Idle is a job.
LEMMA IdleIs ==
  /\ Idle \in Jobs /\ Idle.pc = "idle" /\ Idle.flow = "none" /\ Idle.had = 0
<1>1. Idle \in Fields
  <2>1. PICK p, n, z : p = "idle" /\ n = "none" /\ z = 0
    OBVIOUS
  <2>2. p \in Places /\ n \in Flows /\ n \in Transactions \cup {"none"}
        /\ z \in Secrets /\ z \in 0 .. MaxStep
    BY <2>1, Bounds DEF Flows, Places, StepsOf
  <2>3. Idle = [pc |-> p, flow |-> n, t |-> n, had |-> z, secret |-> z, step |-> z]
    BY <2>1 DEF Idle
  <2> QED
    BY <2>2, <2>3 DEF Fields
<1>2. "idle" \in StepsOf("none")
  BY DEF StepsOf
<1> QED
  BY <1>1, <1>2 DEF Idle, Jobs, OfProvider

\* What a job is about, by its step.
LEMMA JobIs ==
  ASSUME NEW j \in Jobs
  PROVE  /\ j.pc \in {"find", "match", "link", "ticket", "onboard", "pending", "create", "consume"}
              => j.flow = "callback"
         /\ j.pc \in {"verify", "accept"} => j.flow \in {"login", "ticket", "disable"}
         /\ j.pc \in {"status", "issue"} => j.flow \in {"login", "callback"}
         /\ j.pc = "issue verified" => j.flow \in {"login", "ticket"}
         /\ j.pc = "consume ticket" => j.flow = "ticket"
         /\ j.pc = "remove" => j.flow = "disable"
         /\ j.pc \in {"enroll", "confirm"} => j.flow = "enroll"
  BY DEF Jobs, Fields, Flows, StepsOf

\* A handler gets another job, and no other does.
Takes(h, j) == /\ work' \in [Handlers -> Jobs]
               /\ \A g \in Handlers : work'[g] = IF g = h THEN j ELSE work[g]

\* A handler takes a job.
LEMMA HandTakes ==
  ASSUME SignInTypes, NEW h \in Handlers, NEW j \in Jobs, work' = [work EXCEPT ![h] = j]
  PROVE  Takes(h, j)
  BY DEF SignInTypes, Takes

\* A handler finishes.
LEMMA HandFinishes ==
  ASSUME SignInTypes, NEW h \in Handlers, Finish(h)
  PROVE  Takes(h, Idle)
  BY IdleIs, HandTakes DEF Finish

\* A handler goes on with the same.
Goes(h, p) == \E j \in Jobs :
  /\ Takes(h, j)
  /\ j.pc = p /\ j.flow = work[h].flow /\ j.t = work[h].t
  /\ j.had = work[h].had /\ j.secret = work[h].secret /\ j.step = work[h].step

\* What Goto does to a job of the right type.
LEMMA HandGoes ==
  ASSUME SignInTypes, NEW h \in Handlers, NEW p \in StepsOf(work[h].flow), Goto(h, p)
  PROVE  Goes(h, p)
<1> DEFINE j == [work[h] EXCEPT !.pc = p]
<1>1. work[h] \in Jobs
  BY DEF SignInTypes
<1>2. j \in Jobs /\ j.pc = p /\ j.flow = work[h].flow /\ j.t = work[h].t
      /\ j.had = work[h].had /\ j.secret = work[h].secret /\ j.step = work[h].step
  BY <1>1 DEF Jobs, Fields, Places
<1>3. work' = [work EXCEPT ![h] = j]
  BY DEF SignInTypes, Goto
<1> HIDE DEF j
<1>4. Takes(h, j)
  BY <1>2, <1>3, HandTakes
<1> QED
  BY <1>2, <1>4 DEF Goes

\* A record with four fields of its own.
With(r, p, f, t, u) == [r EXCEPT !.pc = p, !.flow = f, !.t = t, !.had = u]

\* Such a record written out.
LEMMA RecordUpdated ==
  ASSUME NEW a, NEW n, NEW z, NEW p, NEW f, NEW t, NEW u,
         NEW r, r = [pc |-> a, flow |-> n, t |-> n, had |-> z, secret |-> z, step |-> z]
  PROVE  With(r, p, f, t, u)
          = [pc |-> p, flow |-> f, t |-> t, had |-> u, secret |-> z, step |-> z]
<1> DEFINE r1 == [r EXCEPT !.pc = p]
           r2 == [r1 EXCEPT !.flow = f]
           r3 == [r2 EXCEPT !.t = t]
           r4 == [r3 EXCEPT !.had = u]
<1>1. r1 = [pc |-> p, flow |-> n, t |-> n, had |-> z, secret |-> z, step |-> z]
  OBVIOUS
<1>2. r2 = [pc |-> p, flow |-> f, t |-> n, had |-> z, secret |-> z, step |-> z]
  <2> HIDE DEF r1
  <2> QED
    BY <1>1
<1>3. r3 = [pc |-> p, flow |-> f, t |-> t, had |-> z, secret |-> z, step |-> z]
  <2> HIDE DEF r2
  <2> QED
    BY <1>2
<1>4. r4 = [pc |-> p, flow |-> f, t |-> t, had |-> u, secret |-> z, step |-> z]
  <2> HIDE DEF r3
  <2> QED
    BY <1>3
<1> QED
  BY <1>4 DEF With

\* A handler begins.
Begins(h, p, f, t) == \E j \in Jobs :
  /\ Takes(h, j)
  /\ j.pc = p /\ j.flow = f /\ j.t = t /\ j.had = InUse

\* What Begin does.
LEMMA HandBegins ==
  ASSUME SignInTypes, NEW h \in Handlers, NEW f \in Flows, NEW p \in StepsOf(f),
         NEW t, IF f \in OfProvider THEN t \in Transactions ELSE t = "none",
         Begin(h, p, f, t)
  PROVE  Begins(h, p, f, t)
<1>1. PICK u : u = InUse
  OBVIOUS
<1> DEFINE j == With(Idle, p, f, t, u)
<1>2. u \in Secrets
  BY <1>1, Bounds DEF InUse, SignInTypes, Credential
<1>3. j = [pc |-> p, flow |-> f, t |-> t, had |-> u, secret |-> 0, step |-> 0]
  <2>1. PICK a, n, z : a = "idle" /\ n = "none" /\ z = 0
    OBVIOUS
  <2>2. Idle = [pc |-> a, flow |-> n, t |-> n, had |-> z, secret |-> z, step |-> z]
    BY <2>1 DEF Idle
  <2> QED
    BY <2>1, <2>2, RecordUpdated
<1>4. j \in Jobs /\ j.pc = p /\ j.flow = f /\ j.t = t /\ j.had = u
  BY <1>2, <1>3, Bounds DEF Jobs, Fields, Places
<1>5. work' = [work EXCEPT ![h] = j]
  BY <1>1 DEF Begin, With
<1> HIDE DEF j
<1> QED
  BY <1>1, <1>4, <1>5, HandTakes DEF Begins

\* The code in hand, of a factor in use.
LEMMA VerifyTakes ==
  ASSUME SignInTypes, NEW h \in Handlers, VerifyRead(h)
  PROVE  /\ InUse # 0
         /\ \E j \in Jobs :
              /\ Takes(h, j)
              /\ j.pc = "accept" /\ j.flow = work[h].flow /\ j.t = work[h].t
              /\ j.had = work[h].had
              /\ j.secret = IF j.step = 0 THEN recovery.of ELSE mfa.secret
<1>1. PICK s \in Window \cup (IF recovery.used THEN {} ELSE {0}) :
        work' = [work EXCEPT ![h].pc = "accept", ![h].step = s,
                             ![h].secret = IF s = 0 THEN recovery.of ELSE mfa.secret]
  BY DEF VerifyRead
<1>2. PICK c : c = IF s = 0 THEN recovery.of ELSE mfa.secret
  OBVIOUS
<1>3. c \in Secrets /\ s \in 0 .. MaxStep
  BY <1>2, Bounds DEF SignInTypes, Credential
<1>4. work[h] \in Jobs /\ work[h].flow \in {"login", "ticket", "disable"}
  BY JobIs DEF SignInTypes, VerifyRead, At
<1> DEFINE m == [work[h] EXCEPT !.pc = "accept"]
           n == [m EXCEPT !.step = s]
           j == [n EXCEPT !.secret = c]
<1>5. m \in Jobs /\ m.pc = "accept" /\ m.flow = work[h].flow /\ m.t = work[h].t
      /\ m.had = work[h].had
  <2>1. PICK p : p = "accept"
    OBVIOUS
  <2>2. p \in StepsOf(work[h].flow)
    BY <1>4, <2>1 DEF StepsOf
  <2>3. [work[h] EXCEPT !.pc = p] \in Jobs
    BY <1>4, <2>2 DEF Jobs, Fields, Places
  <2> QED
    BY <1>4, <2>1, <2>3 DEF Jobs, Fields
<1>6. work' = [work EXCEPT ![h] = j]
  BY <1>1, <1>2 DEF SignInTypes
<1> HIDE DEF m
<1>7. n \in Jobs /\ n.pc = "accept" /\ n.flow = work[h].flow /\ n.t = work[h].t
      /\ n.had = work[h].had /\ n.step = s
  BY <1>3, <1>5 DEF Jobs, Fields
<1> HIDE DEF n
<1>8. j \in Jobs /\ j.pc = "accept" /\ j.flow = work[h].flow /\ j.t = work[h].t
      /\ j.had = work[h].had /\ j.step = s /\ j.secret = c
  BY <1>3, <1>7 DEF Jobs, Fields
<1> HIDE DEF j
<1>9. Takes(h, j)
  BY <1>6, <1>8, HandTakes
<1> QED
  BY <1>2, <1>8, <1>9 DEF VerifyRead

\* The first code of a new secret.
LEMMA ConfirmTakes ==
  ASSUME SignInTypes, NEW h \in Handlers, ConfirmRead(h)
  PROVE  /\ mfa.secret # 0 /\ ~mfa.enabled
         /\ \E j \in Jobs :
              /\ Takes(h, j)
              /\ j.pc = "confirm" /\ j.flow = "enroll" /\ j.t = "none" /\ j.had = 0
              /\ j.secret = mfa.secret /\ j.step # 0
<1>1. PICK s \in Window : work' = [work EXCEPT ![h] =
        [Idle EXCEPT !.pc = "confirm", !.flow = "enroll", !.secret = mfa.secret, !.step = s]]
  BY DEF ConfirmRead
<1>2. PICK c : c = mfa.secret
  OBVIOUS
<1>3. c \in Secrets /\ s \in 0 .. MaxStep /\ s # 0
  BY <1>2, Bounds DEF SignInTypes, Credential
<1> DEFINE i == [Idle EXCEPT !.pc = "confirm"]
           m == [i EXCEPT !.flow = "enroll"]
           n == [m EXCEPT !.secret = c]
           j == [n EXCEPT !.step = s]
<1>4. Idle \in Jobs /\ Idle.had = 0 /\ Idle.t = "none"
  BY IdleIs DEF Idle
<1>5. work' = [work EXCEPT ![h] = j]
  BY <1>1, <1>2
<1>6. m \in Jobs /\ m.pc = "confirm" /\ m.flow = "enroll" /\ m.t = "none" /\ m.had = 0
  <2>1. i \in [pc : Places, flow : Flows, t : Transactions \cup {"none"},
               had : Secrets, secret : Secrets, step : 0 .. MaxStep]
        /\ i.pc = "confirm" /\ i.t = "none" /\ i.had = 0
    <3>1. PICK p : p = "confirm"
      OBVIOUS
    <3>2. p \in Places
      BY <3>1 DEF Places, Flows, StepsOf
    <3>3. Idle \in Fields
      BY <1>4 DEF Jobs
    <3>4. i = [Idle EXCEPT !.pc = p]
      BY <3>1
    <3> HIDE DEF i
    <3> QED
      BY <1>4, <3>1, <3>2, <3>3, <3>4 DEF Fields
  <2> HIDE DEF i
  <2>2. "enroll" \in Flows /\ "confirm" \in StepsOf("enroll") /\ "enroll" \notin OfProvider
    BY DEF Flows, StepsOf, OfProvider
  <2>3. m \in Fields /\ m.pc = "confirm" /\ m.flow = "enroll" /\ m.t = "none" /\ m.had = 0
    BY <2>1, <2>2 DEF Fields
  <2> HIDE DEF m
  <2> QED
    BY <2>2, <2>3 DEF Jobs
<1> HIDE DEF m
<1>7. n \in Jobs /\ n.pc = "confirm" /\ n.flow = "enroll" /\ n.t = "none" /\ n.had = 0
      /\ n.secret = c
  BY <1>3, <1>6 DEF Jobs, Fields
<1> HIDE DEF n
<1>8. j \in Jobs /\ j.pc = "confirm" /\ j.flow = "enroll" /\ j.t = "none" /\ j.had = 0
      /\ j.secret = c /\ j.step = s
  BY <1>3, <1>7 DEF Jobs, Fields
<1> HIDE DEF j
<1>9. Takes(h, j)
  BY <1>5, <1>8, HandTakes
<1> QED
  BY <1>2, <1>3, <1>8, <1>9 DEF ConfirmRead

\* What each step makes of the handler that takes it: it begins, ...
LEMMA HandsBegin ==
  ASSUME SignInTypes, NEW h \in Handlers
  PROVE  /\ Login(h) => Begins(h, "status", "login", "none")
         /\ EnrollRead(h) => Begins(h, "enroll", "enroll", "none")
         /\ DisableRead(h) => Begins(h, "verify", "disable", "none")
         /\ \A t \in Transactions :
              /\ CallbackRead(h, t) => Begins(h, "consume", "callback", t)
              /\ TicketRead(h, t) => Begins(h, "verify", "ticket", t)
<1>1. /\ \A f \in {"login", "enroll", "disable"} : f \in Flows /\ f \notin OfProvider
      /\ \A f \in {"callback", "ticket"} : f \in Flows /\ f \in OfProvider
      /\ "status" \in StepsOf("login") /\ "enroll" \in StepsOf("enroll")
      /\ "verify" \in StepsOf("disable") /\ "consume" \in StepsOf("callback")
      /\ "verify" \in StepsOf("ticket")
  BY DEF Flows, OfProvider, StepsOf
<1>2. Login(h) => Begins(h, "status", "login", "none")
  BY <1>1, HandBegins DEF Login
<1>3. EnrollRead(h) => Begins(h, "enroll", "enroll", "none")
  BY <1>1, HandBegins DEF EnrollRead
<1>4. DisableRead(h) => Begins(h, "verify", "disable", "none")
  BY <1>1, HandBegins DEF DisableRead
<1>5. ASSUME NEW t \in Transactions
      PROVE  /\ CallbackRead(h, t) => Begins(h, "consume", "callback", t)
             /\ TicketRead(h, t) => Begins(h, "verify", "ticket", t)
  BY <1>1, HandBegins DEF CallbackRead, TicketRead
<1> QED
  BY <1>2, <1>3, <1>4, <1>5

\* ... or ends, ...
Ends(h) == Die(h) \/ Issue(h) \/ MfaTicket(h) \/ EnrollWrite(h) \/ ConfirmWrite(h) \/ Disable(h)

\* A handler that ends is idle.
LEMMA HandsEnd ==
  ASSUME SignInTypes, NEW h \in Handlers, Ends(h)
  PROVE  Takes(h, Idle)
  BY HandFinishes DEF Ends, Die, Issue, MfaTicket, EnrollWrite, ConfirmWrite, Disable

\* ... or goes on.
LEMMA HandsGo ==
  ASSUME SignInTypes, NEW h \in Handlers
  PROVE  /\ MfaStatus(h) => IF InUse = 0 THEN Goes(h, "issue")
                            ELSE Goes(h, IF work[h].flow = "login" THEN "verify" ELSE "ticket")
         /\ Consume(h) => Goes(h, "find")
         /\ FindIdentity(h) => Goes(h, IF linked THEN "status" ELSE "match")
         /\ MatchUser(h) => Goes(h, IF account = "NONE" THEN "onboard" ELSE "link")
         /\ Link(h) => Goes(h, "status")
         /\ OnboardingTicket(h) => Goes(h, "pending")
         /\ OnboardingRead(h) => Goes(h, "create")
         /\ CreateAccount(h) => Goes(h, "issue")
         /\ TicketConsume(h) => Goes(h, "issue verified")
<1>1. work[h] \in Jobs
  BY DEF SignInTypes
<1> DEFINE f == work[h].flow
<1>2. ASSUME MfaStatus(h)
      PROVE  IF InUse = 0 THEN Goes(h, "issue")
             ELSE Goes(h, IF work[h].flow = "login" THEN "verify" ELSE "ticket")
  <2>1. f \in {"login", "callback"}
    BY <1>1, <1>2, JobIs DEF MfaStatus, At
  <2>2. /\ "issue" \in StepsOf(f)
        /\ f = "login" => "verify" \in StepsOf(f)
        /\ f # "login" => "ticket" \in StepsOf(f)
    BY <2>1 DEF StepsOf
  <2> QED
    BY <1>2, <2>2, HandGoes DEF MfaStatus
<1>3. \A p \in {"find", "match", "link", "status", "onboard", "pending", "create", "issue"} :
        p \in StepsOf("callback")
  BY DEF StepsOf
<1>4. "issue verified" \in StepsOf("ticket")
  BY DEF StepsOf
<1>5. Consume(h) => Goes(h, "find")
  BY <1>1, <1>3, JobIs, HandGoes DEF Consume, At
<1>6. FindIdentity(h) => Goes(h, IF linked THEN "status" ELSE "match")
  BY <1>1, <1>3, JobIs, HandGoes DEF FindIdentity, At
<1>7. MatchUser(h) => Goes(h, IF account = "NONE" THEN "onboard" ELSE "link")
  BY <1>1, <1>3, JobIs, HandGoes DEF MatchUser, At
<1>8. Link(h) => Goes(h, "status")
  BY <1>1, <1>3, JobIs, HandGoes DEF Link, At
<1>9. OnboardingTicket(h) => Goes(h, "pending")
  BY <1>1, <1>3, JobIs, HandGoes DEF OnboardingTicket, At
<1>10. OnboardingRead(h) => Goes(h, "create")
  BY <1>1, <1>3, JobIs, HandGoes DEF OnboardingRead, At
<1>11. CreateAccount(h) => Goes(h, "issue")
  BY <1>1, <1>3, JobIs, HandGoes DEF CreateAccount, At
<1>12. TicketConsume(h) => Goes(h, "issue verified")
  BY <1>1, <1>4, JobIs, HandGoes DEF TicketConsume, At
<1> QED
  BY <1>2, <1>5, <1>6, <1>7, <1>8, <1>9, <1>10, <1>11, <1>12

\* A code is accepted of one who signs in, completes a sign-in, or disables the factor.
AcceptsTo(f) ==
  IF f = "login" THEN "issue verified" ELSE IF f = "ticket" THEN "consume ticket" ELSE "remove"

\* Where an accepted code leads, as the paths are.
LEMMA AcceptedGoes ==
  ASSUME SignInTypes, NEW h \in Handlers, At(h, "accept"), Accepted(h)
  PROVE  /\ work[h].flow \in {"login", "ticket", "disable"}
         /\ Goes(h, AcceptsTo(work[h].flow))
<1>1. work[h] \in Jobs /\ work[h].flow \in {"login", "ticket", "disable"}
  BY JobIs DEF SignInTypes, At
<1>2. AcceptsTo(work[h].flow) \in StepsOf(work[h].flow)
  BY <1>1 DEF AcceptsTo, StepsOf
<1>3. Goto(h, AcceptsTo(work[h].flow))
  BY <1>1 DEF AcceptsTo, Accepted
<1> QED
  BY <1>1, <1>2, <1>3, HandGoes
-----------------------------------------------------------------------------
(* Types *)

\* The rows of the sign-ins with the provider.
LEMMA RowsKept ==
  ASSUME SignInTypes
  PROVE  /\ \A t \in Transactions : OAuthBegin(t) \/ Lapse(t)
              => transactions' \in [Transactions -> Transaction]
         /\ OthersBegin => transactions' \in [Transactions -> Transaction]
         /\ \A h \in Handlers :
              Consume(h) \/ MfaTicket(h) \/ OnboardingTicket(h) \/ CreateAccount(h) \/ TicketConsume(h)
                => transactions' \in [Transactions -> Transaction]
<1>1. transactions \in [Transactions -> Transaction]
  BY DEF SignInTypes
<1>2. [NoTransaction EXCEPT !.status = "DELETED"] \in Transaction
  BY DEF NoTransaction, Transaction
<1>3. Swept \in [Transactions -> Transaction]
  BY <1>1, <1>2 DEF Swept
<1>4. ASSUME NEW t \in Transactions, OAuthBegin(t)
      PROVE  transactions' \in [Transactions -> Transaction]
  <2>1. transactions' = [Swept EXCEPT ![t].status = "OPEN"]
    BY <1>4 DEF OAuthBegin
  <2>2. [Swept[t] EXCEPT !.status = "OPEN"] \in Transaction
    BY <1>3 DEF Transaction
  <2> QED
    BY <1>3, <2>1, <2>2
<1>5. ASSUME NEW t \in Transactions, Lapse(t)
      PROVE  transactions' \in [Transactions -> Transaction]
  BY <1>1, <1>5 DEF Lapse, Transaction
<1>6. ASSUME NEW h \in Handlers,
             Consume(h) \/ CreateAccount(h) \/ TicketConsume(h)
      PROVE  transactions' \in [Transactions -> Transaction]
  <2>1. PICK t, u, c : t = work[h].t /\ u = "USED" /\ c = TRUE
    OBVIOUS
  <2>2. \/ transactions' = [transactions EXCEPT ![t].status = u]
        \/ transactions' = [transactions EXCEPT ![t].completed = c]
    BY <1>6, <2>1 DEF Consume, CreateAccount, TicketConsume
  <2>3. ASSUME NEW r \in Transaction
        PROVE  [r EXCEPT !.status = u] \in Transaction /\ [r EXCEPT !.completed = c] \in Transaction
    BY <2>1 DEF Transaction
  <2> HIDE DEF Transaction
  <2> QED
    BY <1>1, <2>2, <2>3
<1>7. ASSUME NEW h \in Handlers, MfaTicket(h) \/ OnboardingTicket(h)
      PROVE  transactions' \in [Transactions -> Transaction]
  <2>1. PICK p \in {"MFA", "ONBOARDING"} : WriteTicket(h, p)
    BY <1>7 DEF MfaTicket, OnboardingTicket
  <2> QED
    BY <1>1, <2>1 DEF WriteTicket, Transaction
<1> QED
  BY <1>3, <1>4, <1>5, <1>6, <1>7 DEF OthersBegin

\* How often something was done.
LEMMA MoreIs ==
  ASSUME NEW n \in 0 .. 2
  PROVE  More(n) \in 0 .. 2 /\ More(n) # 0 /\ (n = 0 => More(n) = 1)
  BY DEF More

\* What each code was used for.
LEMMA UsesKept ==
  ASSUME SignInTypes, NEW h \in Handlers,
         uses' = [uses EXCEPT ![<<work[h].secret, work[h].step>>] = More(@)]
  PROVE  /\ uses' \in [Codes -> 0 .. 2]
         /\ work[h].secret \in Secrets /\ work[h].step \in 0 .. MaxStep
         /\ \A s \in Secrets, k \in 0 .. MaxStep :
              uses'[<<s, k>>] = IF s = work[h].secret /\ k = work[h].step
                                THEN More(uses[<<s, k>>]) ELSE uses[<<s, k>>]
<1>1. work[h].secret \in Secrets /\ work[h].step \in 0 .. MaxStep
  BY DEF SignInTypes, Jobs, Fields
<1>2. \A s \in Secrets, k \in 0 .. MaxStep : <<s, k>> \in Codes
  BY DEF Codes
<1>3. PICK c, d : c = work[h].secret /\ d = work[h].step
  OBVIOUS
<1>4. uses \in [Codes -> 0 .. 2] /\ uses' = [uses EXCEPT ![<<c, d>>] = More(@)] /\ <<c, d>> \in Codes
  BY <1>1, <1>2, <1>3 DEF SignInTypes
<1>5. uses' \in [Codes -> 0 .. 2]
  BY <1>4, MoreIs
<1>6. \A s \in Secrets, k \in 0 .. MaxStep :
        uses'[<<s, k>>] = IF s = c /\ k = d THEN More(uses[<<s, k>>]) ELSE uses[<<s, k>>]
  BY <1>2, <1>4
<1> QED
  BY <1>1, <1>3, <1>5, <1>6

\* The rows, requests and counts keep their types.
LEMMA TypesKept ==
  ASSUME SignInTypes, [Next]_vars
  PROVE  SignInTypes'
<1>1. CASE UNCHANGED vars
  BY <1>1 DEF vars, person, factor, SignInTypes
<1>2. CASE Tick \/ Register \/ VerifyEmail \/ OthersBegin
  BY <1>2, RowsKept, MaxStepAssumption
     DEF Tick, Register, VerifyEmail, OthersBegin, person, factor, SignInTypes, Accounts, Steps
<1>3. ASSUME NEW t \in Transactions, OAuthBegin(t) \/ Lapse(t)
      PROVE  SignInTypes'
  BY <1>3, RowsKept DEF OAuthBegin, Lapse, person, factor, SignInTypes
<1>4. ASSUME NEW h \in Handlers,
             \/ Login(h) \/ EnrollRead(h) \/ DisableRead(h)
             \/ \E t \in Transactions : CallbackRead(h, t) \/ TicketRead(h, t)
      PROVE  SignInTypes'
  <2>1. work' \in [Handlers -> Jobs]
    BY <1>4, HandsBegin DEF Begins, Takes
  <2> QED
    BY <1>4, <2>1 DEF Login, EnrollRead, DisableRead, CallbackRead, TicketRead,
                      person, factor, SignInTypes
<1>5. ASSUME NEW h \in Handlers, VerifyRead(h) \/ ConfirmRead(h)
      PROVE  SignInTypes'
  <2>1. work' \in [Handlers -> Jobs]
    BY <1>5, VerifyTakes, ConfirmTakes DEF Takes
  <2> QED
    BY <1>5, <2>1 DEF VerifyRead, ConfirmRead, person, factor, SignInTypes
<1>6. ASSUME NEW h \in Handlers, Die(h) \/ MfaTicket(h)
      PROVE  SignInTypes'
  <2>1. work' \in [Handlers -> Jobs]
    BY <1>6, HandsEnd DEF Takes, Ends
  <2> QED
    BY <1>6, <2>1, RowsKept DEF Die, MfaTicket, WriteTicket, person, factor, SignInTypes
<1>7. ASSUME NEW h \in Handlers, Issue(h)
      PROVE  SignInTypes'
  <2>1. work' \in [Handlers -> Jobs]
    BY <1>7, HandsEnd DEF Takes, Ends
  <2>2. opened' \in [Transactions -> 0 .. 2]
    BY <1>7, MoreIs DEF Issue, SignInTypes
  <2>3. missed' \in BOOLEAN
    BY <1>7 DEF Issue, SignInTypes
  <2> QED
    BY <1>7, <2>1, <2>2, <2>3 DEF Issue, person, factor, SignInTypes
<1>8. ASSUME NEW h \in Handlers, EnrollWrite(h) \/ Disable(h) \/ ConfirmWrite(h)
      PROVE  SignInTypes'
  <2>1. work' \in [Handlers -> Jobs]
    BY <1>8, HandsEnd DEF Takes, Ends
  <2>2. raced' \in BOOLEAN
    BY <1>8 DEF EnrollWrite, Disable, ConfirmWrite, Changes, SignInTypes
  <2>3. CASE EnrollWrite(h)
    <3>1. PICK n : n = secrets + 1
      OBVIOUS
    <3>2. n \in Secrets /\ secrets' = n /\ mfa' = [NoCredential EXCEPT !.secret = n]
      BY <2>3, <3>1, MaxSecretsAssumption DEF EnrollWrite, SignInTypes, Secrets
    <3>3. mfa' \in Credential
      BY <3>2, Bounds DEF NoCredential, Credential
    <3> QED
      BY <2>1, <2>2, <2>3, <3>2, <3>3 DEF EnrollWrite, person, SignInTypes
  <2>4. CASE Disable(h)
    <3>1. NoCredential \in Credential /\ NoCode \in [of : Secrets, used : BOOLEAN] /\ 0 \in Secrets
      BY Bounds DEF NoCredential, NoCode, Credential
    <3> QED
      BY <2>1, <2>2, <2>4, <3>1 DEF Disable, person, SignInTypes
  <2>5. CASE ConfirmWrite(h)
    <3>1. work[h].secret \in Secrets /\ work[h].step \in 0 .. MaxStep /\ uses' \in [Codes -> 0 .. 2]
      BY <2>5, UsesKept DEF ConfirmWrite
    <3>2. mfa' \in Credential
      BY <2>5, <3>1 DEF ConfirmWrite, SignInTypes, Credential
    <3>3. recovery' \in [of : Secrets, used : BOOLEAN]
      BY <2>5, <3>1 DEF ConfirmWrite
    <3> QED
      BY <2>1, <2>2, <2>5, <3>1, <3>2, <3>3 DEF ConfirmWrite, person, SignInTypes
  <2> QED
    BY <1>8, <2>3, <2>4, <2>5
<1>9. ASSUME NEW h \in Handlers,
             \/ MfaStatus(h) \/ Consume(h) \/ FindIdentity(h) \/ MatchUser(h) \/ Link(h)
             \/ OnboardingTicket(h) \/ OnboardingRead(h) \/ CreateAccount(h) \/ TicketConsume(h)
      PROVE  SignInTypes'
  <2>1. work' \in [Handlers -> Jobs]
    BY <1>9, HandsGo DEF Goes, Takes
  <2>2. transactions' \in [Transactions -> Transaction]
    BY <1>9, RowsKept DEF MfaStatus, FindIdentity, MatchUser, Link, OnboardingRead, SignInTypes
  <2>3. account' \in Accounts /\ linked' \in BOOLEAN
    BY <1>9 DEF MfaStatus, Consume, FindIdentity, MatchUser, Link, OnboardingTicket, OnboardingRead,
                CreateAccount, TicketConsume, WriteTicket, person, SignInTypes, Accounts
  <2> QED
    BY <1>9, <2>1, <2>2, <2>3
       DEF MfaStatus, Consume, FindIdentity, MatchUser, Link, OnboardingTicket, OnboardingRead,
           CreateAccount, TicketConsume, WriteTicket, factor, SignInTypes
<1>10. ASSUME NEW h \in Handlers, Accept(h) \/ AcceptRecovery(h)
       PROVE  SignInTypes'
  <2>1. Accepted(h) /\ At(h, "accept")
    BY <1>10 DEF Accept, AcceptRecovery
  <2>2. work' \in [Handlers -> Jobs]
    BY <2>1, AcceptedGoes DEF Goes, Takes
  <2>3. uses' \in [Codes -> 0 .. 2] /\ work[h].step \in 0 .. MaxStep
    BY <2>1, UsesKept DEF Accepted
  <2>4. mfa' \in Credential /\ recovery' \in [of : Secrets, used : BOOLEAN]
    BY <1>10, <2>3 DEF Accept, AcceptRecovery, SignInTypes, Credential
  <2> QED
    BY <2>1, <2>2, <2>3, <2>4 DEF Accepted, person, SignInTypes
<1> QED
  BY <1>1, <1>2, <1>3, <1>4, <1>5, <1>6, <1>7, <1>8, <1>9, <1>10 DEF Next
-----------------------------------------------------------------------------
(* The second factor *)

\* Nobody who has had a factor since the request began is about to be let in without it:
\* a secret that is not in use any more never comes back, for the next one is new.
\* An account that there is not has none.
Asked(j) ==
  /\ j.had <= secrets
  /\ j.had # 0 /\ j.had = mfa.secret => mfa.enabled
  /\ j.pc = "issue" /\ j.had # 0 => j.had # mfa.secret
  /\ account = "NONE" => j.pc # "enroll"
FactorInv ==
  /\ ~missed
  /\ mfa.secret <= secrets
  /\ mfa.enabled => mfa.secret # 0
  /\ account = "NONE" => secrets = 0
  /\ \A h \in Handlers : Asked(work[h])

\* The row of the factor is about the same secret.
SameSecret == mfa'.secret = mfa.secret /\ mfa'.enabled = mfa.enabled /\ secrets' = secrets

\* A handler that takes a job which asks, of the same secret.
LEMMA HandAsks ==
  ASSUME SignInTypes, FactorInv, NEW h \in Handlers, NEW j \in Jobs, Takes(h, j),
         Asked(j), SameSecret, account' \in {account, "VERIFIED"}, missed' = missed
  PROVE  FactorInv'
<1>1. ASSUME NEW k, Asked(k) PROVE Asked(k)'
  BY <1>1 DEF Asked, SameSecret
<1>2. \A g \in Handlers : Asked(work[g])'
  <2>1. SUFFICES ASSUME NEW g \in Handlers PROVE Asked(work[g])'
    OBVIOUS
  <2>2. PICK k : k = work'[g]
    OBVIOUS
  <2>3. Asked(k)
    BY <2>2 DEF Takes, FactorInv
  <2> QED
    BY <1>1, <2>2, <2>3 DEF Asked
<1> QED
  BY <1>2 DEF FactorInv, SameSecret, Asked

\* The factor stays asked for, whatever the step.
LEMMA FactorKept ==
  ASSUME SignInTypes, FactorInv, [Next]_vars
  PROVE  FactorInv'
<1> USE DEF FactorInv
<1>1. /\ mfa \in Credential /\ secrets \in Nat /\ mfa.secret \in Nat
      /\ \A h \in Handlers : work[h] \in Jobs /\ work[h].had \in Nat
  BY Bounds DEF SignInTypes, Credential, Jobs, Fields
<1>2. InUse \in Nat /\ InUse <= secrets /\ (InUse # 0 => InUse = mfa.secret /\ mfa.enabled)
  BY <1>1 DEF InUse
<1>3. CASE UNCHANGED vars
  BY <1>3 DEF vars, person, factor, Asked
<1>4. CASE Tick \/ Register \/ VerifyEmail \/ OthersBegin
           \/ \E t \in Transactions : OAuthBegin(t) \/ Lapse(t)
  BY <1>4 DEF Tick, Register, VerifyEmail, OthersBegin, OAuthBegin, Lapse, person, factor, Asked
<1>5. ASSUME NEW h \in Handlers,
             \/ Login(h) \/ EnrollRead(h) \/ DisableRead(h)
             \/ \E t \in Transactions : CallbackRead(h, t) \/ TicketRead(h, t)
      PROVE  FactorInv'
  <2>1. /\ SameSecret /\ account' \in {account, "VERIFIED"} /\ missed' = missed
        /\ EnrollRead(h) => account # "NONE"
    BY <1>5 DEF Login, EnrollRead, DisableRead, CallbackRead, TicketRead, person, factor, SameSecret
  <2>2. PICK j \in Jobs : /\ Takes(h, j) /\ j.had = InUse /\ j.pc # "issue"
                          /\ j.pc = "enroll" => account # "NONE"
    BY <1>5, <2>1, HandsBegin DEF Begins
  <2>3. Asked(j)
    BY <1>2, <2>2 DEF Asked
  <2> QED
    BY <2>1, <2>2, <2>3, HandAsks
<1>6. ASSUME NEW h \in Handlers, VerifyRead(h) \/ ConfirmRead(h)
      PROVE  FactorInv'
  <2>1. SameSecret /\ account' \in {account, "VERIFIED"} /\ missed' = missed
    BY <1>6 DEF VerifyRead, ConfirmRead, person, factor, SameSecret
  <2>2. PICK j \in Jobs : /\ Takes(h, j) /\ j.had \in {0, work[h].had}
                          /\ j.pc # "issue" /\ j.pc # "enroll"
    BY <1>6, VerifyTakes, ConfirmTakes
  <2>3. Asked(j)
    BY <1>1, <2>2 DEF Asked
  <2> QED
    BY <2>1, <2>2, <2>3, HandAsks
<1>7. ASSUME NEW h \in Handlers, Die(h) \/ MfaTicket(h) \/ Issue(h)
      PROVE  FactorInv'
  <2>1. SameSecret /\ account' \in {account, "VERIFIED"}
    BY <1>7 DEF Die, MfaTicket, WriteTicket, Issue, person, factor, SameSecret
  <2>2. missed' = missed
    BY <1>1, <1>2, <1>7 DEF Die, MfaTicket, WriteTicket, Issue, At, Asked, SignInTypes
  <2>3. Takes(h, Idle)
    BY <1>7, HandsEnd DEF Ends
  <2>4. Asked(Idle)
    BY <1>1, IdleIs DEF Asked
  <2> QED
    BY <2>1, <2>2, <2>3, <2>4, IdleIs, HandAsks
<1>8. ASSUME NEW h \in Handlers,
             \/ MfaStatus(h) \/ Consume(h) \/ FindIdentity(h) \/ MatchUser(h) \/ Link(h)
             \/ OnboardingTicket(h) \/ OnboardingRead(h) \/ CreateAccount(h) \/ TicketConsume(h)
      PROVE  FactorInv'
  <2>1. SameSecret /\ account' \in {account, "VERIFIED"} /\ missed' = missed
    BY <1>8 DEF MfaStatus, Consume, FindIdentity, MatchUser, Link, OnboardingTicket, OnboardingRead,
                CreateAccount, TicketConsume, WriteTicket, person, factor, SameSecret
  <2>2. PICK j \in Jobs : /\ Takes(h, j) /\ j.had = work[h].had /\ j.pc # "enroll"
                          /\ j.pc = "issue" => (MfaStatus(h) /\ InUse = 0) \/ CreateAccount(h)
    BY <1>8, HandsGo DEF Goes
  <2>3. CreateAccount(h) => work[h].had = 0
    BY <1>1 DEF CreateAccount, Asked
  <2>4. InUse = 0 /\ work[h].had # 0 => work[h].had # mfa.secret
    BY <1>1 DEF InUse, Asked
  <2>5. Asked(j)
    BY <1>1, <2>2, <2>3, <2>4 DEF Asked
  <2> QED
    BY <2>1, <2>2, <2>5, HandAsks
<1>9. ASSUME NEW h \in Handlers, Accept(h) \/ AcceptRecovery(h)
      PROVE  FactorInv'
  <2>1. Accepted(h) /\ At(h, "accept")
    BY <1>9 DEF Accept, AcceptRecovery
  <2>2. SameSecret /\ account' \in {account, "VERIFIED"} /\ missed' = missed
    BY <1>1, <1>9, <2>1 DEF Accept, AcceptRecovery, Accepted, person, SameSecret, Credential
  <2>3. PICK j \in Jobs : /\ Takes(h, j) /\ j.had = work[h].had
                          /\ j.pc # "issue" /\ j.pc # "enroll"
    BY <2>1, AcceptedGoes DEF Goes, AcceptsTo
  <2>4. Asked(j)
    BY <2>3 DEF Asked
  <2> QED
    BY <2>2, <2>3, <2>4, HandAsks
<1>10. ASSUME NEW h \in Handlers, EnrollWrite(h)
       PROVE  FactorInv'
  <2>1. Takes(h, Idle)
    BY <1>10, HandsEnd DEF Ends
  <2>2. /\ secrets' = secrets + 1 /\ mfa'.secret = secrets + 1 /\ ~mfa'.enabled
        /\ account # "NONE" /\ account' = account /\ missed' = missed
    <3>1. PICK n : n = secrets + 1
      OBVIOUS
    <3>2. secrets' = n /\ mfa' = [NoCredential EXCEPT !.secret = n]
      BY <1>10, <3>1 DEF EnrollWrite
    <3>3. mfa'.secret = n /\ mfa'.enabled = FALSE
      BY <3>2 DEF NoCredential
    <3> QED
      BY <1>10, <3>1, <3>2, <3>3 DEF EnrollWrite, Asked, At, person
  <2>3. \A g \in Handlers : work'[g].had \in Nat /\ work'[g].had <= secrets
    BY <1>1, <2>1, IdleIs DEF Takes, Asked
  <2>4. \A g \in Handlers : Asked(work[g])'
    BY <1>1, <2>2, <2>3 DEF Asked
  <2> QED
    BY <1>1, <2>2, <2>4
<1>11. ASSUME NEW h \in Handlers, Disable(h)
       PROVE  FactorInv'
  <2>1. Takes(h, Idle)
    BY <1>11, HandsEnd DEF Ends
  <2>2. /\ secrets' = secrets /\ mfa'.secret = 0 /\ ~mfa'.enabled
        /\ account' = account /\ missed' = missed
    BY <1>11 DEF Disable, NoCredential, person
  <2>3. \A g \in Handlers : Asked(work[g])'
    BY <1>1, <2>1, <2>2, IdleIs DEF Asked, Takes
  <2> QED
    BY <1>1, <2>2, <2>3
<1>12. ASSUME NEW h \in Handlers, ConfirmWrite(h)
       PROVE  FactorInv'
  <2>1. Takes(h, Idle)
    BY <1>12, HandsEnd DEF Ends
  <2>2. /\ secrets' = secrets /\ mfa'.secret = mfa.secret /\ mfa'.enabled = TRUE /\ mfa.secret # 0
        /\ account' = account /\ missed' = missed
    BY <1>1, <1>12 DEF ConfirmWrite, Credential, person
  <2>3. \A g \in Handlers : Asked(work[g])'
    BY <1>1, <2>1, <2>2, IdleIs DEF Asked, Takes
  <2> QED
    BY <1>1, <2>2, <2>3
<1> QED
  BY <1>3, <1>4, <1>5, <1>6, <1>7, <1>8, <1>9, <1>10, <1>11, <1>12 DEF Next
-----------------------------------------------------------------------------
(* Codes *)

\* As long as nobody changes the enrollment under a request in hand, requests hold what is
\* in the row, and the recovery code is that of the secret in use.
Current(j) ==
  /\ j.pc = "enroll" => ~mfa.enabled
  /\ j.pc = "confirm" =>
       ~mfa.enabled /\ j.secret = mfa.secret /\ j.step # 0 /\ mfa.secret # 0
  /\ j.pc = "accept" => mfa.enabled /\ j.secret = mfa.secret
  /\ j.pc = "remove" => mfa.enabled
RowFits ==
  /\ mfa.secret <= secrets
  /\ mfa.enabled => mfa.secret # 0 /\ recovery.of = mfa.secret /\ confirmed = mfa.secret
  /\ ~mfa.enabled => confirmed = 0

\* Then a code is as good as new if its secret is not in use yet, or if the row says so: it
\* is of a later period than the last, or the recovery code.
Fresh(s, k) ==
  \/ s > secrets
  \/ /\ s = mfa.secret /\ s # 0
     /\ ~mfa.enabled \/ (k = 0 /\ ~recovery.used) \/ (k # 0 /\ mfa.last < k)
UsesFit == \A s \in Secrets, k \in 0 .. MaxStep :
  uses[<<s, k>>] <= 1 /\ (Fresh(s, k) => uses[<<s, k>>] = 0)
CodesInv ==
  ~raced => RowFits /\ UsesFit /\ \A h \in Handlers : Current(work[h])

\* A handler that takes a job of the row as it is.
LEMMA HandCurrent ==
  ASSUME SignInTypes, CodesInv, NEW h \in Handlers, NEW j \in Jobs, Takes(h, j),
         ~raced => Current(j), UNCHANGED <<mfa, recovery, confirmed, secrets, uses, raced>>
  PROVE  CodesInv'
<1> SUFFICES ASSUME ~raced
             PROVE  (RowFits /\ UsesFit /\ \A g \in Handlers : Current(work[g]))'
  BY DEF CodesInv
<1>1. RowFits' /\ UsesFit'
  BY DEF CodesInv, RowFits, UsesFit, Fresh
<1>2. ASSUME NEW g \in Handlers PROVE Current(work[g])'
  <2>1. PICK k : k = work'[g]
    OBVIOUS
  <2>2. Current(k)
    BY <2>1 DEF Takes, CodesInv
  <2> QED
    BY <2>1, <2>2 DEF Current
<1> QED
  BY <1>1, <1>2

\* A code that is accepted is of the secret in use.
LEMMA AcceptUses ==
  ASSUME SignInTypes, CodesInv, NEW h \in Handlers, Accept(h) \/ AcceptRecovery(h), ~raced
  PROVE  /\ (RowFits /\ UsesFit)' /\ raced' = raced
         /\ mfa.enabled /\ mfa'.enabled = mfa.enabled /\ mfa'.secret = mfa.secret
<1>1. Accepted(h) /\ At(h, "accept")
  BY DEF Accept, AcceptRecovery
<1>2. /\ uses' = [uses EXCEPT ![<<work[h].secret, work[h].step>>] = More(@)]
      /\ secrets' = secrets /\ confirmed' = confirmed /\ raced' = raced
  BY <1>1 DEF Accepted
<1>3. PICK c, d : c = work[h].secret /\ d = work[h].step
  OBVIOUS
<1>4. /\ c \in Secrets /\ d \in 0 .. MaxStep
      /\ \A s \in Secrets, k \in 0 .. MaxStep :
           uses'[<<s, k>>] = IF s = c /\ k = d THEN More(uses[<<s, k>>]) ELSE uses[<<s, k>>]
  <2>1. /\ work[h].secret \in Secrets /\ work[h].step \in 0 .. MaxStep
        /\ \A s \in Secrets, k \in 0 .. MaxStep :
             uses'[<<s, k>>] = IF s = work[h].secret /\ k = work[h].step
                               THEN More(uses[<<s, k>>]) ELSE uses[<<s, k>>]
    BY <1>2, UsesKept
  <2> QED
    BY <1>3, <2>1
<1>5. mfa.enabled /\ c = mfa.secret /\ RowFits /\ UsesFit
  BY <1>1, <1>3 DEF CodesInv, Current, At
<1>6. /\ mfa \in Credential /\ recovery \in [of : Secrets, used : BOOLEAN]
      /\ secrets \in Nat /\ mfa.secret \in Nat /\ MaxStep \in Nat
      /\ \A s \in Secrets, k \in 0 .. MaxStep : uses[<<s, k>>] \in 0 .. 2 /\ s \in Nat /\ k \in Nat
  BY Bounds, MaxStepAssumption DEF SignInTypes, Credential, Codes
<1>7. CASE Accept(h)
  <2>1. d # 0 /\ mfa.last < d /\ mfa' = [mfa EXCEPT !.last = d] /\ recovery' = recovery
    BY <1>3, <1>7 DEF Accept
  <2>2. mfa'.secret = mfa.secret /\ mfa'.enabled = mfa.enabled /\ mfa'.last = d
    BY <1>6, <2>1 DEF Credential
  <2>3. RowFits'
    BY <1>2, <1>5, <2>1, <2>2 DEF RowFits
  <2>4. Fresh(c, d)
    BY <1>5, <2>1 DEF Fresh, RowFits
  <2>5. ASSUME NEW s \in Secrets, NEW k \in 0 .. MaxStep
        PROVE  uses'[<<s, k>>] <= 1 /\ (Fresh(s, k)' => uses'[<<s, k>>] = 0)
    <3>1. CASE s = c /\ k = d
      <4>1. uses'[<<s, k>>] = 1
        BY <1>4, <1>5, <2>4, <3>1, MoreIs DEF UsesFit
      <4>2. ~Fresh(s, k)'
        BY <1>2, <1>5, <1>6, <2>1, <2>2, <3>1 DEF Fresh, RowFits
      <4> QED
        BY <4>1, <4>2
    <3>2. CASE ~(s = c /\ k = d)
      <4>1. uses'[<<s, k>>] = uses[<<s, k>>]
        BY <1>4, <3>2
      <4>2. Fresh(s, k)' => Fresh(s, k)
        BY <1>2, <1>4, <1>6, <2>1, <2>2 DEF Fresh, Credential
      <4> QED
        BY <1>5, <4>1, <4>2 DEF UsesFit
    <3> QED
      BY <3>1, <3>2
  <2> QED
    BY <1>2, <1>5, <2>2, <2>3, <2>5 DEF UsesFit
<1>8. CASE AcceptRecovery(h)
  <2>1. d = 0 /\ recovery.used = FALSE /\ recovery' = [recovery EXCEPT !.used = TRUE] /\ mfa' = mfa
    BY <1>3, <1>8 DEF AcceptRecovery
  <2>2. recovery'.of = recovery.of /\ recovery'.used = TRUE
    BY <1>6, <2>1
  <2>3. RowFits'
    BY <1>2, <1>5, <2>1, <2>2 DEF RowFits
  <2>4. Fresh(c, d)
    BY <1>5, <2>1 DEF Fresh, RowFits
  <2>5. ASSUME NEW s \in Secrets, NEW k \in 0 .. MaxStep
        PROVE  uses'[<<s, k>>] <= 1 /\ (Fresh(s, k)' => uses'[<<s, k>>] = 0)
    <3>1. CASE s = c /\ k = d
      <4>1. uses'[<<s, k>>] = 1
        BY <1>4, <1>5, <2>4, <3>1, MoreIs DEF UsesFit
      <4>2. ~Fresh(s, k)'
        BY <1>2, <1>5, <1>6, <2>1, <2>2, <3>1 DEF Fresh, RowFits
      <4> QED
        BY <4>1, <4>2
    <3>2. CASE ~(s = c /\ k = d)
      <4>1. uses'[<<s, k>>] = uses[<<s, k>>]
        BY <1>4, <3>2
      <4>2. Fresh(s, k)' => Fresh(s, k)
        BY <1>2, <2>1, <2>2 DEF Fresh
      <4> QED
        BY <1>5, <4>1, <4>2 DEF UsesFit
    <3> QED
      BY <3>1, <3>2
  <2> QED
    BY <1>2, <1>5, <2>1, <2>3, <2>5 DEF UsesFit
<1> QED
  BY <1>7, <1>8

\* Who changes the enrollment while nobody else holds it, holds it himself.
LEMMA NobodyHolds ==
  ASSUME SignInTypes, NEW h \in Handlers, Takes(h, Idle), Changes(h), ~raced'
  PROVE  ~raced /\ \A g \in Handlers : work'[g].pc \notin {"enroll", "confirm", "accept", "remove"}
  BY IdleIs DEF SignInTypes, Changes, Holding, Takes

\* What the codes were used for stays so, whatever the step.
LEMMA CodesKept ==
  ASSUME SignInTypes, CodesInv, [Next]_vars
  PROVE  CodesInv'
<1>1. /\ mfa \in Credential /\ recovery \in [of : Secrets, used : BOOLEAN]
      /\ secrets \in Nat /\ mfa.secret \in Nat /\ MaxStep \in Nat /\ MaxSecrets \in Nat
      /\ \A h \in Handlers : work[h] \in Jobs
      /\ \A s \in Secrets, k \in 0 .. MaxStep : uses[<<s, k>>] \in 0 .. 2 /\ s \in Nat /\ k \in Nat
  BY Bounds, MaxStepAssumption, MaxSecretsAssumption DEF SignInTypes, Credential, Codes
<1>2. InUse # 0 => mfa.enabled /\ InUse = mfa.secret
  BY DEF InUse
<1>3. CASE UNCHANGED vars
  BY <1>3 DEF vars, person, factor, CodesInv, RowFits, UsesFit, Fresh, Current
<1>4. CASE Tick \/ Register \/ VerifyEmail \/ OthersBegin
           \/ \E t \in Transactions : OAuthBegin(t) \/ Lapse(t)
  BY <1>4 DEF Tick, Register, VerifyEmail, OthersBegin, OAuthBegin, Lapse, person, factor,
              CodesInv, RowFits, UsesFit, Fresh, Current
<1>5. ASSUME NEW h \in Handlers,
             \/ Login(h) \/ EnrollRead(h) \/ DisableRead(h)
             \/ \E t \in Transactions : CallbackRead(h, t) \/ TicketRead(h, t)
      PROVE  CodesInv'
  <2>1. /\ UNCHANGED <<mfa, recovery, confirmed, secrets, uses, raced>>
        /\ EnrollRead(h) => ~mfa.enabled
    BY <1>5 DEF Login, EnrollRead, DisableRead, CallbackRead, TicketRead, factor
  <2>2. PICK j \in Jobs : /\ Takes(h, j) /\ j.pc \notin {"confirm", "accept", "remove"}
                          /\ j.pc = "enroll" => EnrollRead(h)
    BY <1>5, HandsBegin DEF Begins
  <2>3. Current(j)
    BY <2>1, <2>2 DEF Current
  <2> QED
    BY <2>1, <2>2, <2>3, HandCurrent
<1>6. ASSUME NEW h \in Handlers, VerifyRead(h)
      PROVE  CodesInv'
  <2>1. UNCHANGED <<mfa, recovery, confirmed, secrets, uses, raced>>
    BY <1>6 DEF VerifyRead, factor
  <2>2. PICK j \in Jobs : /\ Takes(h, j) /\ j.pc = "accept"
                          /\ j.secret = IF j.step = 0 THEN recovery.of ELSE mfa.secret
    BY <1>6, VerifyTakes
  <2>3. ~raced => Current(j)
    BY <1>2, <1>6, <2>2 DEF VerifyRead, Current, CodesInv, RowFits
  <2> QED
    BY <2>1, <2>2, <2>3, HandCurrent
<1>7. ASSUME NEW h \in Handlers, ConfirmRead(h)
      PROVE  CodesInv'
  <2>1. UNCHANGED <<mfa, recovery, confirmed, secrets, uses, raced>>
    BY <1>7 DEF ConfirmRead, factor
  <2>2. PICK j \in Jobs : Takes(h, j) /\ j.pc = "confirm" /\ j.secret = mfa.secret /\ j.step # 0
    BY <1>7, ConfirmTakes
  <2>3. Current(j)
    BY <1>7, <2>2 DEF ConfirmRead, Current
  <2> QED
    BY <2>1, <2>2, <2>3, HandCurrent
<1>8. ASSUME NEW h \in Handlers, Die(h) \/ MfaTicket(h) \/ Issue(h)
      PROVE  CodesInv'
  <2>1. UNCHANGED <<mfa, recovery, confirmed, secrets, uses, raced>>
    BY <1>8 DEF Die, MfaTicket, WriteTicket, Issue, factor
  <2>2. Takes(h, Idle) /\ Current(Idle)
    BY <1>8, HandsEnd, IdleIs DEF Ends, Current
  <2> QED
    BY <2>1, <2>2, IdleIs, HandCurrent
<1>9. ASSUME NEW h \in Handlers,
             \/ MfaStatus(h) \/ Consume(h) \/ FindIdentity(h) \/ MatchUser(h) \/ Link(h)
             \/ OnboardingTicket(h) \/ OnboardingRead(h) \/ CreateAccount(h) \/ TicketConsume(h)
      PROVE  CodesInv'
  <2>1. UNCHANGED <<mfa, recovery, confirmed, secrets, uses, raced>>
    BY <1>9 DEF MfaStatus, Consume, FindIdentity, MatchUser, Link, OnboardingTicket, OnboardingRead,
                CreateAccount, TicketConsume, WriteTicket, factor
  <2>2. PICK j \in Jobs : Takes(h, j) /\ j.pc \notin {"enroll", "confirm", "accept", "remove"}
    BY <1>9, HandsGo DEF Goes
  <2>3. Current(j)
    BY <2>2 DEF Current
  <2> QED
    BY <2>1, <2>2, <2>3, HandCurrent
<1>10. ASSUME NEW h \in Handlers, Accept(h) \/ AcceptRecovery(h)
       PROVE  CodesInv'
  <2>1. Accepted(h) /\ At(h, "accept") /\ raced' = raced
    BY <1>10 DEF Accept, AcceptRecovery, Accepted
  <2> SUFFICES ASSUME ~raced
               PROVE  (RowFits /\ UsesFit /\ \A g \in Handlers : Current(work[g]))'
    BY <2>1 DEF CodesInv
  <2>2. PICK j \in Jobs : /\ Takes(h, j) /\ j.pc \notin {"enroll", "confirm", "accept"}
    BY <2>1, AcceptedGoes DEF Goes, AcceptsTo
  <2>3. mfa.enabled /\ mfa'.enabled = mfa.enabled /\ mfa'.secret = mfa.secret
    BY <1>10, AcceptUses
  <2>4. \A g \in Handlers : Current(work[g])'
    BY <2>2, <2>3 DEF CodesInv, Current, Takes
  <2> QED
    BY <1>10, <2>4, AcceptUses
<1>11. ASSUME NEW h \in Handlers, EnrollWrite(h) \/ Disable(h) \/ ConfirmWrite(h)
       PROVE  CodesInv'
  <2>1. Takes(h, Idle) /\ Changes(h)
    BY <1>11, HandsEnd DEF Ends, EnrollWrite, Disable, ConfirmWrite
  <2> SUFFICES ASSUME ~raced'
               PROVE  (RowFits /\ UsesFit /\ \A g \in Handlers : Current(work[g]))'
    BY DEF CodesInv
  <2>2. ~raced /\ \A g \in Handlers : Current(work[g])'
    BY <2>1, NobodyHolds DEF Current
  <2>3. RowFits /\ UsesFit /\ Current(work[h])
    BY <2>2 DEF CodesInv
  <2>4. CASE EnrollWrite(h)
    <3>1. PICK n : n = secrets + 1
      OBVIOUS
    <3>2. secrets' = n /\ mfa' = [NoCredential EXCEPT !.secret = n] /\ uses' = uses
          /\ confirmed' = confirmed /\ ~mfa.enabled /\ n \in Nat /\ n > secrets
      BY <1>1, <2>3, <2>4, <3>1 DEF EnrollWrite, At, Current
    <3>3. mfa'.secret = n /\ mfa'.enabled = FALSE
      BY <3>2 DEF NoCredential
    <3>4. RowFits'
      BY <2>3, <3>2, <3>3 DEF RowFits
    <3>5. \A s \in Secrets, k \in 0 .. MaxStep : Fresh(s, k)' => Fresh(s, k)
      <4>1. ASSUME NEW s \in Secrets, NEW k \in 0 .. MaxStep, Fresh(s, k)'
            PROVE  Fresh(s, k)
        <5>1. s > n \/ s = n
          BY <3>2, <3>3, <4>1 DEF Fresh
        <5>2. s > secrets
          BY <1>1, <3>1, <5>1, Bounds
        <5> QED
          BY <5>2 DEF Fresh
      <4> QED
        BY <4>1
    <3> QED
      BY <2>2, <2>3, <3>2, <3>4, <3>5 DEF UsesFit
  <2>5. CASE Disable(h)
    <3>1. /\ mfa' = NoCredential /\ recovery' = NoCode /\ confirmed' = 0 /\ uses' = uses
          /\ secrets' = secrets /\ mfa.enabled
      BY <2>3, <2>5 DEF Disable, At, Current
    <3>2. mfa'.secret = 0 /\ mfa'.enabled = FALSE
      BY <3>1 DEF NoCredential
    <3>3. RowFits'
      BY <1>1, <3>1, <3>2 DEF RowFits
    <3>4. \A s \in Secrets, k \in 0 .. MaxStep : Fresh(s, k)' => Fresh(s, k)
      <4>1. secrets' = secrets /\ mfa'.secret = 0
        BY <3>1, <3>2
      <4>2. ASSUME NEW s \in Secrets, NEW k \in 0 .. MaxStep, Fresh(s, k)'
            PROVE  Fresh(s, k)
        <5>1. s > secrets
          BY <4>1, <4>2 DEF Fresh
        <5> QED
          BY <5>1 DEF Fresh
      <4> QED
        BY <4>2
    <3> QED
      BY <2>2, <2>3, <3>1, <3>3, <3>4 DEF UsesFit
  <2>6. CASE ConfirmWrite(h)
    <3>1. PICK c, d : c = work[h].secret /\ d = work[h].step
      OBVIOUS
    <3>2. c = mfa.secret /\ c # 0 /\ d # 0 /\ ~mfa.enabled
      BY <2>3, <2>6, <3>1 DEF ConfirmWrite, At, Current
    <3>3. /\ mfa' = [mfa EXCEPT !.enabled = TRUE, !.last = d]
          /\ recovery' = [of |-> c, used |-> FALSE]
          /\ confirmed' = c /\ secrets' = secrets
      BY <2>6, <3>1 DEF ConfirmWrite
    <3>4. mfa'.secret = c /\ mfa'.enabled = TRUE /\ mfa'.last = d
      BY <1>1, <3>2, <3>3 DEF Credential
    <3>5. /\ c \in Secrets /\ d \in 0 .. MaxStep
          /\ \A s \in Secrets, k \in 0 .. MaxStep :
               uses'[<<s, k>>] = IF s = c /\ k = d THEN More(uses[<<s, k>>]) ELSE uses[<<s, k>>]
      <4>1. uses' = [uses EXCEPT ![<<work[h].secret, work[h].step>>] = More(@)]
        BY <2>6 DEF ConfirmWrite
      <4>2. /\ work[h].secret \in Secrets /\ work[h].step \in 0 .. MaxStep
            /\ \A s \in Secrets, k \in 0 .. MaxStep :
                 uses'[<<s, k>>] = IF s = work[h].secret /\ k = work[h].step
                                   THEN More(uses[<<s, k>>]) ELSE uses[<<s, k>>]
        BY <4>1, UsesKept
      <4> QED
        BY <3>1, <4>2
    <3>6. RowFits'
      BY <2>3, <3>2, <3>3, <3>4 DEF RowFits
    <3>7. \A k \in 0 .. MaxStep : uses[<<c, k>>] = 0
      BY <2>3, <3>2, <3>5 DEF UsesFit, Fresh
    <3>8. ASSUME NEW s \in Secrets, NEW k \in 0 .. MaxStep
          PROVE  uses'[<<s, k>>] <= 1 /\ (Fresh(s, k)' => uses'[<<s, k>>] = 0)
      <4>1. CASE s = c /\ k = d
        <5>1. uses'[<<s, k>>] = 1
          BY <3>5, <3>7, <4>1, MoreIs
        <5>2. ~Fresh(s, k)'
          BY <1>1, <2>3, <3>2, <3>3, <3>4, <4>1 DEF Fresh, RowFits
        <5> QED
          BY <5>1, <5>2
      <4>2. CASE ~(s = c /\ k = d)
        <5>1. uses'[<<s, k>>] = uses[<<s, k>>]
          BY <3>5, <4>2
        <5>2. Fresh(s, k)' => Fresh(s, k)
          BY <3>2, <3>3, <3>4 DEF Fresh
        <5> QED
          BY <2>3, <5>1, <5>2 DEF UsesFit
      <4> QED
        BY <4>1, <4>2
    <3> QED
      BY <2>2, <3>6, <3>8 DEF UsesFit
  <2> QED
    BY <1>11, <2>4, <2>5, <2>6
<1> QED
  BY <1>3, <1>4, <1>5, <1>6, <1>7, <1>8, <1>9, <1>10, <1>11 DEF Next
-----------------------------------------------------------------------------
(* Sessions of a sign-in with the provider *)

\* The callback that consumed a transaction, and the requests that complete it.
Consumes(j, t) == j.flow = "callback" /\ j.t = t /\ j.pc # "consume"
Completes(j, t) == j.flow = "ticket" /\ j.t = t
MayIssue(j, t) == Completes(j, t) /\ j.pc = "issue verified"

\* One callback consumes a transaction; what it leaves to be completed is not its own any
\* more, and one request completes it.
RowInv(t) ==
  /\ transactions[t].purpose # "NONE" => transactions[t].status = "USED"
  /\ transactions[t].purpose = "MFA" /\ ~transactions[t].completed => opened[t] = 0
  /\ opened[t] # 0 => transactions[t].status \in {"USED", "DELETED"}
  /\ opened[t] <= 1
ConsumerInv(j, t) == Consumes(j, t) =>
  /\ transactions[t].status \in {"USED", "DELETED"} /\ transactions[t].purpose # "MFA"
  /\ opened[t] = 0
CompleterInv(j, t) == Completes(j, t) =>
  /\ transactions[t].purpose = "MFA" \/ transactions[t].status = "DELETED"
  /\ j.pc = "issue verified" =>
       /\ transactions[t].completed \/ transactions[t].status = "DELETED"
       /\ opened[t] = 0
Alone(t) == \A g, h \in Handlers :
  /\ Consumes(work[h], t) => ~Completes(work[g], t) /\ (Consumes(work[g], t) => g = h)
  /\ MayIssue(work[g], t) /\ MayIssue(work[h], t) => g = h
SessionsInv == \A t \in Transactions :
  RowInv(t) /\ Alone(t) /\ \A h \in Handlers : ConsumerInv(work[h], t) /\ CompleterInv(work[h], t)

\* A handler that takes a job which has no part in any sign-in but those of its last.
LEMMA HandApart ==
  ASSUME SignInTypes, SessionsInv, NEW h \in Handlers, NEW j \in Jobs, Takes(h, j),
         \A t \in Transactions :
           /\ Consumes(j, t) => Consumes(work[h], t)
           /\ Completes(j, t) => Completes(work[h], t)
           /\ MayIssue(j, t) => MayIssue(work[h], t),
         UNCHANGED <<transactions, opened>>
  PROVE  SessionsInv'
<1> SUFFICES ASSUME NEW t \in Transactions
             PROVE  (RowInv(t) /\ Alone(t)
                       /\ \A g \in Handlers : ConsumerInv(work[g], t) /\ CompleterInv(work[g], t))'
  BY DEF SessionsInv
<1>1. RowInv(t) /\ Alone(t) /\ \A g \in Handlers : ConsumerInv(work[g], t) /\ CompleterInv(work[g], t)
  BY DEF SessionsInv
<1>2. \A g \in Handlers :
        /\ Consumes(work'[g], t) => Consumes(work[g], t)
        /\ Completes(work'[g], t) => Completes(work[g], t)
        /\ MayIssue(work'[g], t) => MayIssue(work[g], t)
  BY DEF Takes
<1>3. RowInv(t)'
  BY <1>1 DEF RowInv
<1>4. Alone(t)'
  BY <1>1, <1>2 DEF Alone
<1>5. \A g \in Handlers : (ConsumerInv(work[g], t) /\ CompleterInv(work[g], t))'
  BY <1>1, <1>2 DEF ConsumerInv, CompleterInv, Consumes, Completes, MayIssue
<1> QED
  BY <1>3, <1>4, <1>5

\* Transactions that change while no handler does: none that a handler relies on.
LEMMA RowsChange ==
  ASSUME SignInTypes, SessionsInv, UNCHANGED <<work, opened>>,
         \A t \in Transactions :
           \/ transactions'[t].status = transactions[t].status
              /\ transactions'[t].purpose = transactions[t].purpose
              /\ transactions'[t].completed = transactions[t].completed
           \/ transactions[t].status = "NONE" /\ transactions'[t].purpose = "NONE"
           \/ transactions'[t].status = "DELETED" /\ transactions'[t].purpose = "NONE"
  PROVE  SessionsInv'
<1> SUFFICES ASSUME NEW t \in Transactions
             PROVE  (RowInv(t) /\ Alone(t)
                       /\ \A g \in Handlers : ConsumerInv(work[g], t) /\ CompleterInv(work[g], t))'
  BY DEF SessionsInv
<1>1. RowInv(t) /\ Alone(t) /\ \A g \in Handlers : ConsumerInv(work[g], t) /\ CompleterInv(work[g], t)
  BY DEF SessionsInv
<1>2. RowInv(t)'
  BY <1>1 DEF RowInv
<1>3. Alone(t)'
  BY <1>1 DEF Alone
<1>4. \A g \in Handlers : (ConsumerInv(work[g], t) /\ CompleterInv(work[g], t))'
  BY <1>1 DEF ConsumerInv, CompleterInv, RowInv
<1> QED
  BY <1>2, <1>3, <1>4

\* What is about one transaction.
About(t) ==
  RowInv(t) /\ Alone(t) /\ \A h \in Handlers : ConsumerInv(work[h], t) /\ CompleterInv(work[h], t)

\* The others are untouched by a handler that has no part in them.
LEMMA OthersApart ==
  ASSUME SignInTypes, SessionsInv, NEW h \in Handlers, NEW j \in Jobs, Takes(h, j),
         NEW u \in Transactions, transactions'[u] = transactions[u], opened'[u] = opened[u],
         ~Consumes(j, u) /\ ~Completes(j, u)
  PROVE  About(u)'
<1>1. About(u)
  BY DEF SessionsInv, About
<1>2. \A g \in Handlers :
        /\ Consumes(work'[g], u) => Consumes(work[g], u)
        /\ Completes(work'[g], u) => Completes(work[g], u)
        /\ MayIssue(work'[g], u) => MayIssue(work[g], u)
  BY DEF Takes, MayIssue
<1>3. RowInv(u)'
  BY <1>1 DEF About, RowInv
<1>4. Alone(u)'
  BY <1>1, <1>2 DEF About, Alone
<1>5. \A g \in Handlers : (ConsumerInv(work[g], u) /\ CompleterInv(work[g], u))'
  BY <1>1, <1>2 DEF About, ConsumerInv, CompleterInv, Consumes, Completes, MayIssue
<1> QED
  BY <1>3, <1>4, <1>5 DEF About

\* A callback consumes.
LEMMA ConsumeKeeps ==
  ASSUME SignInTypes, SessionsInv, NEW h \in Handlers, Consume(h)
  PROVE  SessionsInv'
<1>1. PICK t : t = work[h].t
  OBVIOUS
<1>2. /\ t \in Transactions /\ transactions[t].status = "OPEN" /\ opened' = opened
      /\ transactions' = [transactions EXCEPT ![t].status = "USED"]
  BY <1>1, JobIs DEF Consume, Valid, At, SignInTypes, Jobs, OfProvider
<1>3. /\ transactions'[t].status = "USED" /\ transactions'[t].purpose = transactions[t].purpose
      /\ transactions'[t].completed = transactions[t].completed
      /\ \A u \in Transactions \ {t} : transactions'[u] = transactions[u]
  BY <1>2 DEF SignInTypes, Transaction
<1>4. PICK j \in Jobs : /\ Takes(h, j) /\ j.pc = "find" /\ j.t = t /\ j.flow = "callback"
  <2>1. Goes(h, "find") /\ work[h].flow = "callback"
    BY JobIs, HandsGo DEF Consume, At, SignInTypes
  <2> QED
    BY <1>1, <2>1 DEF Goes
<1>5. About(t)
  BY <1>2 DEF SessionsInv, About
<1>6. /\ transactions[t].purpose = "NONE" /\ opened[t] = 0
      /\ \A g \in Handlers : ~Consumes(work[g], t) /\ ~Completes(work[g], t)
  BY <1>2, <1>5 DEF About, RowInv, ConsumerInv, CompleterInv, SignInTypes, Transaction
<1>7. \A g \in Handlers :
        /\ ~Completes(work'[g], t)
        /\ Consumes(work'[g], t) => g = h
  BY <1>4, <1>6 DEF Takes, Completes
<1>8. About(t)'
  <2>1. RowInv(t)'
    BY <1>2, <1>3, <1>6 DEF RowInv
  <2>2. Alone(t)'
    BY <1>7 DEF Alone, MayIssue
  <2>3. \A g \in Handlers : (ConsumerInv(work[g], t) /\ CompleterInv(work[g], t))'
    BY <1>2, <1>3, <1>6, <1>7 DEF ConsumerInv, CompleterInv
  <2> QED
    BY <2>1, <2>2, <2>3 DEF About
<1>9. ASSUME NEW u \in Transactions, u # t PROVE About(u)'
  BY <1>2, <1>3, <1>4, <1>9, OthersApart DEF Consumes, Completes
<1> QED
  BY <1>8, <1>9 DEF SessionsInv, About

\* A callback leaves a ticket, and goes, or goes on to create the account.
LEMMA CallbackKeeps ==
  ASSUME SignInTypes, SessionsInv, NEW h \in Handlers,
         MfaTicket(h) \/ OnboardingTicket(h) \/ CreateAccount(h)
  PROVE  SessionsInv'
<1>1. PICK t : t = work[h].t
  OBVIOUS
<1>2. t \in Transactions /\ Consumes(work[h], t) /\ opened' = opened
  BY <1>1, JobIs DEF MfaTicket, OnboardingTicket, CreateAccount, WriteTicket, At, Consumes,
                     SignInTypes, Jobs, OfProvider
<1>3. transactions[t].status # "DELETED"
  BY <1>1 DEF MfaTicket, OnboardingTicket, CreateAccount, WriteTicket, Row
<1>4. About(t)
  BY <1>2 DEF SessionsInv, About
<1>5. /\ transactions[t].status = "USED" /\ transactions[t].purpose # "MFA" /\ opened[t] = 0
      /\ \A g \in Handlers : ~Completes(work[g], t) /\ (Consumes(work[g], t) => g = h)
  BY <1>2, <1>3, <1>4 DEF About, Alone, ConsumerInv
<1>6. /\ transactions'[t].status = transactions[t].status
      /\ transactions'[t].purpose = "MFA" => MfaTicket(h)
      /\ \A u \in Transactions \ {t} : transactions'[u] = transactions[u]
  <2>1. CASE MfaTicket(h)
    BY <1>1, <1>2, <2>1 DEF MfaTicket, WriteTicket, SignInTypes, Transaction
  <2>2. CASE OnboardingTicket(h)
    BY <1>1, <1>2, <2>2 DEF OnboardingTicket, WriteTicket, SignInTypes, Transaction
  <2>3. CASE CreateAccount(h)
    BY <1>1, <1>2, <1>5, <2>3 DEF CreateAccount, SignInTypes, Transaction
  <2> QED
    BY <2>1, <2>2, <2>3
<1>7. PICK j \in Jobs : /\ Takes(h, j) /\ j.flow # "ticket" /\ \A u : Consumes(j, u) => u = t
                        /\ MfaTicket(h) => ~Consumes(j, t)
  <2>1. CASE MfaTicket(h)
    BY <2>1, HandsEnd, IdleIs DEF Ends, Consumes
  <2>2. CASE OnboardingTicket(h) \/ CreateAccount(h)
    <3>1. ~MfaTicket(h)
      BY <2>2 DEF OnboardingTicket, CreateAccount, MfaTicket, At
    <3>2. PICK p : Goes(h, p)
      BY <2>2, HandsGo
    <3>3. work[h].flow = "callback"
      BY <1>2 DEF Consumes
    <3> QED
      BY <1>1, <3>1, <3>2, <3>3 DEF Goes, Consumes
  <2> QED
    BY <2>1, <2>2
<1>8. \A g \in Handlers :
        /\ ~Completes(work'[g], t)
        /\ Consumes(work'[g], t) => g = h /\ ~MfaTicket(h)
  BY <1>5, <1>7 DEF Takes, Completes
<1>9. About(t)'
  <2>1. RowInv(t)'
    BY <1>2, <1>5, <1>6 DEF RowInv
  <2>2. Alone(t)'
    BY <1>8 DEF Alone, MayIssue
  <2>3. \A g \in Handlers : (ConsumerInv(work[g], t) /\ CompleterInv(work[g], t))'
    BY <1>2, <1>5, <1>6, <1>8 DEF ConsumerInv, CompleterInv
  <2> QED
    BY <2>1, <2>2, <2>3 DEF About
<1>10. ASSUME NEW u \in Transactions, u # t PROVE About(u)'
  <2>1. ~Consumes(j, u) /\ ~Completes(j, u)
    BY <1>7, <1>10 DEF Completes
  <2> QED
    BY <1>2, <1>6, <1>7, <1>10, <2>1, OthersApart
<1> QED
  BY <1>9, <1>10 DEF SessionsInv, About

\* A ticket is found, by a request that is to complete it.
LEMMA TicketReadKeeps ==
  ASSUME SignInTypes, SessionsInv, NEW h \in Handlers, NEW t \in Transactions, TicketRead(h, t)
  PROVE  SessionsInv'
<1>1. UNCHANGED <<transactions, opened>> /\ transactions[t].purpose = "MFA"
  BY DEF TicketRead, Pending
<1>2. PICK j \in Jobs : Takes(h, j) /\ j.pc = "verify" /\ j.flow = "ticket" /\ j.t = t
  BY HandsBegin DEF Begins
<1>3. About(t)
  BY DEF SessionsInv, About
<1>4. \A g \in Handlers :
        /\ ~Consumes(work'[g], t)
        /\ Completes(work'[g], t) => g = h \/ Completes(work[g], t)
        /\ MayIssue(work'[g], t) => MayIssue(work[g], t)
  BY <1>1, <1>2, <1>3 DEF Takes, Consumes, Completes, MayIssue, About, ConsumerInv
<1>5. About(t)'
  <2>1. RowInv(t)'
    BY <1>1, <1>3 DEF RowInv, About
  <2>2. Alone(t)'
    BY <1>3, <1>4 DEF Alone, About
  <2>3. \A g \in Handlers : (ConsumerInv(work[g], t) /\ CompleterInv(work[g], t))'
    BY <1>1, <1>3, <1>4 DEF ConsumerInv, CompleterInv, MayIssue, About
  <2> QED
    BY <2>1, <2>2, <2>3 DEF About
<1>6. ASSUME NEW u \in Transactions, u # t PROVE About(u)'
  BY <1>1, <1>2, <1>6, OthersApart DEF Consumes, Completes
<1> QED
  BY <1>5, <1>6 DEF SessionsInv, About

\* The right code completes it, once.
LEMMA TicketConsumeKeeps ==
  ASSUME SignInTypes, SessionsInv, NEW h \in Handlers, TicketConsume(h)
  PROVE  SessionsInv'
<1>1. PICK t, c : t = work[h].t /\ c = TRUE
  OBVIOUS
<1>2. /\ t \in Transactions /\ Completes(work[h], t) /\ opened' = opened
      /\ transactions[t].status # "DELETED" /\ ~transactions[t].completed
      /\ transactions' = [transactions EXCEPT ![t].completed = c]
  BY <1>1, JobIs DEF TicketConsume, Row, At, Completes, SignInTypes, Jobs, OfProvider
<1>3. /\ transactions'[t].status = transactions[t].status
      /\ transactions'[t].purpose = transactions[t].purpose
      /\ transactions'[t].completed = c
      /\ \A u \in Transactions \ {t} : transactions'[u] = transactions[u]
  BY <1>2 DEF SignInTypes, Transaction
<1>4. PICK j \in Jobs : Takes(h, j) /\ j.pc = "issue verified" /\ j.flow = "ticket" /\ j.t = t
  <2>1. Goes(h, "issue verified") /\ work[h].flow = "ticket"
    BY <1>2, HandsGo DEF Completes
  <2> QED
    BY <1>1, <2>1 DEF Goes
<1>5. About(t)
  BY <1>2 DEF SessionsInv, About
<1>6. /\ transactions[t].purpose = "MFA" /\ opened[t] = 0
      /\ \A g \in Handlers : ~Consumes(work[g], t) /\ ~MayIssue(work[g], t)
  BY <1>2, <1>5 DEF About, RowInv, Alone, CompleterInv, MayIssue
<1>7. \A g \in Handlers :
        /\ ~Consumes(work'[g], t)
        /\ MayIssue(work'[g], t) => g = h
  BY <1>4, <1>6 DEF Takes, Consumes
<1>8. About(t)'
  <2>1. RowInv(t)'
    BY <1>1, <1>2, <1>3, <1>5, <1>6 DEF RowInv, About
  <2>2. Alone(t)'
    BY <1>7 DEF Alone
  <2>3. \A g \in Handlers : (ConsumerInv(work[g], t) /\ CompleterInv(work[g], t))'
    BY <1>1, <1>2, <1>3, <1>6, <1>7 DEF ConsumerInv, CompleterInv
  <2> QED
    BY <2>1, <2>2, <2>3 DEF About
<1>9. ASSUME NEW u \in Transactions, u # t PROVE About(u)'
  BY <1>2, <1>3, <1>4, <1>9, OthersApart DEF Consumes, Completes
<1> QED
  BY <1>8, <1>9 DEF SessionsInv, About

\* The session, of the callback or of the request that completed the sign-in.
LEMMA IssueKeeps ==
  ASSUME SignInTypes, SessionsInv, NEW h \in Handlers, Issue(h)
  PROVE  SessionsInv'
<1>1. Takes(h, Idle) /\ transactions' = transactions
  BY HandsEnd DEF Ends, Issue
<1>2. \A u : ~Consumes(Idle, u) /\ ~Completes(Idle, u) /\ ~MayIssue(Idle, u)
  BY IdleIs DEF Consumes, Completes, MayIssue
<1>3. CASE work[h].t = "none"
  <2>1. opened' = opened
    BY <1>3 DEF Issue
  <2> QED
    BY <1>1, <1>2, <2>1, IdleIs, HandApart
<1>4. CASE work[h].t # "none"
  <2>1. PICK t : t = work[h].t
    OBVIOUS
  <2>2. /\ t \in Transactions /\ opened' = [opened EXCEPT ![t] = More(@)]
        /\ work[h].flow \in OfProvider
    BY <1>4, <2>1 DEF Issue, SignInTypes, Jobs, Fields
  <2>3. Consumes(work[h], t) \/ MayIssue(work[h], t)
    BY <2>1, <2>2, JobIs DEF Issue, Consumes, Completes, MayIssue, SignInTypes, OfProvider
  <2>4. About(t)
    BY <2>2 DEF SessionsInv, About
  <2>5. opened[t] = 0
    BY <2>3, <2>4 DEF About, ConsumerInv, CompleterInv, MayIssue
  <2>6. /\ opened'[t] = 1 /\ \A u \in Transactions \ {t} : opened'[u] = opened[u]
    BY <2>2, <2>5, MoreIs DEF SignInTypes
  <2>7. \A g \in Handlers : g # h => ~Consumes(work[g], t) /\ ~MayIssue(work[g], t)
    BY <2>3, <2>4 DEF About, Alone, MayIssue
  <2>8. \A g \in Handlers :
          /\ ~Consumes(work'[g], t) /\ ~MayIssue(work'[g], t)
          /\ Completes(work'[g], t) => Completes(work[g], t)
    BY <1>1, <1>2, <2>7 DEF Takes
  <2>9. About(t)'
    <3>1. RowInv(t)'
      <4>1. /\ transactions[t].status \in {"USED", "DELETED"}
            /\ transactions[t].purpose = "MFA" => transactions[t].completed
        <5>1. CASE Consumes(work[h], t)
          BY <2>4, <5>1 DEF About, ConsumerInv
        <5>2. CASE MayIssue(work[h], t)
          BY <2>4, <5>2 DEF About, CompleterInv, MayIssue, RowInv
        <5> QED
          BY <2>3, <5>1, <5>2
      <4> QED
        BY <1>1, <2>4, <2>6, <4>1 DEF RowInv, About
    <3>2. Alone(t)'
      BY <2>8 DEF Alone
    <3>3. \A g \in Handlers : (ConsumerInv(work[g], t) /\ CompleterInv(work[g], t))'
      BY <1>1, <2>4, <2>8 DEF ConsumerInv, CompleterInv, MayIssue, About
    <3> QED
      BY <3>1, <3>2, <3>3 DEF About
  <2>10. ASSUME NEW u \in Transactions, u # t PROVE About(u)'
    BY <1>1, <1>2, <2>6, <2>10, IdleIs, OthersApart
  <2> QED
    BY <2>9, <2>10 DEF SessionsInv, About
<1> QED
  BY <1>3, <1>4

\* Each sign-in keeps to one session, whatever the step.
LEMMA SessionsKept ==
  ASSUME SignInTypes, SessionsInv, [Next]_vars
  PROVE  SessionsInv'
<1>1. CASE UNCHANGED vars \/ Tick \/ Register \/ VerifyEmail
  <2>1. UNCHANGED <<transactions, opened, work>>
    BY <1>1 DEF vars, Tick, Register, VerifyEmail
  <2> QED
    BY <2>1, RowsChange
<1>2. CASE OthersBegin \/ \E t \in Transactions : OAuthBegin(t) \/ Lapse(t)
  <2>1. UNCHANGED <<opened, work>>
    BY <1>2 DEF OthersBegin, OAuthBegin, Lapse
  <2>2. \A u \in Transactions :
          \/ Swept[u] = transactions[u]
          \/ Swept[u].status = "DELETED" /\ Swept[u].purpose = "NONE"
    BY DEF Swept, NoTransaction
  <2>3. CASE OthersBegin
    BY <2>1, <2>2, <2>3, RowsChange DEF OthersBegin
  <2>4. ASSUME NEW t \in Transactions, OAuthBegin(t) PROVE SessionsInv'
    <3>1. /\ transactions[t].status = "NONE" /\ transactions[t].purpose = "NONE"
          /\ Swept[t] = transactions[t]
      BY <2>4 DEF OAuthBegin, NoTransaction, Swept
    <3>2. /\ transactions'[t].purpose = "NONE"
          /\ \A u \in Transactions \ {t} : transactions'[u] = Swept[u]
      BY <2>4, <3>1 DEF OAuthBegin, Swept, SignInTypes, Transaction
    <3> QED
      BY <2>1, <2>2, <3>1, <3>2, RowsChange
  <2>5. ASSUME NEW t \in Transactions, Lapse(t) PROVE SessionsInv'
    <3>1. \A u \in Transactions :
            /\ transactions'[u].status = transactions[u].status
            /\ transactions'[u].purpose = transactions[u].purpose
            /\ transactions'[u].completed = transactions[u].completed
      BY <2>5 DEF Lapse, SignInTypes, Transaction
    <3> QED
      BY <2>1, <3>1, RowsChange
  <2> QED
    BY <1>2, <2>3, <2>4, <2>5
<1>3. ASSUME NEW h \in Handlers,
             \/ Login(h) \/ EnrollRead(h) \/ DisableRead(h)
             \/ \E t \in Transactions : CallbackRead(h, t)
      PROVE  SessionsInv'
  <2>1. UNCHANGED <<transactions, opened>>
    BY <1>3 DEF Login, EnrollRead, DisableRead, CallbackRead
  <2>2. PICK j \in Jobs : /\ Takes(h, j) /\ j.flow # "ticket"
                          /\ j.flow = "callback" => j.pc = "consume"
    BY <1>3, HandsBegin DEF Begins
  <2> QED
    BY <2>1, <2>2, HandApart DEF Consumes, Completes, MayIssue
<1>4. ASSUME NEW h \in Handlers, VerifyRead(h) \/ ConfirmRead(h)
      PROVE  SessionsInv'
  <2>1. UNCHANGED <<transactions, opened>>
    BY <1>4 DEF VerifyRead, ConfirmRead
  <2>2. PICK j \in Jobs :
          /\ Takes(h, j) /\ j.pc \in {"accept", "confirm"}
          /\ j.flow = "enroll" \/ (j.flow = work[h].flow /\ j.t = work[h].t)
    BY <1>4, VerifyTakes, ConfirmTakes
  <2>3. j.flow # "callback"
    BY <2>2, JobIs
  <2> QED
    BY <2>1, <2>2, <2>3, HandApart DEF Consumes, Completes, MayIssue
<1>5. ASSUME NEW h \in Handlers, Die(h) \/ EnrollWrite(h) \/ ConfirmWrite(h) \/ Disable(h)
      PROVE  SessionsInv'
  <2>1. UNCHANGED <<transactions, opened>>
    BY <1>5 DEF Die, EnrollWrite, ConfirmWrite, Disable
  <2>2. Takes(h, Idle)
    BY <1>5, HandsEnd DEF Ends
  <2> QED
    BY <2>1, <2>2, IdleIs, HandApart DEF Consumes, Completes, MayIssue
<1>6. ASSUME NEW h \in Handlers,
             \/ MfaStatus(h) \/ FindIdentity(h) \/ MatchUser(h) \/ Link(h) \/ OnboardingRead(h)
             \/ Accept(h) \/ AcceptRecovery(h)
      PROVE  SessionsInv'
  <2>1. UNCHANGED <<transactions, opened>>
    BY <1>6 DEF MfaStatus, FindIdentity, MatchUser, Link, OnboardingRead, Accept, AcceptRecovery,
                Accepted
  <2>2. PICK p : Goes(h, p) /\ (p = "issue verified" => work[h].flow = "login")
    <3>1. CASE Accept(h) \/ AcceptRecovery(h)
      <4>1. Goes(h, AcceptsTo(work[h].flow))
        BY <3>1, AcceptedGoes DEF Accept, AcceptRecovery
      <4>2. AcceptsTo(work[h].flow) = "issue verified" => work[h].flow = "login"
        BY DEF AcceptsTo
      <4> QED
        BY <4>1, <4>2
    <3>2. CASE ~(Accept(h) \/ AcceptRecovery(h))
      <4>1. \E p \in {"issue", "verify", "ticket", "status", "match", "onboard", "link", "create"} :
              Goes(h, p)
        BY <1>6, <3>2, HandsGo
      <4> QED
        BY <4>1
    <3> QED
      BY <3>1, <3>2
  <2>3. work[h].pc # "consume"
    BY <1>6 DEF MfaStatus, FindIdentity, MatchUser, Link, OnboardingRead, Accept, AcceptRecovery, At
  <2>4. PICK j \in Jobs : Takes(h, j) /\ j.pc = p /\ j.flow = work[h].flow /\ j.t = work[h].t
    BY <2>2 DEF Goes
  <2>5. \A t \in Transactions :
          /\ Consumes(j, t) => Consumes(work[h], t)
          /\ Completes(j, t) => Completes(work[h], t)
          /\ MayIssue(j, t) => MayIssue(work[h], t)
    BY <2>2, <2>3, <2>4 DEF Consumes, Completes, MayIssue
  <2> QED
    BY <2>1, <2>4, <2>5, HandApart
<1> QED
  BY <1>1, <1>2, <1>3, <1>4, <1>5, <1>6, ConsumeKeeps, CallbackKeeps, TicketReadKeeps,
     TicketConsumeKeeps, IssueKeeps DEF Next
-----------------------------------------------------------------------------
(* Theorems *)

SignInInv == SignInTypes /\ FactorInv /\ CodesInv /\ SessionsInv

\* It holds when nobody has an account yet.
LEMMA InitSignIn == Init => SignInInv
<1> SUFFICES ASSUME Init PROVE SignInInv
  OBVIOUS
<1> USE DEF Init
<1>1. NoTransaction \in Transaction /\ NoTransaction.purpose = "NONE"
      /\ NoTransaction.status = "NONE"
  BY DEF NoTransaction, Transaction
<1>2. NoCredential \in Credential /\ NoCredential.secret = 0 /\ ~NoCredential.enabled
  BY Bounds DEF NoCredential, Credential
<1>3. NoCode \in [of : Secrets, used : BOOLEAN]
  BY Bounds DEF NoCode
<1>4. SignInTypes
  <2>1. account \in Accounts /\ linked \in BOOLEAN /\ missed \in BOOLEAN /\ raced \in BOOLEAN
    BY DEF Accounts
  <2>2. transactions \in [Transactions -> Transaction] /\ work \in [Handlers -> Jobs]
    BY <1>1, IdleIs
  <2>3. uses \in [Codes -> 0 .. 2] /\ opened \in [Transactions -> 0 .. 2]
    OBVIOUS
  <2>4. now \in Steps /\ secrets \in Secrets /\ confirmed \in Secrets
    BY Bounds
  <2> QED
    BY <1>2, <1>3, <2>1, <2>2, <2>3, <2>4 DEF SignInTypes
<1>5. FactorInv
  BY <1>2, IdleIs DEF FactorInv, Asked
<1>6. CodesInv
  <2>1. \A s \in Secrets, k \in 0 .. MaxStep : uses[<<s, k>>] = 0
    BY DEF Codes
  <2> QED
    BY <1>2, <2>1, IdleIs DEF CodesInv, RowFits, UsesFit, Current
<1>7. SessionsInv
  <2>1. \A h \in Handlers, t \in Transactions : ~Consumes(work[h], t) /\ ~Completes(work[h], t)
    BY IdleIs DEF Consumes, Completes
  <2>2. \A t \in Transactions : RowInv(t)
    BY <1>1 DEF RowInv
  <2> QED
    BY <2>1, <2>2 DEF SessionsInv, Alone, ConsumerInv, CompleterInv, MayIssue
<1> QED
  BY <1>4, <1>5, <1>6, <1>7 DEF SignInInv

\* Every step keeps it.
LEMMA SignInInductive == Spec => []SignInInv
<1>1. SignInInv /\ [Next]_vars => SignInInv'
  BY TypesKept, FactorKept, CodesKept, SessionsKept DEF SignInInv
<1> QED
  BY <1>1, InitSignIn, PTL DEF Spec

\* For any number of requests that carry it, in tabs or by repetition, a code lets in once,
\* unless the enrollment changed under one of them.
THEOREM CodesOnce == Spec => []CodeOnce
<1>1. SignInInv => CodeOnce
  BY DEF SignInInv, CodesInv, UsesFit, CodeOnce, Codes
<1> QED
  BY <1>1, SignInInductive, PTL

\* For any number of sign-ins with the provider, callbacks repeated and codes sent twice:
\* one session each at most.
THEOREM OneSessionEach == Spec => []OneSession
<1>1. SignInInv => OneSession
  BY DEF SignInInv, SessionsInv, RowInv, OneSession
<1> QED
  BY <1>1, SignInInductive, PTL

\* On every path, and whatever is enrolled or disabled meanwhile, who has a factor in use all
\* through a sign-in is asked for it.
THEOREM FactorIsAsked == Spec => []FactorAsked
<1>1. SignInInv => FactorAsked
  BY DEF SignInInv, FactorInv, FactorAsked
<1> QED
  BY <1>1, SignInInductive, PTL

\* A factor that was confirmed stays in use until it is disabled, unless two requests
\* changed the enrollment at the same time.
THEOREM FactorStands == Spec => []ConfirmedStands
<1>1. SignInInv => ConfirmedStands
  BY DEF SignInInv, CodesInv, RowFits, ConfirmedStands, InUse
<1> QED
  BY <1>1, SignInInductive, PTL
=============================================================================
